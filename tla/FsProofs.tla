------------------------------ MODULE FsProofs ------------------------------
(***************************************************************************)
(* Proofs about module Fs, for every number of processes, names, inodes,   *)
(* blocks, cache slots and directory entries, where calls exclude each     *)
(* other (Excl).  The machine may be switched off at any step.             *)
(*                                                                         *)
(* At most one process is in a call, and the invariant says of some p that *)
(* it is this one.  Its parts are about the inode cache, which never       *)
(* depends on what is on the disk; about the disk, unless torn; and about  *)
(* what only a crash can lose.                                             *)
(***************************************************************************)
EXTENDS Fs, FiniteSetTheorems, WellFoundedInduction, TLAPS

\* No process but p is in a call.
Solo(p) == \A q \in Procs : q # p => pc[q] = "idle"

-----------------------------------------------------------------------------
(* The inode cache. *)

\* The call of p has a reference to the slot loc[p].s, or to loc[p].old.
HoldsS(p) ==
  \/ pc[p] \in {"open_lock", "open_done", "create_init", "create_link", "iput",
                "unlink_erase", "unlink_parent", "unlink_count",
                "mkdir_balloc", "mkdir_dots", "mkdir_link", "mkdir_parent",
                "ren_target", "ren_unlink", "ren_count"}
  \/ pc[p] \in {"trunc", "trunc_size"} /\ loc[p].ret = "open_done"
HoldsOld(p) ==
  \/ pc[p] \in {"ren_unlink", "ren_count", "ren_link", "ren_erase", "ren_put"}
  \/ pc[p] \in {"iput", "free", "free_size", "free_type"} /\ loc[p].ret # "idle"

\* iput has given up the last reference and still works on the slot.
Freeing(p) == pc[p] \in {"free", "free_size", "free_type"}

Handles(k) == {q \in Procs : handle[q] = k}
RefS(p, k) == IF HoldsS(p) /\ loc[p].s = k THEN 1 ELSE 0
RefOld(p, k) == IF HoldsOld(p) /\ loc[p].old = k THEN 1 ELSE 0

\* The count of a slot is the number of open files, of references of the call, and of those
\* that sys_open has forgotten.
RefsOK(p) == \A k \in Slots :
  icache[k].ref = Cardinality(Handles(k)) + RefS(p, k) + RefOld(p, k) + lost[k]

InUse(p, k) == icache[k].ref > 0 \/ (Freeing(p) /\ loc[p].s = k)

\* An inode has at most one slot, and an open file is the one that was opened.
SlotsOK(p) ==
  /\ \A k \in Slots : InUse(p, k) => icache[k].inum \in Inums
  /\ \A k, m \in Slots : InUse(p, k) /\ InUse(p, m) /\ icache[k].inum = icache[m].inum => k = m
  /\ Freeing(p) => icache[loc[p].s].ref = 0
  /\ \A q \in Procs : handle[q] # 0 => opened[q] = icache[handle[q]].inum

\* What the point that the call has reached says of its variables.
LocalOK(p) ==
  LET l == loc[p] IN
  /\ pc[p] # "idle" => l.s \in Slots
  /\ HoldsOld(p) => l.old \in Slots
  /\ pc[p] = "ren_target" => l.old = l.s
  /\ pc[p] \in {"create_init", "create_link", "mkdir_balloc", "mkdir_dots", "mkdir_link",
                "ren_target", "ren_unlink", "ren_count", "ren_link"} \/ l.ret = "ren_link"
       => l.name \in Names
  /\ pc[p] \in {"unlink_erase", "ren_target", "ren_unlink", "ren_count", "ren_link", "ren_erase"}
       \/ l.ret = "ren_link" => l.off \in Entries
  /\ pc[p] = "ren_unlink" => l.toff \in Entries
  /\ pc[p] \in {"write_update", "mkdir_dots"} => l.blk \in Blocks
  /\ pc[p] = "open_done" <=> l.ret = "open_done" /\ pc[p] \notin {"trunc", "trunc_size"}
  /\ l.ret \in {"ren_link", "ren_put"} =>
       pc[p] \in {"iput", "free", "free_size", "free_type", "ren_link", "ren_erase", "ren_put"}
  /\ pc[p] \in {"open_lock", "create_init", "create_link"} \/ l.ret = "open_done" => handle[p] = 0
  /\ pc[p] = "write_update" \/ (pc[p] \in {"trunc", "trunc_size"} /\ l.ret = "idle")
       => handle[p] = l.s

DirOK == \A o \in Entries : dir[o].name = NoName <=> dir[o].ino = 0

CacheInv(p) == RefsOK(p) /\ SlotsOK(p) /\ LocalOK(p) /\ DirOK

-----------------------------------------------------------------------------
(* The disk, as long as no crash has torn it. *)

NamesOf(i) == {o \in Entries : dir[o].ino = i}
Live(p, i) == Named(i) \/ \E k \in Slots : InUse(p, k) /\ icache[k].inum = i

\* The inode that the call works on, and the source of a rename.
MyIno(p) == icache[loc[p].s].inum
OldIno(p) == icache[loc[p].old].inum

\* The links that inode i has, or lacks, beyond its names while a call is under way.
Owed(p, i) ==
  IF pc[p] \in {"create_link", "unlink_parent", "unlink_count", "ren_count", "mkdir_link"} /\ MyIno(p) = i
  THEN 1
  ELSE IF \/ pc[p] \in {"mkdir_balloc", "mkdir_dots"} /\ MyIno(p) = i
          \/ pc[p] = "ren_erase" /\ OldIno(p) = i
  THEN -1 ELSE 0

\* A file has at least as many links as names; "." is one link of a directory.
CountsOK(p) ==
  \A i \in Inums : Live(p, i) =>
    /\ dinode[i].type = "file" => dinode[i].nlink >= Cardinality(NamesOf(i)) + Owed(p, i)
    /\ dinode[i].type = "dir" => dinode[i].nlink >= 1 + Cardinality(NamesOf(i)) + Owed(p, i)

NamesOK ==
  /\ \A o, q \in Entries :
       dir[o].ino # 0 /\ dir[o].name = dir[q].name /\ Whole(dir[o].name) => o = q
  /\ \A o \in Entries : dir[o].ino # 0 =>
       dinode[dir[o].ino].type # "free" /\ dinode[dir[o].ino].nlink > 0

\* A slot in use is of an inode in use, and agrees with it unless the call is about to write it.
Truncating(p) == pc[p] \in {"trunc_size", "free_size"}
CoherentOK(p) ==
  \A k \in Slots : InUse(p, k) =>
    LET c == icache[k]  d == dinode[icache[k].inum] IN
    /\ d.type # "free"
    /\ c.valid => /\ c.type = d.type
                  /\ c.nlink = d.nlink \/ (pc[p] = "mkdir_dots" /\ k = loc[p].s)
                  /\ c.blk = d.blk \/ (Truncating(p) /\ k = loc[p].s)

\* A block belongs to one inode, and is marked unless itrunc is freeing it.
BlocksOK(p) ==
  \A i \in Inums : Live(p, i) /\ dinode[i].blk # 0 =>
    /\ dinode[i].blk \in used \/ (Truncating(p) /\ MyIno(p) = i)
    /\ \A j \in Inums : Live(p, j) /\ dinode[j].blk = dinode[i].blk => j = i

\* rename puts the inode that had the new name before it goes on.
PutsTarget(p) == pc[p] \in {"iput", "free", "free_size", "free_type"} /\ loc[p].ret = "ren_link"

\* What the point that the call has reached says of the disk.
DiskOK(p) ==
  LET l == loc[p]  c == icache[loc[p].s]  d == dinode[MyIno(p)] IN
  /\ \A q \in Procs : handle[q] # 0 => icache[handle[q]].valid
  /\ pc[p] \in {"create_link", "write_update", "trunc", "trunc_size", "open_done",
                "free", "free_size", "free_type", "unlink_parent", "unlink_count",
                "mkdir_dots", "mkdir_link", "mkdir_parent", "ren_count"} => c.valid
  /\ pc[p] \in {"iput", "open_lock"} => c.valid \/ Named(MyIno(p))
  /\ pc[p] \in {"create_init", "create_link", "mkdir_balloc", "mkdir_dots", "mkdir_link"}
       => Found(l.name) = {}
  /\ pc[p] \in {"create_init", "create_link", "write_update", "ren_count"} \/ Freeing(p) => d.type = "file"
  /\ pc[p] \in {"unlink_parent", "mkdir_balloc", "mkdir_dots", "mkdir_link", "mkdir_parent"} => d.type = "dir"
  /\ pc[p] \in {"create_init", "mkdir_balloc", "mkdir_dots"} => d.nlink = 0 /\ d.blk = 0
  /\ pc[p] = "mkdir_dots" => c.nlink = 2
  /\ Freeing(p) => d.nlink = 0
  /\ pc[p] = "free_type" => d.blk = 0
  /\ Truncating(p) => c.blk = 0 /\ d.blk \notin used
  /\ pc[p] \in {"write_update", "mkdir_dots"} =>
       /\ d.blk = 0 /\ l.blk \in used
       /\ \A i \in Inums : Live(p, i) => dinode[i].blk # l.blk
  /\ pc[p] = "unlink_erase" => dir[l.off].ino = MyIno(p)
  /\ HoldsOld(p) => icache[l.old].valid /\ dinode[OldIno(p)].type = "file"
  /\ pc[p] \in {"ren_target", "ren_unlink", "ren_count", "ren_link", "ren_erase"} \/ PutsTarget(p)
       => dir[l.off].ino = OldIno(p) /\ dir[l.off].name # l.name
  /\ pc[p] = "ren_unlink" => dir[l.toff].ino = MyIno(p) /\ dir[l.toff].name = l.name

DiskInv(p) == NamesOK /\ CoherentOK(p) /\ CountsOK(p) /\ BlocksOK(p) /\ DiskOK(p)

-----------------------------------------------------------------------------
(* What holds until the machine is switched off. *)

RootOwed(p) == IF pc[p] = "unlink_parent" THEN 1 ELSE IF pc[p] = "mkdir_parent" THEN -1 ELSE 0
DirNames == {o \in Entries : dir[o].ino # 0 /\ dinode[dir[o].ino].type = "dir"}

LeakInv(p) ==
  /\ \A i \in Inums : dinode[i].type = "file" =>
       Live(p, i) /\ dinode[i].nlink = Cardinality(NamesOf(i)) + Owed(p, i)
  /\ \A b \in used :
       \/ \E i \in Inums : dinode[i].type # "free" /\ dinode[i].blk = b
       \/ pc[p] \in {"write_update", "mkdir_dots"} /\ loc[p].blk = b
  /\ rootLink = 2 + Cardinality(DirNames) + RootOwed(p)

-----------------------------------------------------------------------------
\* p is the process that is in a call, if any is.
Resting == \A q \in Procs : pc[q] = "idle" => loc[q] = NoLocals
Good(p) ==
  /\ TypeOK /\ Solo(p) /\ Resting
  /\ torn => crashes # 0
  /\ CacheInv(p)
  /\ ~torn => DiskInv(p)
  /\ crashes = 0 => LeakInv(p)

\* The inductive invariant.
FsInv == \E p \in Procs : Good(p)

-----------------------------------------------------------------------------
(* Counting. *)

\* A nonempty set of places has a least member.
LEMMA LeastIs ==
  ASSUME NEW S \in SUBSET Nat, S # {}
  PROVE  Least(S) \in S
  <1> DEFINE R == {ss \in Nat \X Nat : ss[1] < ss[2]}
  <1>1. IsWellFoundedOn(R, Nat)
    BY NatLessThanWellFounded DEF OpToRel
  <1> HIDE DEF R
  <1>2. PICK x \in S : \A y \in S : ~(<<y, x>> \in R)
    BY <1>1, WFMin
  <1>3. \A x1, y1 \in Nat : ~(<<y1, x1>> \in R) => x1 <= y1
    BY DEF R
  <1>4. \A y \in S : x <= y
    BY <1>2, <1>3
  <1> QED
    BY <1>4 DEF Least

\* The names of an inode are counted.
LEMMA NamesCount ==
  ASSUME NEW i
  PROVE  /\ IsFiniteSet(NamesOf(i)) /\ Cardinality(NamesOf(i)) \in Nat
         /\ Cardinality(NamesOf(i)) = 0 <=> ~Named(i)
  <1>1. IsFiniteSet(Entries)
    <2>1. 1 \in Int /\ NENTRIES \in Int
      BY FsAssumption
    <2> QED
      BY <2>1, FS_Interval DEF Entries
  <1>2. IsFiniteSet(NamesOf(i))
    BY <1>1, FS_Subset DEF NamesOf
  <1>3. NamesOf(i) = {} <=> ~Named(i)
    BY DEF NamesOf, Named
  <1> QED
    BY <1>2, <1>3, FS_CardinalityType, FS_EmptySet

\* So are the names of directories, and the open files of a slot.
LEMMA DirCount ==
  IsFiniteSet(DirNames) /\ Cardinality(DirNames) \in Nat
  <1>1. IsFiniteSet(Entries)
    <2>1. 1 \in Int /\ NENTRIES \in Int
      BY FsAssumption
    <2> QED
      BY <2>1, FS_Interval DEF Entries
  <1>2. IsFiniteSet(DirNames)
    BY <1>1, FS_Subset DEF DirNames
  <1> QED
    BY <1>2, FS_CardinalityType

LEMMA HandleCount ==
  ASSUME NEW k
  PROVE  /\ IsFiniteSet(Handles(k)) /\ Cardinality(Handles(k)) \in Nat
         /\ Cardinality(Handles(k)) = 0 <=> \A q \in Procs : handle[q] # k
  <1>1. IsFiniteSet(Handles(k))
    BY FsAssumption, FS_Subset DEF Handles
  <1>2. Handles(k) = {} <=> \A q \in Procs : handle[q] # k
    BY DEF Handles
  <1> QED
    BY <1>1, <1>2, FS_CardinalityType, FS_EmptySet

LEMMA HandlesFinite ==
  ASSUME NEW k
  PROVE  Cardinality(Handles(k)') \in Nat
  <1>1. IsFiniteSet(Handles(k)')
    BY FsAssumption, FS_Subset DEF Handles
  <1> QED
    BY <1>1, FS_CardinalityType

\* Erasing an entry takes a name from one inode.
LEMMA NamesErase ==
  ASSUME dir \in [Entries -> [name : Names \cup {NoName}, ino : 0 .. NINODES]],
         NEW o \in Entries, dir[o].ino # 0, dir' = [dir EXCEPT ![o] = NoEntry],
         NEW i \in Inums
  PROVE  Cardinality(NamesOf(i)') = Cardinality(NamesOf(i)) - (IF dir[o].ino = i THEN 1 ELSE 0)
  <1>1. \A q \in Entries : dir'[q].ino = IF q = o THEN 0 ELSE dir[q].ino
    BY DEF NoEntry
  <1>2. i # 0
    BY FsAssumption DEF Inums
  <1>3. CASE dir[o].ino = i
    <2>1. NamesOf(i)' = NamesOf(i) \ {o} /\ o \in NamesOf(i)
      BY <1>1, <1>2, <1>3 DEF NamesOf
    <2>2. Cardinality(NamesOf(i) \ {o}) = Cardinality(NamesOf(i)) - 1
      BY <2>1, NamesCount, FS_RemoveElement
    <2> QED
      BY <1>3, <2>1, <2>2
  <1>4. CASE dir[o].ino # i
    <2>1. NamesOf(i)' = NamesOf(i)
      BY <1>1, <1>2, <1>4 DEF NamesOf
    <2>2. Cardinality(NamesOf(i)) \in Nat
      BY NamesCount
    <2> QED
      BY <1>4, <2>1, <2>2
  <1> QED
    BY <1>3, <1>4

\* dirlink gives one.
LEMMA NamesLink ==
  ASSUME dir \in [Entries -> [name : Names \cup {NoName}, ino : 0 .. NINODES]],
         NEW o \in Entries, dir[o].ino = 0, NEW n, NEW j \in Inums,
         dir' = [dir EXCEPT ![o] = [name |-> n, ino |-> j]],
         NEW i \in Inums
  PROVE  Cardinality(NamesOf(i)') = Cardinality(NamesOf(i)) + (IF j = i THEN 1 ELSE 0)
  <1>1. \A q \in Entries : dir'[q].ino = IF q = o THEN j ELSE dir[q].ino
    OBVIOUS
  <1>2. i # 0
    BY FsAssumption DEF Inums
  <1>3. CASE j = i
    <2>1. NamesOf(i)' = NamesOf(i) \cup {o} /\ o \notin NamesOf(i)
      BY <1>1, <1>2, <1>3 DEF NamesOf
    <2>2. Cardinality(NamesOf(i) \cup {o}) = Cardinality(NamesOf(i)) + 1
      BY <2>1, NamesCount, FS_AddElement
    <2> QED
      BY <1>3, <2>1, <2>2
  <1>4. CASE j # i
    <2>1. NamesOf(i)' = NamesOf(i)
      BY <1>1, <1>2, <1>4 DEF NamesOf
    <2>2. Cardinality(NamesOf(i)) \in Nat
      BY NamesCount
    <2> QED
      BY <1>4, <2>1, <2>2
  <1> QED
    BY <1>3, <1>4

\* The same for the names of directories, whose type does not change.
SameTypes == \A o \in Entries : dir[o].ino # 0 => dinode'[dir[o].ino].type = dinode[dir[o].ino].type

LEMMA DirsErase ==
  ASSUME dir \in [Entries -> [name : Names \cup {NoName}, ino : 0 .. NINODES]],
         NEW o \in Entries, dir[o].ino # 0, dir' = [dir EXCEPT ![o] = NoEntry], SameTypes
  PROVE  Cardinality(DirNames') = Cardinality(DirNames) - (IF dinode[dir[o].ino].type = "dir" THEN 1 ELSE 0)
  <1>1. \A q \in Entries : dir'[q].ino = IF q = o THEN 0 ELSE dir[q].ino
    BY DEF NoEntry
  <1>3. CASE dinode[dir[o].ino].type = "dir"
    <2>1. DirNames' = DirNames \ {o} /\ o \in DirNames
      BY <1>1, <1>3 DEF DirNames, SameTypes
    <2> QED
      BY <1>3, <2>1, DirCount, FS_RemoveElement
  <1>4. CASE dinode[dir[o].ino].type # "dir"
    <2>1. DirNames' = DirNames
      BY <1>1, <1>4 DEF DirNames, SameTypes
    <2>2. Cardinality(DirNames) \in Nat
      BY DirCount
    <2> QED
      BY <1>4, <2>1, <2>2
  <1> QED
    BY <1>3, <1>4

LEMMA DirsLink ==
  ASSUME dir \in [Entries -> [name : Names \cup {NoName}, ino : 0 .. NINODES]],
         NEW o \in Entries, dir[o].ino = 0, NEW n, NEW j \in Inums,
         dir' = [dir EXCEPT ![o] = [name |-> n, ino |-> j]], SameTypes
  PROVE  Cardinality(DirNames') = Cardinality(DirNames) + (IF dinode'[j].type = "dir" THEN 1 ELSE 0)
  <1>1. \A q \in Entries : dir'[q].ino = IF q = o THEN j ELSE dir[q].ino
    OBVIOUS
  <1>2. j # 0
    BY FsAssumption DEF Inums
  <1>3. CASE dinode'[j].type = "dir"
    <2>1. DirNames' = DirNames \cup {o} /\ o \notin DirNames
      BY <1>1, <1>2, <1>3 DEF DirNames, SameTypes
    <2> QED
      BY <1>3, <2>1, DirCount, FS_AddElement
  <1>4. CASE dinode'[j].type # "dir"
    <2>1. DirNames' = DirNames
      BY <1>1, <1>2, <1>4 DEF DirNames, SameTypes
    <2>2. Cardinality(DirNames) \in Nat
      BY DirCount
    <2> QED
      BY <1>4, <2>1, <2>2
  <1> QED
    BY <1>3, <1>4

-----------------------------------------------------------------------------
(* Whose step it is. *)

\* Between calls any process may be the next.
LEMMA Switch ==
  ASSUME NEW p \in Procs, NEW q \in Procs, Good(p), Idle
  PROVE  Good(q)
  <1>1. /\ pc[p] = "idle" /\ loc[p] = NoLocals
        /\ pc[q] = "idle" /\ loc[q] = NoLocals
    BY DEF Good, Idle, Resting
  <1>2. NoLocals.ret = "idle"
    BY DEF NoLocals
  <1>3. ~HoldsS(p) /\ ~HoldsS(q) /\ ~HoldsOld(p) /\ ~HoldsOld(q) /\ ~Freeing(p) /\ ~Freeing(q)
    BY <1>1 DEF HoldsS, HoldsOld, Freeing
  <1>4. \A k \in Slots : RefS(p, k) = RefS(q, k) /\ RefOld(p, k) = RefOld(q, k)
    BY <1>3 DEF RefS, RefOld
  <1>5. \A k \in Slots : InUse(p, k) <=> InUse(q, k)
    BY <1>3 DEF InUse
  <1>6. \A i \in Inums : (Live(p, i) <=> Live(q, i)) /\ Owed(p, i) = Owed(q, i)
    BY <1>1, <1>5 DEF Live, Owed
  <1>7. CacheInv(q)
    <2>1. RefsOK(q)
      BY <1>4 DEF Good, CacheInv, RefsOK
    <2>2. SlotsOK(q)
      BY <1>3, <1>5 DEF Good, CacheInv, SlotsOK
    <2>3. LocalOK(q)
      BY <1>1, <1>2, <1>3 DEF LocalOK
    <2> QED
      BY <2>1, <2>2, <2>3 DEF Good, CacheInv
  <1>8. ASSUME DiskInv(p) PROVE DiskInv(q)
    <2>1. CoherentOK(q)
      BY <1>1, <1>5, <1>8 DEF DiskInv, CoherentOK, Truncating
    <2>2. CountsOK(q)
      BY <1>6, <1>8 DEF DiskInv, CountsOK
    <2>3. BlocksOK(q)
      BY <1>1, <1>6, <1>8 DEF DiskInv, BlocksOK, Truncating
    <2>4. DiskOK(q)
      BY <1>1, <1>2, <1>3, <1>8 DEF DiskInv, DiskOK, Truncating, PutsTarget
    <2> QED
      BY <1>8, <2>1, <2>2, <2>3, <2>4 DEF DiskInv
  <1>9. ASSUME LeakInv(p) PROVE LeakInv(q)
    BY <1>1, <1>6, <1>9 DEF LeakInv, RootOwed
  <1>10. Solo(q)
    BY DEF Idle, Solo
  <1> QED
    BY <1>7, <1>8, <1>9, <1>10 DEF Good

\* A call that begins finds all others at rest.
LEMMA EnterGood ==
  ASSUME FsInv, Excl, NEW p \in Procs, Enter(p)
  PROVE  Good(p) /\ pc[p] = "idle" /\ loc[p] = NoLocals
  <1>1. PICK q \in Procs : Good(q)
    BY DEF FsInv
  <1>2. Idle
    BY DEF Enter, At, Idle
  <1>3. Good(p)
    BY <1>1, <1>2, Switch
  <1> QED
    BY <1>2, <1>3 DEF Idle, Good, Resting

\* A process that is in a call is the only one.
LEMMA InCallGood ==
  ASSUME FsInv, NEW p \in Procs, pc[p] # "idle"
  PROVE  Good(p)
  <1>1. PICK q \in Procs : Good(q)
    BY DEF FsInv
  <1>2. q = p
    BY <1>1 DEF Good, Solo
  <1> QED
    BY <1>1, <1>2

\* The step of p leaves the others where they are.
Moves(p, x, l) == pc' = [pc EXCEPT ![p] = x] /\ loc' = [loc EXCEPT ![p] = l]

LEMMA MovesIs ==
  ASSUME NEW p \in Procs, Good(p), NEW x, NEW l, Moves(p, x, l), x = "idle" => l = NoLocals
  PROVE  Solo(p)' /\ Resting' /\ pc'[p] = x /\ loc'[p] = l
  <1>1. pc \in [Procs -> PCs] /\ DOMAIN loc = Procs
    BY DEF Good, TypeOK
  <1>2. \A q \in Procs : /\ pc'[q] = IF q = p THEN x ELSE pc[q]
                         /\ loc'[q] = IF q = p THEN l ELSE loc[q]
    BY <1>1 DEF Moves
  <1> QED
    BY <1>2 DEF Good, Solo, Resting

-----------------------------------------------------------------------------
(* The operations on the inode cache. *)

SlotRec == [inum : 0 .. NINODES, ref : Nat, valid : BOOLEAN, type : Types, nlink : Int, blk : 0 .. NBLOCKS]
LocRec == [s : 0 .. NSLOTS, old : 0 .. NSLOTS, name : Names \cup {NoName},
           off : 0 .. NENTRIES, toff : 0 .. NENTRIES, blk : 0 .. NBLOCKS,
           ret : {"idle", "open_done", "ren_link", "ren_put"}]

LEMMA TypesAre ==
  ASSUME TypeOK
  PROVE  /\ dinode \in [Inums -> DinodeType] /\ icache \in [Slots -> SlotRec]
         /\ loc \in [Procs -> LocRec] /\ pc \in [Procs -> PCs]
         /\ dir \in [Entries -> [name : Names \cup {NoName}, ino : 0 .. NINODES]]
         /\ handle \in [Procs -> 0 .. NSLOTS] /\ opened \in [Procs -> 0 .. NINODES]
  BY DEF TypeOK, SlotRec, LocRec

LEMMA LostIs ==
  ASSUME TypeOK
  PROVE  lost \in [Slots -> 0 .. MaxLost] /\ \A k \in Slots : lost[k] \in Nat
  BY FsAssumption DEF TypeOK

\* Numbers other than 0.
LEMMA RangesAre ==
  /\ 0 .. NINODES = Inums \cup {0} /\ 0 .. NBLOCKS = Blocks \cup {0}
  /\ 0 .. NSLOTS = Slots \cup {0} /\ 0 .. NENTRIES = Entries \cup {0}
  /\ 0 \notin Inums /\ 0 \notin Blocks /\ 0 \notin Slots /\ 0 \notin Entries
  /\ Inums \subseteq Nat /\ Blocks \subseteq Nat /\ Slots \subseteq Nat /\ Entries \subseteq Nat
  BY FsAssumption DEF Inums, Blocks, Slots, Entries

\* ilock leaves a valid slot of the same inode.
LEMMA LockedIs ==
  ASSUME icache \in [Slots -> SlotRec], dinode \in [Inums -> DinodeType],
         NEW k \in Slots, icache[k].inum \in Inums
  PROVE  /\ Locked(k) \in SlotRec
         /\ Locked(k).inum = icache[k].inum /\ Locked(k).ref = icache[k].ref /\ Locked(k).valid
         /\ icache[k].valid => Locked(k) = icache[k]
         /\ ~icache[k].valid => /\ Locked(k).type = dinode[icache[k].inum].type
                                /\ Locked(k).nlink = dinode[icache[k].inum].nlink
                                /\ Locked(k).blk = dinode[icache[k].inum].blk
  <1>1. icache[k] \in SlotRec /\ dinode[icache[k].inum] \in DinodeType
    OBVIOUS
  <1>2. CASE icache[k].valid
    BY <1>1, <1>2 DEF Locked
  <1>3. CASE ~icache[k].valid
    BY <1>1, <1>3 DEF Locked, SlotRec, DinodeType
  <1> QED
    BY <1>2, <1>3

\* It agrees with the disk, unless the call is about to write it.
LEMMA LockedAgrees ==
  ASSUME NEW p \in Procs, Good(p), ~torn, NEW k \in Slots, InUse(p, k),
         pc[p] # "mkdir_dots", ~Truncating(p)
  PROVE  /\ Locked(k).type = dinode[icache[k].inum].type /\ Locked(k).type # "free"
         /\ Locked(k).nlink = dinode[icache[k].inum].nlink
         /\ Locked(k).blk = dinode[icache[k].inum].blk
  <1>1. icache[k].inum \in Inums /\ CoherentOK(p)
    BY DEF Good, CacheInv, SlotsOK, DiskInv
  <1> QED
    BY <1>1, LockedIs, TypesAre DEF Good, CoherentOK

\* iget returns a slot with one more reference.
LEMMA GotIs ==
  ASSUME icache \in [Slots -> SlotRec], NEW i \in Inums, CanGet(i)
  PROVE  \E k \in Slots :
           /\ k = SlotFor(i)
           /\ Got(i) \in [Slots -> SlotRec]
           /\ Got(i)[k].inum = i /\ Got(i)[k].ref = icache[k].ref + 1
           /\ \A m \in Slots : m # k => Got(i)[m] = icache[m]
           /\ icache[k].ref > 0 => /\ icache[k].inum = i /\ Got(i)[k].valid = icache[k].valid
                                   /\ Got(i)[k].type = icache[k].type
                                   /\ Got(i)[k].nlink = icache[k].nlink
                                   /\ Got(i)[k].blk = icache[k].blk
           /\ icache[k].ref = 0 => /\ ~Got(i)[k].valid
                                   /\ \A m \in Slots : icache[m].ref > 0 => icache[m].inum # i
  <1>1. CASE Holding(i) # {}
    <2>1. Least(Holding(i)) \in Holding(i)
      BY <1>1, LeastIs, RangesAre DEF Holding
    <2>2. PICK k \in Slots : k = Least(Holding(i)) /\ icache[k].ref > 0 /\ icache[k].inum = i
      BY <2>1 DEF Holding
    <2>3. k = SlotFor(i)
      BY <1>1, <2>2 DEF SlotFor
    <2>4. icache[k] \in SlotRec /\ icache[k].ref + 1 \in Nat
      BY DEF SlotRec
    <2>5. PICK c \in SlotRec : c = [icache[k] EXCEPT !.ref = icache[k].ref + 1]
      <3>1. [icache[k] EXCEPT !.ref = icache[k].ref + 1] \in SlotRec
        BY <2>4 DEF SlotRec
      <3> QED
        BY <3>1
    <2>6. /\ c.inum = icache[k].inum /\ c.ref = icache[k].ref + 1 /\ c.valid = icache[k].valid
          /\ c.type = icache[k].type /\ c.nlink = icache[k].nlink /\ c.blk = icache[k].blk
      BY <2>4, <2>5 DEF SlotRec
    <2>7. Got(i) = [icache EXCEPT ![k] = c]
      <3>1. Got(i) = [icache EXCEPT ![k] = [icache[k] EXCEPT !.ref = icache[k].ref + 1]]
        BY <1>1, <2>3 DEF Got
      <3> QED
        BY <2>5, <3>1
    <2>8. icache[k].ref # 0
      BY <2>2
    <2>9. /\ Got(i) \in [Slots -> SlotRec] /\ Got(i)[k] = c
          /\ \A m \in Slots : m # k => Got(i)[m] = icache[m]
      BY <2>7
    <2> QED
      BY <2>2, <2>3, <2>6, <2>8, <2>9
  <1>2. CASE Holding(i) = {}
    <2>1. Least(Vacant) \in Vacant
      BY <1>2, LeastIs, RangesAre DEF Vacant, CanGet
    <2>2. PICK k \in Slots : k = Least(Vacant) /\ icache[k].ref = 0
      BY <2>1 DEF Vacant
    <2>3. Got(i) = [icache EXCEPT ![k] = [icache[k] EXCEPT !.inum = i, !.ref = 1, !.valid = FALSE]] /\ k = SlotFor(i)
      BY <1>2, <2>2 DEF Got, SlotFor
    <2>4. icache[k] \in SlotRec /\ i \in 0 .. NINODES
      BY RangesAre
    <2>5. PICK c \in SlotRec : c = [icache[k] EXCEPT !.inum = i, !.ref = 1, !.valid = FALSE]
      BY <2>4 DEF SlotRec
    <2>6. c.inum = i /\ c.ref = 1 /\ ~c.valid
      BY <2>4, <2>5 DEF SlotRec
    <2>7. /\ Got(i) \in [Slots -> SlotRec] /\ Got(i)[k] = c
          /\ \A m \in Slots : m # k => Got(i)[m] = icache[m]
      BY <2>3, <2>5
    <2>8. \A m \in Slots : icache[m].ref > 0 => icache[m].inum # i
      BY <1>2 DEF Holding
    <2>9. ~(icache[k].ref > 0) /\ 0 + 1 = 1
      BY <2>2
    <2> QED
      BY <2>2, <2>3, <2>6, <2>7, <2>8, <2>9
  <1> QED
    BY <1>1, <1>2

-----------------------------------------------------------------------------
(* What a step leaves as it was. *)

KeepSlots == \A k \in Slots : icache'[k].ref = icache[k].ref /\ icache'[k].inum = icache[k].inum

\* No slot changes hands.
LEMMA SlotsKeep ==
  ASSUME NEW p \in Procs, Good(p), KeepSlots, UNCHANGED <<handle, opened>>,
         Freeing(p)' <=> Freeing(p), Freeing(p) => loc'[p].s = loc[p].s
  PROVE  /\ SlotsOK(p)'
         /\ \A k \in Slots : InUse(p, k)' <=> InUse(p, k)
         /\ dir' = dir => \A i \in Inums : Live(p, i)' <=> Live(p, i)
  <1>1. \A k \in Slots : InUse(p, k)' <=> InUse(p, k)
    BY DEF KeepSlots, InUse
  <1>2. handle \in [Procs -> 0 .. NSLOTS] /\ SlotsOK(p)
    BY TypesAre DEF Good, CacheInv
  <1>3. \A q \in Procs : handle'[q] # 0 => opened'[q] = icache'[handle'[q]].inum
    BY <1>2, RangesAre DEF SlotsOK, KeepSlots
  <1>4. Freeing(p)' => icache'[loc'[p].s].ref = 0
    <2>1. Freeing(p) => loc[p].s \in Slots
      BY DEF Good, CacheInv, LocalOK, Freeing
    <2> QED
      BY <1>2, <2>1 DEF SlotsOK, KeepSlots
  <1>5. SlotsOK(p)'
    BY <1>1, <1>2, <1>3, <1>4 DEF SlotsOK, KeepSlots
  <1>6. dir' = dir => \A i \in Inums : Live(p, i)' <=> Live(p, i)
    BY <1>1 DEF Live, Named, KeepSlots
  <1> QED
    BY <1>1, <1>5, <1>6

\* The references are those of the call, of the open files, and the forgotten ones.
LEMMA RefsKeep ==
  ASSUME NEW p \in Procs, Good(p), handle' = handle, lost' = lost,
         \A k \in Slots : /\ icache'[k].ref \in Nat
                          /\ icache'[k].ref + RefS(p, k) + RefOld(p, k) = icache[k].ref + RefS(p, k)' + RefOld(p, k)'
  PROVE  RefsOK(p)'
  <1>1. ASSUME NEW k \in Slots
        PROVE  icache'[k].ref = Cardinality(Handles(k)') + RefS(p, k)' + RefOld(p, k)' + lost'[k]
    <2>1. Handles(k)' = Handles(k) /\ Cardinality(Handles(k)) \in Nat
      BY HandleCount DEF Handles
    <2>4. lost[k] \in Nat
      BY LostIs DEF Good
    <2>2. /\ RefS(p, k) \in {0, 1} /\ RefOld(p, k) \in {0, 1}
          /\ RefS(p, k)' \in {0, 1} /\ RefOld(p, k)' \in {0, 1}
      BY DEF RefS, RefOld
    <2>3. icache[k].ref = Cardinality(Handles(k)) + RefS(p, k) + RefOld(p, k) + lost[k]
      BY DEF Good, CacheInv, RefsOK
    <2> QED
      BY <2>1, <2>2, <2>3, <2>4
  <1> QED
    BY <1>1 DEF RefsOK

\* The disk is as it was, and so are the links that the call owes.
LEMMA DiskKeep ==
  ASSUME NEW p \in Procs, Good(p), ~torn, UNCHANGED disk,
         \A i \in Inums : Live(p, i)' => Live(p, i),
         \A i \in Inums : Owed(p, i)' = Owed(p, i),
         ~Truncating(p)
  PROVE  NamesOK' /\ CountsOK(p)' /\ BlocksOK(p)'
  <1>1. NamesOK /\ CountsOK(p) /\ BlocksOK(p)
    BY DEF Good, DiskInv
  <1>2. \A i : NamesOf(i)' = NamesOf(i)
    BY DEF NamesOf, disk
  <1>3. NamesOK'
    BY <1>1 DEF NamesOK, disk
  <1>4. CountsOK(p)'
    BY <1>1, <1>2 DEF CountsOK, disk
  <1>5. BlocksOK(p)'
    BY <1>1 DEF BlocksOK, disk
  <1> QED
    BY <1>3, <1>4, <1>5

LEMMA LeakKeep ==
  ASSUME NEW p \in Procs, Good(p), crashes = 0, UNCHANGED disk,
         \A i \in Inums : dinode[i].type = "file" /\ Live(p, i) => Live(p, i)',
         \A i \in Inums : Owed(p, i)' = Owed(p, i),
         pc[p] \notin {"write_update", "mkdir_dots"}, RootOwed(p)' = RootOwed(p)
  PROVE  LeakInv(p)'
  <1>1. LeakInv(p)
    BY DEF Good
  <1>2. (\A i : NamesOf(i)' = NamesOf(i)) /\ DirNames' = DirNames
    BY DEF NamesOf, DirNames, disk
  <1>3. rootLink' = 2 + Cardinality(DirNames') + RootOwed(p)'
    BY <1>1, <1>2 DEF LeakInv, disk
  <1>4. \A i \in Inums : dinode'[i].type = "file" =>
          Live(p, i)' /\ dinode'[i].nlink = Cardinality(NamesOf(i)') + Owed(p, i)'
    BY <1>1, <1>2 DEF LeakInv, disk
  <1>5. \A b \in used' : \E i \in Inums : dinode'[i].type # "free" /\ dinode'[i].blk = b
    BY <1>1 DEF LeakInv, disk
  <1> QED
    BY <1>3, <1>4, <1>5 DEF LeakInv

\* ilock.
LEMMA LockKeeps ==
  ASSUME NEW p \in Procs, Good(p), NEW k \in Slots, InUse(p, k),
         icache' = [icache EXCEPT ![k] = Locked(k)]
  PROVE  /\ icache' \in [Slots -> SlotRec] /\ KeepSlots
         /\ icache'[k].valid /\ \A m \in Slots : icache[m].valid => icache'[m].valid
         /\ icache'[k].type = Locked(k).type
  <1>1. icache \in [Slots -> SlotRec] /\ dinode \in [Inums -> DinodeType] /\ icache[k].inum \in Inums
    BY TypesAre DEF Good, CacheInv, SlotsOK
  <1>2. /\ Locked(k) \in SlotRec /\ Locked(k).valid
        /\ Locked(k).inum = icache[k].inum /\ Locked(k).ref = icache[k].ref
    BY <1>1, LockedIs
  <1> QED
    BY <1>1, <1>2 DEF KeepSlots

LEMMA LockCoherent ==
  ASSUME NEW p \in Procs, Good(p), ~torn, NEW k \in Slots, InUse(p, k),
         icache' = [icache EXCEPT ![k] = Locked(k)], dinode' = dinode,
         pc[p] # "mkdir_dots", ~Truncating(p),
         \A m \in Slots : InUse(p, m)' => InUse(p, m)
  PROVE  CoherentOK(p)'
  <1>1. /\ Locked(k).type = dinode[icache[k].inum].type /\ Locked(k).nlink = dinode[icache[k].inum].nlink
        /\ Locked(k).blk = dinode[icache[k].inum].blk
    BY LockedAgrees
  <1>2. icache \in [Slots -> SlotRec] /\ Locked(k).inum = icache[k].inum
    BY LockedIs, TypesAre DEF Good, CacheInv, SlotsOK
  <1>3. CoherentOK(p)
    BY DEF Good, DiskInv
  <1> QED
    BY <1>1, <1>2, <1>3 DEF CoherentOK

\* A slot to which the call or an open file has a reference.
LEMMA SlotHeld ==
  ASSUME NEW p \in Procs, Good(p)
  PROVE  /\ HoldsS(p) => loc[p].s \in Slots /\ icache[loc[p].s].ref > 0
         /\ HoldsOld(p) => loc[p].old \in Slots /\ icache[loc[p].old].ref > 0
         /\ HoldsS(p) /\ HoldsOld(p) /\ loc[p].s = loc[p].old => icache[loc[p].s].ref > 1
         /\ \A q \in Procs : handle[q] # 0 => handle[q] \in Slots /\ icache[handle[q]].ref > 0
         /\ \A k \in Slots : icache[k].ref > 0 => InUse(p, k) /\ icache[k].inum \in Inums
         /\ \A k \in Slots : icache[k].ref \in Nat
  <1>1. \A k \in Slots : icache[k].ref \in Nat
    BY TypesAre DEF Good, SlotRec
  <1>2. \A k \in Slots : icache[k].ref > 0 => InUse(p, k) /\ icache[k].inum \in Inums
    BY DEF Good, CacheInv, SlotsOK, InUse
  <1>3. /\ HoldsS(p) => loc[p].s \in Slots
        /\ HoldsOld(p) => loc[p].old \in Slots
    BY DEF Good, CacheInv, LocalOK, HoldsS, HoldsOld
  <1>4. \A k \in Slots : icache[k].ref = Cardinality(Handles(k)) + RefS(p, k) + RefOld(p, k) + lost[k]
    BY DEF Good, CacheInv, RefsOK
  <1>5. \A k \in Slots : Cardinality(Handles(k)) \in Nat /\ lost[k] \in Nat
    BY HandleCount, LostIs DEF Good
  <1>6. \A k \in Slots : RefS(p, k) \in {0, 1} /\ RefOld(p, k) \in {0, 1}
    BY DEF RefS, RefOld
  <1>7. HoldsS(p) => RefS(p, loc[p].s) = 1
    BY DEF RefS
  <1>8. HoldsOld(p) => RefOld(p, loc[p].old) = 1
    BY DEF RefOld
  <1>9. ASSUME NEW q \in Procs, handle[q] # 0
        PROVE  handle[q] \in Slots /\ icache[handle[q]].ref > 0
    <2>1. handle[q] \in Slots
      BY <1>9, TypesAre, RangesAre DEF Good
    <2>2. Cardinality(Handles(handle[q])) # 0
      BY HandleCount
    <2> QED
      BY <1>1, <1>4, <1>5, <1>6, <2>1, <2>2
  <1>10. HoldsS(p) => icache[loc[p].s].ref > 0
    BY <1>1, <1>3, <1>4, <1>5, <1>6, <1>7
  <1>11. HoldsOld(p) => icache[loc[p].old].ref > 0
    BY <1>1, <1>3, <1>4, <1>5, <1>6, <1>8
  <1>12. HoldsS(p) /\ HoldsOld(p) /\ loc[p].s = loc[p].old => icache[loc[p].s].ref > 1
    BY <1>1, <1>3, <1>4, <1>5, <1>6, <1>7, <1>8
  <1> QED
    BY <1>1, <1>2, <1>3, <1>9, <1>10, <1>11, <1>12

\* A step that leaves the disk and the references as they are, and may lock a slot.
LEMMA LockStep ==
  ASSUME NEW p \in Procs, Good(p), NEW x \in PCs, NEW l \in LocRec, Moves(p, x, l),
         x = "idle" => l = NoLocals,
         NEW s \in Slots, icache[s].ref > 0,
         icache' = icache \/ icache' = [icache EXCEPT ![s] = Locked(s)],
         Same, UNCHANGED disk,
         ~Freeing(p), ~Freeing(p)', ~Truncating(p), pc[p] \notin {"write_update", "mkdir_dots"},
         \A m \in Slots : RefS(p, m)' + RefOld(p, m)' = RefS(p, m) + RefOld(p, m),
         ~torn => (\A i \in Inums : Owed(p, i)' = Owed(p, i)) /\ RootOwed(p)' = RootOwed(p),
         LocalOK(p)', ~torn => DiskOK(p)'
  PROVE  FsInv'
  <1>1. Solo(p)' /\ Resting' /\ pc'[p] = x /\ loc'[p] = l
    BY MovesIs
  <1>2. icache \in [Slots -> SlotRec] /\ InUse(p, s)
    BY TypesAre DEF Good, InUse
  <1>3. icache' \in [Slots -> SlotRec] /\ KeepSlots
    BY <1>2, LockKeeps DEF KeepSlots
  <1>4. TypeOK'
    BY <1>3 DEF Good, TypeOK, Moves, Same, disk, SlotRec, LocRec
  <1>5. SlotsOK(p)' /\ (\A k \in Slots : InUse(p, k)' <=> InUse(p, k))
        /\ \A i \in Inums : Live(p, i)' <=> Live(p, i)
    BY <1>3, SlotsKeep DEF Same, disk
  <1>6. RefsOK(p)'
    <2>1. \A k \in Slots : /\ icache'[k].ref = icache[k].ref /\ icache[k].ref \in Nat
                           /\ RefS(p, k) \in {0, 1} /\ RefOld(p, k) \in {0, 1}
                           /\ RefS(p, k)' \in {0, 1} /\ RefOld(p, k)' \in {0, 1}
      BY <1>2, <1>3 DEF KeepSlots, SlotRec, RefS, RefOld
    <2>2. \A k \in Slots :
            /\ icache'[k].ref \in Nat
            /\ icache'[k].ref + RefS(p, k) + RefOld(p, k) = icache[k].ref + RefS(p, k)' + RefOld(p, k)'
      BY <2>1
    <2> QED
      BY <2>2, RefsKeep DEF Same
  <1>7. DirOK'
    BY DEF Good, CacheInv, DirOK, disk
  <1>8. ASSUME ~torn PROVE DiskInv(p)'
    <2>1. NamesOK' /\ CountsOK(p)' /\ BlocksOK(p)'
      BY <1>5, <1>8, DiskKeep
    <2>2. CASE icache' = icache
      BY <1>5, <1>8, <2>1, <2>2 DEF Good, DiskInv, CoherentOK, disk
    <2>3. CASE icache' = [icache EXCEPT ![s] = Locked(s)]
      <3>1. CoherentOK(p)'
        BY <1>2, <1>5, <1>8, <2>3, LockCoherent DEF disk
      <3> QED
        BY <1>8, <2>1, <3>1 DEF DiskInv
    <2> QED
      BY <2>2, <2>3
  <1>9. ASSUME crashes = 0 PROVE LeakInv(p)'
    <2>1. ~torn
      BY <1>9 DEF Good
    <2> QED
      BY <1>5, <1>9, <2>1, LeakKeep
  <1>10. Good(p)'
    BY <1>1, <1>4, <1>5, <1>6, <1>7, <1>8, <1>9 DEF Good, CacheInv, Same
  <1> QED
    BY <1>10 DEF FsInv

-----------------------------------------------------------------------------
(* sys_open *)

LEMMA OpenLockTrunc ==
  ASSUME FsInv, NEW p \in Procs, At(p, "open_lock"),
         icache' = [icache EXCEPT ![loc[p].s] = Locked(loc[p].s)],
         Goto(p, "trunc"), loc' = [loc EXCEPT ![p].ret = "open_done"],
         Same, UNCHANGED disk
  PROVE  FsInv'
  <1> DEFINE s == loc[p].s
             l == [loc[p] EXCEPT !.ret = "open_done"]
  <1>1. pc[p] = "open_lock" /\ Good(p)
    BY InCallGood DEF At
  <1>2. loc[p] \in LocRec
    BY <1>1, TypesAre DEF Good
  <1>3. s \in Slots /\ icache[s].ref > 0 /\ InUse(p, s)
    BY <1>1, SlotHeld DEF HoldsS
  <1>4. l \in LocRec /\ l.s = s /\ l.ret = "open_done" /\ l.old = loc[p].old /\ l.off = loc[p].off
    BY <1>2 DEF LocRec
  <1>5. Moves(p, "trunc", l)
    BY <1>1, TypesAre DEF Moves, Goto, Good
  <1> HIDE DEF l
  <1>6. Solo(p)' /\ Resting' /\ pc'[p] = "trunc" /\ loc'[p] = l
    BY <1>1, <1>5, MovesIs
  <1>7. icache'[s].valid /\ \A m \in Slots : icache[m].valid => icache'[m].valid
    BY <1>1, <1>3, LockKeeps
  <1>8. LocalOK(p)'
    BY <1>1, <1>3, <1>4, <1>6 DEF Good, CacheInv, LocalOK, HoldsOld, Same
  <1>9. ASSUME ~torn PROVE DiskOK(p)'
    BY <1>1, <1>3, <1>4, <1>6, <1>7, <1>9, SlotHeld
       DEF Good, DiskInv, DiskOK, Freeing, Truncating, HoldsOld, PutsTarget, Same
  <1>10. /\ \A m \in Slots : RefS(p, m)' = RefS(p, m) /\ RefOld(p, m)' = RefOld(p, m)
         /\ \A i \in Inums : Owed(p, i)' = Owed(p, i)
         /\ ~Freeing(p) /\ ~Freeing(p)' /\ ~Truncating(p) /\ RootOwed(p)' = RootOwed(p)
    BY <1>1, <1>4, <1>6 DEF RefS, RefOld, HoldsS, HoldsOld, Owed, Freeing, Truncating, RootOwed
  <1> QED
    BY <1>1, <1>3, <1>4, <1>5, <1>8, <1>9, <1>10, LockStep DEF PCs

LEMMA OpenFailStep ==
  ASSUME FsInv, NEW p \in Procs, NEW b \in BOOLEAN, OpenFail(p, b)
  PROVE  FsInv'
  <1> DEFINE s == loc[p].s
             l == [NoLocals EXCEPT !.s = s]
  <1>1. pc[p] \in {"open_lock", "open_done"} /\ Good(p) /\ Same /\ UNCHANGED disk
    BY InCallGood DEF OpenFail
  <1>2. loc[p] \in LocRec
    BY <1>1, TypesAre DEF Good
  <1>3. s \in Slots /\ icache[s].ref > 0 /\ InUse(p, s)
    BY <1>1, SlotHeld DEF HoldsS
  <1>4. l \in LocRec /\ l.s = s /\ l.ret = "idle"
    BY <1>2, RangesAre DEF LocRec, NoLocals
  <1>5. Moves(p, "iput", l)
    BY DEF Moves, Goto, OpenFail
  <1>6. icache' = icache \/ icache' = [icache EXCEPT ![s] = Locked(s)]
    BY DEF OpenFail
  <1> HIDE DEF l
  <1>7. Solo(p)' /\ Resting' /\ pc'[p] = "iput" /\ loc'[p] = l
    BY <1>1, <1>5, MovesIs
  <1>8. KeepSlots /\ \A m \in Slots : icache[m].valid => icache'[m].valid
    BY <1>1, <1>3, <1>6, LockKeeps DEF KeepSlots
  <1>9. LocalOK(p)'
    BY <1>3, <1>4, <1>7 DEF LocalOK, HoldsOld
  <1>10. ASSUME ~torn PROVE DiskOK(p)'
    <2>1. icache[s].valid \/ Named(MyIno(p))
      BY <1>1, <1>10 DEF Good, DiskInv, DiskOK
    <2>2. Named(MyIno(p)) => Named(MyIno(p))'
      BY <1>1, <1>3, <1>4, <1>7, <1>8 DEF MyIno, Named, disk, KeepSlots
    <2>3. \A q \in Procs : handle'[q] # 0 => icache'[handle'[q]].valid
      BY <1>1, <1>8, <1>10, SlotHeld DEF Good, DiskInv, DiskOK, Same
    <2> QED
      BY <1>3, <1>4, <1>7, <1>8, <2>1, <2>2, <2>3 DEF DiskOK, Freeing, Truncating, HoldsOld, PutsTarget
  <1>11. /\ \A m \in Slots : RefS(p, m)' = RefS(p, m) /\ RefOld(p, m)' = RefOld(p, m)
         /\ \A i \in Inums : Owed(p, i)' = Owed(p, i)
         /\ ~Freeing(p) /\ ~Freeing(p)' /\ ~Truncating(p) /\ RootOwed(p)' = RootOwed(p)
    BY <1>1, <1>4, <1>7 DEF RefS, RefOld, HoldsS, HoldsOld, Owed, Freeing, Truncating, RootOwed
  <1> QED
    BY <1>1, <1>3, <1>4, <1>5, <1>6, <1>9, <1>10, <1>11, LockStep DEF PCs

LEMMA FtruncateStep ==
  ASSUME FsInv, Excl, NEW p \in Procs, Ftruncate(p)
  PROVE  FsInv'
  <1> DEFINE s == handle[p]
             l == [NoLocals EXCEPT !.s = s]
  <1>1. pc[p] = "idle" /\ loc[p] = NoLocals /\ Good(p) /\ Same /\ UNCHANGED disk /\ s # 0
    BY EnterGood DEF Ftruncate
  <1>3. s \in Slots /\ icache[s].ref > 0 /\ InUse(p, s)
    BY <1>1, SlotHeld
  <1>4. l \in LocRec /\ l.s = s /\ l.ret = "idle"
    BY <1>3, RangesAre DEF LocRec, NoLocals
  <1>5. Moves(p, "trunc", l)
    BY <1>1, TypesAre DEF Moves, Goto, Ftruncate, Good
  <1>6. icache' = [icache EXCEPT ![s] = Locked(s)]
    BY DEF Ftruncate
  <1> HIDE DEF l
  <1>7. Solo(p)' /\ Resting' /\ pc'[p] = "trunc" /\ loc'[p] = l
    BY <1>1, <1>5, MovesIs
  <1>8. KeepSlots /\ icache'[s].valid /\ \A m \in Slots : icache[m].valid => icache'[m].valid
    BY <1>1, <1>3, <1>6, LockKeeps
  <1>9. LocalOK(p)'
    BY <1>1, <1>3, <1>4, <1>7 DEF LocalOK, HoldsOld, Same
  <1>10. ASSUME ~torn PROVE DiskOK(p)'
    <2>3. \A q \in Procs : handle'[q] # 0 => icache'[handle'[q]].valid
      BY <1>1, <1>8, <1>10, SlotHeld DEF Good, DiskInv, DiskOK, Same
    <2> QED
      BY <1>3, <1>4, <1>7, <1>8, <2>3 DEF DiskOK, Freeing, Truncating, HoldsOld, PutsTarget
  <1>11. /\ \A m \in Slots : RefS(p, m)' = RefS(p, m) /\ RefOld(p, m)' = RefOld(p, m)
         /\ \A i \in Inums : Owed(p, i)' = Owed(p, i)
         /\ ~Freeing(p) /\ ~Freeing(p)' /\ ~Truncating(p) /\ RootOwed(p)' = RootOwed(p)
    BY <1>1, <1>4, <1>7 DEF RefS, RefOld, HoldsS, HoldsOld, Owed, Freeing, Truncating, RootOwed
  <1> QED
    BY <1>1, <1>3, <1>4, <1>5, <1>6, <1>9, <1>10, <1>11, LockStep DEF PCs

LEMMA RenameNoTargetStep ==
  ASSUME FsInv, NEW p \in Procs, RenameNoTarget(p)
  PROVE  FsInv'
  <1> DEFINE s == loc[p].s
             l == loc[p]
             x == IF Locked(s).type = "dir" THEN "iput" ELSE "ren_link"
  <1>1. pc[p] = "ren_target" /\ Good(p) /\ Same /\ UNCHANGED disk
    BY InCallGood DEF RenameNoTarget, At
  <1>2. loc[p] \in LocRec
    BY <1>1, TypesAre DEF Good
  <1>3. s \in Slots /\ icache[s].ref > 0 /\ InUse(p, s)
    BY <1>1, SlotHeld DEF HoldsS
  <1>4. l.ret = "idle" /\ l.old = l.s /\ l.off \in Entries /\ l.name \in Names
    BY <1>1, <1>2 DEF Good, CacheInv, LocalOK, LocRec
  <1>5. Moves(p, x, l) /\ x \in PCs
    BY <1>1, TypesAre DEF Moves, Goto, Good, RenameNoTarget, PCs
  <1>6. icache' = [icache EXCEPT ![s] = Locked(s)]
    BY DEF RenameNoTarget
  <1>12. x \in {"iput", "ren_link"} /\ (x # "iput" => Locked(s).type # "dir" /\ Found(loc[p].name) = {})
    BY DEF RenameNoTarget
  <1> HIDE DEF x
  <1>7. Solo(p)' /\ Resting' /\ pc'[p] = x /\ loc'[p] = l
    BY <1>1, <1>5, <1>12, MovesIs
  <1>8. KeepSlots /\ icache'[s].valid /\ \A m \in Slots : icache[m].valid => icache'[m].valid
    BY <1>1, <1>3, <1>6, LockKeeps
  <1>9. LocalOK(p)'
    BY <1>1, <1>3, <1>4, <1>7, <1>12 DEF LocalOK, HoldsOld, Same
  <1>10. ASSUME ~torn PROVE DiskOK(p)'
    <2>1. \A q \in Procs : handle'[q] # 0 => icache'[handle'[q]].valid
      BY <1>1, <1>8, <1>10, SlotHeld DEF Good, DiskInv, DiskOK, Same
    <2>2. dir[l.off].ino = OldIno(p) /\ dir[l.off].name # l.name
      BY <1>1, <1>10 DEF Good, DiskInv, DiskOK
    <2>3. Locked(s).type = dinode[icache[s].inum].type /\ Locked(s).type # "free" /\ icache[s].inum \in Inums
      BY <1>1, <1>3, <1>10, LockedAgrees, SlotHeld DEF Truncating
    <2>4. dinode[icache[s].inum].type \in Types
      BY <1>1, <2>3, TypesAre DEF Good, DinodeType
    <2>5. x = "ren_link" => dinode[icache[s].inum].type = "file"
      BY <1>12, <2>3, <2>4 DEF Types
    <2>6. OldIno(p)' = OldIno(p) /\ OldIno(p) = icache[s].inum
      BY <1>3, <1>4, <1>7, <1>8 DEF OldIno, KeepSlots
    <2> QED
      BY <1>1, <1>3, <1>4, <1>7, <1>8, <1>12, <2>1, <2>2, <2>5, <2>6
         DEF DiskOK, Freeing, Truncating, HoldsOld, PutsTarget, Found, disk
  <1>11. /\ \A m \in Slots : RefS(p, m)' + RefOld(p, m)' = RefS(p, m) + RefOld(p, m)
         /\ \A i \in Inums : Owed(p, i)' = Owed(p, i)
         /\ ~Freeing(p) /\ ~Freeing(p)' /\ ~Truncating(p) /\ RootOwed(p)' = RootOwed(p)
    BY <1>1, <1>4, <1>7, <1>12 DEF RefS, RefOld, HoldsS, HoldsOld, Owed, Freeing, Truncating, RootOwed
  <1> QED
    BY <1>1, <1>2, <1>3, <1>5, <1>6, <1>9, <1>10, <1>11, <1>12, LockStep

LEMMA RenamePutStep ==
  ASSUME FsInv, NEW p \in Procs, RenamePut(p)
  PROVE  FsInv'
  <1> DEFINE s == loc[p].old
             l == [NoLocals EXCEPT !.s = s]
  <1>1. pc[p] = "ren_put" /\ Good(p) /\ Same /\ UNCHANGED disk /\ icache' = icache
    BY InCallGood DEF RenamePut, At
  <1>2. loc[p] \in LocRec
    BY <1>1, TypesAre DEF Good
  <1>3. s \in Slots /\ icache[s].ref > 0 /\ InUse(p, s)
    BY <1>1, SlotHeld DEF HoldsOld
  <1>4. l \in LocRec /\ l.s = s /\ l.ret = "idle"
    BY <1>2, RangesAre DEF LocRec, NoLocals
  <1>5. Moves(p, "iput", l)
    BY DEF Moves, Goto, RenamePut
  <1> HIDE DEF l
  <1>7. Solo(p)' /\ Resting' /\ pc'[p] = "iput" /\ loc'[p] = l
    BY <1>1, <1>5, MovesIs
  <1>9. LocalOK(p)'
    BY <1>3, <1>4, <1>7 DEF LocalOK, HoldsOld
  <1>10. ASSUME ~torn PROVE DiskOK(p)'
    <2>1. icache[s].valid /\ \A q \in Procs : handle[q] # 0 => icache[handle[q]].valid
      BY <1>1, <1>10 DEF Good, DiskInv, DiskOK, HoldsOld
    <2> QED
      BY <1>1, <1>4, <1>7, <2>1 DEF DiskOK, Freeing, Truncating, HoldsOld, PutsTarget, Same
  <1>11. /\ \A m \in Slots : RefS(p, m)' + RefOld(p, m)' = RefS(p, m) + RefOld(p, m)
         /\ \A i \in Inums : Owed(p, i)' = Owed(p, i)
         /\ ~Freeing(p) /\ ~Freeing(p)' /\ ~Truncating(p) /\ RootOwed(p)' = RootOwed(p)
    BY <1>1, <1>4, <1>7 DEF RefS, RefOld, HoldsS, HoldsOld, Owed, Freeing, Truncating, RootOwed
  <1> QED
    BY <1>1, <1>3, <1>4, <1>5, <1>9, <1>10, <1>11, LockStep DEF PCs

LEMMA HandleAdd ==
  ASSUME handle \in [Procs -> 0 .. NSLOTS], NEW p \in Procs, handle[p] = 0, NEW s \in Slots,
         handle' = [handle EXCEPT ![p] = s], NEW k \in Slots
  PROVE  Cardinality(Handles(k)') = Cardinality(Handles(k)) + (IF s = k THEN 1 ELSE 0)
  <1>1. \A q \in Procs : handle'[q] = IF q = p THEN s ELSE handle[q]
    OBVIOUS
  <1>2. k # 0
    BY RangesAre
  <1>3. CASE s = k
    <2>1. Handles(k)' = Handles(k) \cup {p} /\ p \notin Handles(k)
      BY <1>1, <1>2, <1>3 DEF Handles
    <2> QED
      BY <1>3, <2>1, HandleCount, FS_AddElement, SMTT(30)
  <1>4. CASE s # k
    <2>1. Handles(k)' = Handles(k)
      BY <1>1, <1>2, <1>4 DEF Handles
    <2>2. Cardinality(Handles(k)) \in Nat
      BY HandleCount
    <2> QED
      BY <1>4, <2>1, <2>2
  <1> QED
    BY <1>3, <1>4

LEMMA HandleDrop ==
  ASSUME handle \in [Procs -> 0 .. NSLOTS], NEW p \in Procs,
         handle' = [handle EXCEPT ![p] = 0], NEW k \in Slots
  PROVE  Cardinality(Handles(k)') = Cardinality(Handles(k)) - (IF handle[p] = k THEN 1 ELSE 0)
  <1>1. \A q \in Procs : handle'[q] = IF q = p THEN 0 ELSE handle[q]
    OBVIOUS
  <1>2. k # 0
    BY RangesAre
  <1>3. CASE handle[p] = k
    <2>1. Handles(k)' = Handles(k) \ {p} /\ p \in Handles(k)
      BY <1>1, <1>2, <1>3 DEF Handles
    <2>2. Cardinality(Handles(k) \ {p}) = Cardinality(Handles(k)) - 1
      BY <2>1, HandleCount, FS_RemoveElement
    <2> QED
      BY <1>3, <2>1, <2>2
  <1>4. CASE handle[p] # k
    <2>1. Handles(k)' = Handles(k)
      BY <1>1, <1>2, <1>4 DEF Handles
    <2>2. Cardinality(Handles(k)) \in Nat
      BY HandleCount
    <2> QED
      BY <1>4, <2>1, <2>2
  <1> QED
    BY <1>3, <1>4

\* The reference of the call becomes that of an open file, or is forgotten.
LEMMA OpenEnds ==
  ASSUME NEW p \in Procs, Good(p), pc[p] \in {"open_lock", "open_done"},
         Done(p), UNCHANGED <<disk, crashes, torn>>,
         handle' \in [Procs -> 0 .. NSLOTS], opened' \in [Procs -> 0 .. NINODES],
         lost' \in [Slots -> 0 .. MaxLost],
         \A q \in Procs : \/ handle'[q] = handle[q] /\ opened'[q] = opened[q]
                          \/ handle'[q] = loc[p].s /\ opened'[q] = icache[loc[p].s].inum,
         \A k \in Slots : Cardinality(Handles(k)') + lost'[k] =
                            Cardinality(Handles(k)) + lost[k] + (IF loc[p].s = k THEN 1 ELSE 0),
         \/ icache' = [icache EXCEPT ![loc[p].s] = Locked(loc[p].s)]
         \/ pc[p] = "open_done" /\ icache' = icache
  PROVE  FsInv'
  <1> DEFINE s == loc[p].s
  <1>1. s \in Slots /\ icache[s].ref > 0 /\ InUse(p, s)
    BY SlotHeld DEF HoldsS
  <1>2. Moves(p, "idle", NoLocals) /\ NoLocals \in LocRec /\ NoLocals.ret = "idle"
    BY RangesAre DEF Moves, Done, Goto, NoLocals, LocRec
  <1>3. Solo(p)' /\ Resting' /\ pc'[p] = "idle" /\ loc'[p] = NoLocals
    BY <1>2, MovesIs
  <1>4. icache \in [Slots -> SlotRec]
    BY TypesAre DEF Good
  <1>5. icache' \in [Slots -> SlotRec] /\ KeepSlots /\ \A m \in Slots : icache[m].valid => icache'[m].valid
    BY <1>1, <1>4, LockKeeps DEF KeepSlots
  <1>8. TypeOK'
    BY <1>2, <1>5 DEF Good, TypeOK, Moves, disk, SlotRec, LocRec, PCs
  <1>9. RefsOK(p)'
    <2>1. ASSUME NEW k \in Slots
          PROVE  icache'[k].ref = Cardinality(Handles(k)') + RefS(p, k)' + RefOld(p, k)' + lost'[k]
      <3>1. Cardinality(Handles(k)') + lost'[k] = Cardinality(Handles(k)) + lost[k] + (IF s = k THEN 1 ELSE 0)
        OBVIOUS
      <3>2. /\ RefS(p, k) = IF s = k THEN 1 ELSE 0
            /\ RefOld(p, k) = 0 /\ RefS(p, k)' = 0 /\ RefOld(p, k)' = 0
        BY <1>3 DEF RefS, RefOld, HoldsS, HoldsOld
      <3>3. icache[k].ref = Cardinality(Handles(k)) + RefS(p, k) + RefOld(p, k) + lost[k]
        BY DEF Good, CacheInv, RefsOK
      <3>4. Cardinality(Handles(k)) \in Nat /\ Cardinality(Handles(k)') \in Nat /\ lost[k] \in Nat /\ lost'[k] \in Nat
        <4>1. Cardinality(Handles(k)) \in Nat /\ Cardinality(Handles(k)') \in Nat
          BY HandleCount, HandlesFinite
        <4> QED
          BY <4>1, LostIs, FsAssumption DEF Good
      <3> QED
        BY <1>5, <3>1, <3>2, <3>3, <3>4 DEF KeepSlots
    <2> QED
      BY <2>1 DEF RefsOK
  <1>10. ~Freeing(p) /\ ~Freeing(p)'
    BY <1>3 DEF Freeing
  <1>11. \A k \in Slots : InUse(p, k)' <=> InUse(p, k)
    BY <1>5, <1>10 DEF InUse, KeepSlots
  <1>12. SlotsOK(p)'
    <2>1. \A q \in Procs : handle'[q] # 0 => opened'[q] = icache'[handle'[q]].inum
      BY <1>1, <1>4, <1>5, SlotHeld DEF Good, CacheInv, SlotsOK, KeepSlots
    <2> QED
      BY <1>5, <1>10, <1>11, <2>1 DEF Good, CacheInv, SlotsOK, KeepSlots
  <1>13. LocalOK(p)'
    BY <1>2, <1>3 DEF LocalOK, HoldsOld
  <1>14. DirOK'
    BY DEF Good, CacheInv, DirOK, disk
  <1>15. /\ \A i \in Inums : Live(p, i)' <=> Live(p, i)
         /\ \A i \in Inums : Owed(p, i)' = Owed(p, i)
         /\ ~Truncating(p) /\ RootOwed(p)' = RootOwed(p)
    BY <1>3, <1>5, <1>11 DEF Live, Named, KeepSlots, disk, Owed, Truncating, RootOwed
  <1>16. ASSUME ~torn PROVE DiskInv(p)'
    <2>1. NamesOK' /\ CountsOK(p)' /\ BlocksOK(p)'
      BY <1>15, <1>16, DiskKeep
    <2>2. CoherentOK(p)'
      <3>1. CASE icache' = icache
        BY <1>11, <1>15, <1>16, <3>1 DEF Good, DiskInv, CoherentOK, disk
      <3>2. CASE icache' = [icache EXCEPT ![s] = Locked(s)]
        BY <1>1, <1>11, <1>15, <1>16, <3>2, LockCoherent DEF disk
      <3> QED
        BY <3>1, <3>2
    <2>3. DiskOK(p)'
      <3>1. icache'[s].valid
        BY <1>1, <1>16, LockKeeps DEF Good, DiskInv, DiskOK
      <3>2. \A q \in Procs : handle'[q] # 0 => icache'[handle'[q]].valid
        BY <1>4, <1>5, <1>16, <3>1, SlotHeld DEF Good, DiskInv, DiskOK
      <3> QED
        BY <1>2, <1>3, <3>2 DEF DiskOK, Freeing, Truncating, HoldsOld, PutsTarget
    <2> QED
      BY <2>1, <2>2, <2>3 DEF DiskInv
  <1>17. ASSUME crashes = 0 PROVE LeakInv(p)'
    BY <1>15, <1>17, LeakKeep
  <1>18. Good(p)'
    BY <1>3, <1>8, <1>9, <1>12, <1>13, <1>14, <1>16, <1>17 DEF Good, CacheInv
  <1> QED
    BY <1>18 DEF FsInv

\* The file is open.
LEMMA OpenedStep ==
  ASSUME NEW p \in Procs, Good(p), pc[p] \in {"open_lock", "open_done"},
         HandleIs(p, loc[p].s), Done(p), UNCHANGED disk,
         \/ icache' = [icache EXCEPT ![loc[p].s] = Locked(loc[p].s)]
         \/ pc[p] = "open_done" /\ icache' = icache
  PROVE  FsInv'
  <1> DEFINE s == loc[p].s
  <1>1. s \in Slots /\ icache[s].ref > 0 /\ icache[s].inum \in Inums
    BY SlotHeld DEF HoldsS
  <1>2. handle \in [Procs -> 0 .. NSLOTS] /\ opened \in [Procs -> 0 .. NINODES] /\ handle[p] = 0
    BY TypesAre DEF Good, CacheInv, LocalOK
  <1>3. /\ handle' = [handle EXCEPT ![p] = s] /\ opened' = [opened EXCEPT ![p] = icache[s].inum]
        /\ lost' = lost /\ UNCHANGED <<crashes, torn>>
    BY DEF HandleIs
  <1>4. lost \in [Slots -> 0 .. MaxLost] /\ \A k \in Slots : lost[k] \in Nat
    BY LostIs DEF Good
  <1>5. handle' \in [Procs -> 0 .. NSLOTS] /\ opened' \in [Procs -> 0 .. NINODES]
    BY <1>1, <1>2, <1>3, RangesAre
  <1>6. \A q \in Procs : \/ handle'[q] = handle[q] /\ opened'[q] = opened[q]
                         \/ handle'[q] = s /\ opened'[q] = icache[s].inum
    BY <1>2, <1>3
  <1>7. \A k \in Slots : Cardinality(Handles(k)') = Cardinality(Handles(k)) + (IF s = k THEN 1 ELSE 0)
    BY <1>1, <1>2, <1>3, HandleAdd
  <1>8. \A k \in Slots : Cardinality(Handles(k)') + lost'[k] =
                         Cardinality(Handles(k)) + lost[k] + (IF s = k THEN 1 ELSE 0)
    BY <1>3, <1>4, <1>7, HandleCount
  <1> QED
    BY <1>3, <1>4, <1>5, <1>6, <1>8, OpenEnds

\* There is no descriptor for it.
LEMMA OpenNoFdStep ==
  ASSUME FsInv, NEW p \in Procs, OpenNoFd(p)
  PROVE  FsInv'
  <1> DEFINE s == loc[p].s
  <1>1. /\ pc[p] \in {"open_lock", "open_done"} /\ Good(p) /\ Done(p)
        /\ UNCHANGED <<disk, handle, opened, crashes, torn>>
        /\ icache' = [icache EXCEPT ![s] = Locked(s)]
        /\ lost[s] < MaxLost /\ lost' = [lost EXCEPT ![s] = lost[s] + 1]
    BY InCallGood DEF OpenNoFd
  <1>2. s \in Slots
    BY <1>1, SlotHeld DEF HoldsS
  <1>3. /\ handle \in [Procs -> 0 .. NSLOTS] /\ opened \in [Procs -> 0 .. NINODES]
        /\ lost \in [Slots -> 0 .. MaxLost] /\ \A k \in Slots : lost[k] \in Nat
    BY <1>1, TypesAre, LostIs DEF Good
  <1>4. lost' \in [Slots -> 0 .. MaxLost]
    BY <1>1, <1>2, <1>3, FsAssumption
  <1>5. ASSUME NEW k \in Slots
        PROVE  Cardinality(Handles(k)') + lost'[k] =
               Cardinality(Handles(k)) + lost[k] + (IF s = k THEN 1 ELSE 0)
    <2>1. Handles(k)' = Handles(k) /\ Cardinality(Handles(k)) \in Nat
      BY <1>1, HandleCount DEF Handles
    <2> QED
      BY <1>1, <1>2, <1>3, <2>1
  <1> QED
    BY <1>1, <1>3, <1>4, <1>5, OpenEnds

LEMMA OpenLockStep ==
  ASSUME FsInv, NEW p \in Procs, NEW b \in BOOLEAN, OpenLock(p, b)
  PROVE  FsInv'
  <1>1. pc[p] = "open_lock" /\ Good(p) /\ UNCHANGED disk
    BY InCallGood DEF OpenLock, At
  <1>2. CASE b /\ Locked(loc[p].s).type = "file"
    BY <1>2, OpenLockTrunc DEF OpenLock
  <1>3. CASE ~(b /\ Locked(loc[p].s).type = "file")
    BY <1>1, <1>3, OpenedStep DEF OpenLock
  <1> QED
    BY <1>2, <1>3

LEMMA OpenDoneStep ==
  ASSUME FsInv, NEW p \in Procs, OpenDone(p)
  PROVE  FsInv'
  <1>1. pc[p] = "open_done" /\ Good(p) /\ UNCHANGED disk /\ icache' = icache
    BY InCallGood DEF OpenDone, At
  <1> QED
    BY <1>1, OpenedStep DEF OpenDone

\* The reference of the open file becomes that of the call.
LEMMA CloseFileStep ==
  ASSUME FsInv, Excl, NEW p \in Procs, Close(p)
  PROVE  FsInv'
  <1> DEFINE s == handle[p]
             l == [NoLocals EXCEPT !.s = s]
  <1>1. /\ pc[p] = "idle" /\ loc[p] = NoLocals /\ Good(p) /\ UNCHANGED disk /\ s # 0
        /\ icache' = icache /\ UNCHANGED <<lost, crashes, torn>>
        /\ handle' = [handle EXCEPT ![p] = 0] /\ opened' = [opened EXCEPT ![p] = 0]
    BY EnterGood DEF Close
  <1>2. s \in Slots /\ icache[s].ref > 0 /\ InUse(p, s)
    BY <1>1, SlotHeld
  <1>3. l \in LocRec /\ l.s = s /\ l.ret = "idle"
    BY <1>2, RangesAre DEF LocRec, NoLocals
  <1>4. Moves(p, "iput", l)
    BY <1>1, TypesAre DEF Moves, Goto, Close, Good
  <1>19. NoLocals.ret = "idle"
    BY DEF NoLocals
  <1> HIDE DEF l
  <1>5. Solo(p)' /\ Resting' /\ pc'[p] = "iput" /\ loc'[p] = l
    BY <1>1, <1>4, MovesIs
  <1>6. icache \in [Slots -> SlotRec] /\ handle \in [Procs -> 0 .. NSLOTS] /\ opened \in [Procs -> 0 .. NINODES]
    BY <1>1, TypesAre DEF Good
  <1>7. KeepSlots
    BY <1>1 DEF KeepSlots
  <1>8. TypeOK'
    <2>1. 0 \in 0 .. NINODES /\ 0 \in 0 .. NSLOTS
      BY RangesAre
    <2> QED
      BY <1>1, <1>3, <1>4, <2>1 DEF Good, TypeOK, Moves, disk, LocRec, PCs
  <1>9. RefsOK(p)'
    <2>1. ASSUME NEW k \in Slots
          PROVE  icache'[k].ref = Cardinality(Handles(k)') + RefS(p, k)' + RefOld(p, k)' + lost'[k]
      <3>1. Cardinality(Handles(k)') = Cardinality(Handles(k)) - (IF s = k THEN 1 ELSE 0)
        BY <1>1, <1>6, HandleDrop
      <3>2. /\ RefS(p, k)' = IF s = k THEN 1 ELSE 0
            /\ RefOld(p, k) = 0 /\ RefS(p, k) = 0 /\ RefOld(p, k)' = 0
        BY <1>1, <1>3, <1>5 DEF RefS, RefOld, HoldsS, HoldsOld
      <3>3. icache[k].ref = Cardinality(Handles(k)) + RefS(p, k) + RefOld(p, k) + lost[k]
        BY <1>1 DEF Good, CacheInv, RefsOK
      <3>4. Cardinality(Handles(k)) \in Nat /\ lost[k] \in Nat
        BY <1>1, HandleCount, LostIs DEF Good
      <3> QED
        BY <1>1, <3>1, <3>2, <3>3, <3>4
    <2> QED
      BY <2>1 DEF RefsOK
  <1>10. ~Freeing(p) /\ ~Freeing(p)'
    BY <1>1, <1>5 DEF Freeing
  <1>11. \A k \in Slots : InUse(p, k)' <=> InUse(p, k)
    BY <1>7, <1>10 DEF InUse, KeepSlots
  <1>12. SlotsOK(p)'
    <2>1. \A q \in Procs : handle'[q] # 0 => opened'[q] = icache'[handle'[q]].inum
      BY <1>1, <1>6 DEF Good, CacheInv, SlotsOK
    <2> QED
      BY <1>1, <1>7, <1>10, <1>11, <2>1 DEF Good, CacheInv, SlotsOK, KeepSlots
  <1>13. LocalOK(p)'
    BY <1>2, <1>3, <1>5 DEF LocalOK, HoldsOld
  <1>14. DirOK'
    BY <1>1 DEF Good, CacheInv, DirOK, disk
  <1>15. /\ \A i \in Inums : Live(p, i)' <=> Live(p, i)
         /\ \A i \in Inums : Owed(p, i)' = Owed(p, i)
         /\ ~Truncating(p) /\ RootOwed(p)' = RootOwed(p)
    BY <1>1, <1>5, <1>7, <1>11 DEF Live, Named, KeepSlots, disk, Owed, Truncating, RootOwed
  <1>16. ASSUME ~torn PROVE DiskInv(p)'
    <2>1. NamesOK' /\ CountsOK(p)' /\ BlocksOK(p)'
      BY <1>1, <1>15, <1>16, DiskKeep
    <2>2. CoherentOK(p)'
      BY <1>1, <1>11, <1>15, <1>16 DEF Good, DiskInv, CoherentOK, disk
    <2>3. DiskOK(p)'
      <3>1. icache[s].valid /\ \A q \in Procs : handle'[q] # 0 => icache'[handle'[q]].valid
        BY <1>1, <1>6, <1>16 DEF Good, DiskInv, DiskOK
      <3> QED
        BY <1>1, <1>3, <1>5, <3>1 DEF DiskOK, Freeing, Truncating, HoldsOld, PutsTarget
    <2> QED
      BY <2>1, <2>2, <2>3 DEF DiskInv
  <1>17. ASSUME crashes = 0 PROVE LeakInv(p)'
    BY <1>1, <1>15, <1>17, LeakKeep
  <1>18. Good(p)'
    BY <1>1, <1>5, <1>8, <1>9, <1>12, <1>13, <1>14, <1>16, <1>17 DEF Good, CacheInv
  <1> QED
    BY <1>18 DEF FsInv

-----------------------------------------------------------------------------
(* iget of an inode that has a name. *)

\* The entry that dirlookup finds.
LEMMA FoundIs ==
  ASSUME NEW p \in Procs, Good(p), NEW n \in Names, Found(n) # {}
  PROVE  /\ Offset(n) \in Entries /\ dir[Offset(n)].name = n
         /\ Ino(n) \in Inums /\ dir[Offset(n)].ino = Ino(n) /\ Named(Ino(n))
  <1>1. Offset(n) \in Found(n)
    BY LeastIs, RangesAre DEF Found, Offset
  <1>2. Offset(n) \in Entries /\ dir[Offset(n)].name = n
    BY <1>1 DEF Found
  <1>3. dir[Offset(n)].ino # 0
    BY <1>2, FsAssumption DEF Good, CacheInv, DirOK
  <1>4. dir[Offset(n)].ino \in 0 .. NINODES
    BY <1>2, TypesAre DEF Good
  <1> QED
    BY <1>2, <1>3, <1>4, RangesAre DEF Ino, Named

LEMMA GetStep ==
  ASSUME NEW p \in Procs, Good(p), NEW x \in PCs, NEW l \in LocRec, Moves(p, x, l), x # "idle",
         NEW k \in Slots, NEW i \in Inums, Named(i),
         icache' \in [Slots -> SlotRec], icache'[k].inum = i, icache'[k].ref = icache[k].ref + 1,
         \A m \in Slots : m # k => icache'[m].inum = icache[m].inum /\ icache'[m].ref = icache[m].ref,
         icache[k].ref > 0 => icache[k].inum = i,
         icache[k].ref = 0 => \A m \in Slots : icache[m].ref > 0 => icache[m].inum # i,
         Same, UNCHANGED disk,
         ~Freeing(p), ~Freeing(p)', ~Truncating(p), pc[p] \notin {"write_update", "mkdir_dots"},
         \A m \in Slots : RefS(p, m)' + RefOld(p, m)' = RefS(p, m) + RefOld(p, m) + (IF m = k THEN 1 ELSE 0),
         \A j \in Inums : Owed(p, j)' = Owed(p, j), RootOwed(p)' = RootOwed(p),
         LocalOK(p)', ~torn => CoherentOK(p)' /\ DiskOK(p)'
  PROVE  FsInv'
  <1>1. Solo(p)' /\ Resting' /\ pc'[p] = x /\ loc'[p] = l
    BY MovesIs
  <1>2. icache \in [Slots -> SlotRec] /\ \A m \in Slots : icache[m].ref \in Nat
    BY TypesAre DEF Good, SlotRec
  <1>3. TypeOK'
    BY DEF Good, TypeOK, Moves, Same, disk, SlotRec, LocRec
  <1>4. RefsOK(p)'
    <2>1. \A m \in Slots : /\ RefS(p, m) \in {0, 1} /\ RefOld(p, m) \in {0, 1}
                           /\ RefS(p, m)' \in {0, 1} /\ RefOld(p, m)' \in {0, 1}
                           /\ icache'[m].ref = icache[m].ref + (IF m = k THEN 1 ELSE 0)
      BY <1>2 DEF RefS, RefOld
    <2>2. \A m \in Slots :
            /\ icache'[m].ref \in Nat
            /\ icache'[m].ref + RefS(p, m) + RefOld(p, m) = icache[m].ref + RefS(p, m)' + RefOld(p, m)'
      BY <1>2, <2>1
    <2> QED
      BY <2>2, RefsKeep DEF Same
  <1>5. \A m \in Slots : InUse(p, m)' <=> InUse(p, m) \/ m = k
    BY <1>2 DEF InUse
  <1>6. \A m \in Slots : InUse(p, m) => icache'[m].inum = icache[m].inum
    BY <1>2 DEF InUse
  <1>7. SlotsOK(p)'
    <2>1. SlotsOK(p)
      BY DEF Good, CacheInv
    <2>2. \A q \in Procs : handle'[q] # 0 => opened'[q] = icache'[handle'[q]].inum
      BY <1>2, <1>6, <2>1, SlotHeld DEF SlotsOK, Same
    <2>3. \A m \in Slots : InUse(p, m)' => icache'[m].inum \in Inums
      BY <1>5, <1>6, <2>1 DEF SlotsOK
    <2>4. ASSUME NEW m \in Slots, InUse(p, m), icache[m].inum = i PROVE m = k
      <3>1. icache[m].ref > 0
        BY <2>4 DEF InUse
      <3>2. icache[k].ref > 0
        BY <1>2, <2>4, <3>1
      <3> QED
        BY <2>1, <2>4, <3>1, <3>2 DEF SlotsOK, InUse
    <2>5. \A m, n \in Slots : InUse(p, m)' /\ InUse(p, n)' /\ icache'[m].inum = icache'[n].inum => m = n
      BY <1>5, <1>6, <2>1, <2>4 DEF SlotsOK
    <2> QED
      BY <2>2, <2>3, <2>5 DEF SlotsOK
  <1>8. DirOK'
    BY DEF Good, CacheInv, DirOK, disk
  <1>9. \A j \in Inums : Live(p, j)' <=> Live(p, j)
    BY <1>5, <1>6 DEF Live, Named, disk
  <1>10. ASSUME ~torn PROVE DiskInv(p)'
    BY <1>9, <1>10, DiskKeep DEF DiskInv
  <1>11. ASSUME crashes = 0 PROVE LeakInv(p)'
    BY <1>9, <1>11, LeakKeep
  <1>12. Good(p)'
    BY <1>1, <1>3, <1>4, <1>7, <1>8, <1>10, <1>11 DEF Good, CacheInv, Same
  <1> QED
    BY <1>12 DEF FsInv

\* A slot that iget returns agrees with the disk, or is yet to be read.
LEMMA GotCoherent ==
  ASSUME NEW p \in Procs, Good(p), ~torn, NEW i \in Inums, CanGet(i), icache' = Got(i),
         dinode' = dinode, dinode[i].type # "free",
         ~Freeing(p), ~Freeing(p)', ~Truncating(p), pc[p] # "mkdir_dots"
  PROVE  /\ CoherentOK(p)'
         /\ \A m \in Slots : icache[m].ref > 0 /\ icache[m].valid => icache'[m].valid
  <1>1. icache \in [Slots -> SlotRec] /\ CoherentOK(p)
    BY TypesAre DEF Good, DiskInv
  <1>2. PICK k \in Slots :
           /\ icache'[k].inum = i /\ icache'[k].ref = icache[k].ref + 1
           /\ \A m \in Slots : m # k => icache'[m] = icache[m]
           /\ icache[k].ref > 0 => /\ icache[k].inum = i /\ icache'[k].valid = icache[k].valid
                                   /\ icache'[k].type = icache[k].type
                                   /\ icache'[k].nlink = icache[k].nlink
                                   /\ icache'[k].blk = icache[k].blk
           /\ icache[k].ref = 0 => ~icache'[k].valid
    BY <1>1, GotIs
  <1>3. \A m \in Slots : icache[m].ref \in Nat
    BY <1>1 DEF SlotRec
  <1>4. ASSUME NEW m \in Slots, InUse(p, m)'
        PROVE  LET c == icache'[m]  d == dinode'[icache'[m].inum] IN
               /\ d.type # "free"
               /\ c.valid => c.type = d.type /\ c.nlink = d.nlink /\ c.blk = d.blk
    <2>1. CASE m # k
      BY <1>1, <1>2, <1>4, <2>1 DEF InUse, CoherentOK
    <2>2. CASE m = k /\ icache[k].ref > 0
      BY <1>1, <1>2, <2>2 DEF InUse, CoherentOK
    <2>3. CASE m = k /\ icache[k].ref = 0
      BY <1>2, <2>3
    <2> QED
      BY <1>3, <2>1, <2>2, <2>3
  <1>5. CoherentOK(p)'
    BY <1>4 DEF CoherentOK
  <1>6. \A m \in Slots : icache[m].ref > 0 /\ icache[m].valid => icache'[m].valid
    BY <1>2
  <1> QED
    BY <1>5, <1>6

\* A call that begins by looking up the name n.
LEMMA LookupStep ==
  ASSUME NEW p \in Procs, Good(p), pc[p] = "idle", loc[p] = NoLocals,
         NEW n \in Names, Found(n) # {}, CanGet(Ino(n)), icache' = Got(Ino(n)),
         NEW x \in {"open_lock", "unlink_erase", "ren_target"}, NEW l \in LocRec, Moves(p, x, l),
         l.s = SlotFor(Ino(n)), l.ret = "idle",
         x = "open_lock" => handle[p] = 0,
         x # "open_lock" => l.off = Offset(n),
         x = "ren_target" => l.old = l.s /\ l.name \in Names /\ l.name # n,
         Same, UNCHANGED disk
  PROVE  FsInv'
  <1> DEFINE i == Ino(n)
             k == l.s
  <1>1. /\ Offset(n) \in Entries /\ dir[Offset(n)].name = n
        /\ i \in Inums /\ dir[Offset(n)].ino = i /\ Named(i)
    BY FoundIs
  <1>2. icache \in [Slots -> SlotRec]
    BY TypesAre DEF Good
  <1>3. /\ k \in Slots /\ icache' \in [Slots -> SlotRec]
        /\ icache'[k].inum = i /\ icache'[k].ref = icache[k].ref + 1
        /\ \A m \in Slots : m # k => icache'[m] = icache[m]
        /\ icache[k].ref > 0 => icache[k].inum = i
        /\ icache[k].ref = 0 => \A m \in Slots : icache[m].ref > 0 => icache[m].inum # i
    BY <1>1, <1>2, GotIs
  <1>4. Solo(p)' /\ Resting' /\ pc'[p] = x /\ loc'[p] = l
    BY MovesIs
  <1>5. ~Freeing(p) /\ ~Freeing(p)' /\ ~Truncating(p) /\ x \in PCs /\ RootOwed(p)' = RootOwed(p)
    BY <1>4 DEF Freeing, Truncating, PCs, RootOwed
  <1>6. /\ \A m \in Slots : RefS(p, m)' + RefOld(p, m)' = RefS(p, m) + RefOld(p, m) + (IF m = k THEN 1 ELSE 0)
        /\ \A j \in Inums : Owed(p, j)' = Owed(p, j)
    BY <1>4 DEF RefS, RefOld, HoldsS, HoldsOld, Owed
  <1>7. LocalOK(p)'
    BY <1>1, <1>3, <1>4 DEF LocalOK, HoldsOld, Same
  <1>8. ASSUME ~torn PROVE CoherentOK(p)' /\ DiskOK(p)'
    <2>1. dinode[i].type # "free"
      BY <1>1, <1>8, RangesAre DEF Good, DiskInv, NamesOK
    <2>2. CoherentOK(p)' /\ \A m \in Slots : icache[m].ref > 0 /\ icache[m].valid => icache'[m].valid
      BY <1>1, <1>5, <1>8, <2>1, GotCoherent DEF disk
    <2>3. \A q \in Procs : handle'[q] # 0 => icache'[handle'[q]].valid
      BY <1>8, <2>2, SlotHeld DEF Good, DiskInv, DiskOK, Same
    <2>4. Named(MyIno(p))' /\ MyIno(p)' = i
      BY <1>1, <1>3, <1>4 DEF MyIno, Named, disk
    <2>5. x = "ren_target" => OldIno(p)' = i
      BY <1>3, <1>4 DEF OldIno
    <2>6. DiskOK(p)'
      BY <1>1, <1>4, <2>3, <2>4, <2>5 DEF DiskOK, Freeing, Truncating, HoldsOld, PutsTarget, disk
    <2> QED
      BY <2>2, <2>6
  <1> QED
    BY <1>1, <1>3, <1>4, <1>5, <1>6, <1>7, <1>8, GetStep

LEMMA OpenStep ==
  ASSUME FsInv, Excl, NEW p \in Procs, NEW n \in Names, Open(p, n)
  PROVE  FsInv'
  <1> DEFINE l == [NoLocals EXCEPT !.s = SlotFor(Ino(n))]
  <1>1. /\ pc[p] = "idle" /\ loc[p] = NoLocals /\ Good(p) /\ handle[p] = 0 /\ Same /\ UNCHANGED disk
        /\ Found(n) # {} /\ CanGet(Ino(n)) /\ icache' = Got(Ino(n))
    BY EnterGood DEF Open
  <1>2. SlotFor(Ino(n)) \in Slots
    BY <1>1, FoundIs, GotIs, TypesAre DEF Good
  <1>3. l \in LocRec /\ l.s = SlotFor(Ino(n)) /\ l.ret = "idle"
    BY <1>2, RangesAre DEF LocRec, NoLocals
  <1>4. Moves(p, "open_lock", l)
    BY <1>1, TypesAre DEF Moves, Goto, Open, Good
  <1> HIDE DEF l
  <1> QED
    BY <1>1, <1>3, <1>4, LookupStep

LEMMA UnlinkStep ==
  ASSUME FsInv, Excl, NEW p \in Procs, NEW n \in Names, Unlink(p, n)
  PROVE  FsInv'
  <1> DEFINE l == [NoLocals EXCEPT !.s = SlotFor(Ino(n)), !.off = Offset(n)]
  <1>1. /\ pc[p] = "idle" /\ loc[p] = NoLocals /\ Good(p) /\ Same /\ UNCHANGED disk
        /\ Found(n) # {} /\ CanGet(Ino(n)) /\ icache' = Got(Ino(n))
    BY EnterGood DEF Unlink
  <1>2. SlotFor(Ino(n)) \in Slots /\ Offset(n) \in Entries
    BY <1>1, FoundIs, GotIs, TypesAre DEF Good
  <1>3. l \in LocRec /\ l.s = SlotFor(Ino(n)) /\ l.ret = "idle" /\ l.off = Offset(n)
    BY <1>2, RangesAre DEF LocRec, NoLocals
  <1>4. Moves(p, "unlink_erase", l)
    BY <1>1, TypesAre DEF Moves, Goto, Unlink, Good
  <1> HIDE DEF l
  <1> QED
    BY <1>1, <1>3, <1>4, LookupStep

LEMMA RenameStep ==
  ASSUME FsInv, Excl, NEW p \in Procs, NEW n \in Names, NEW m \in Names, Rename(p, n, m)
  PROVE  FsInv'
  <1> DEFINE l == [NoLocals EXCEPT !.s = SlotFor(Ino(n)), !.old = SlotFor(Ino(n)),
                                   !.off = Offset(n), !.name = m]
  <1>1. /\ pc[p] = "idle" /\ loc[p] = NoLocals /\ Good(p) /\ Same /\ UNCHANGED disk /\ n # m
        /\ Found(n) # {} /\ CanGet(Ino(n)) /\ icache' = Got(Ino(n))
    BY EnterGood DEF Rename
  <1>2. SlotFor(Ino(n)) \in Slots /\ Offset(n) \in Entries
    BY <1>1, FoundIs, GotIs, TypesAre DEF Good
  <1>3. /\ l \in LocRec /\ l.s = SlotFor(Ino(n)) /\ l.ret = "idle" /\ l.off = Offset(n)
        /\ l.old = l.s /\ l.name = m
    BY <1>2, RangesAre DEF LocRec, NoLocals
  <1>4. Moves(p, "ren_target", l)
    BY <1>1, TypesAre DEF Moves, Goto, Rename, Good
  <1> HIDE DEF l
  <1> QED
    BY <1>1, <1>3, <1>4, LookupStep

LEMMA RenameTargetStep ==
  ASSUME FsInv, NEW p \in Procs, RenameTarget(p)
  PROVE  FsInv'
  <1> DEFINE s == loc[p].s
             t == Ino(loc[p].name)
             k == SlotFor(t)
             l == [loc[p] EXCEPT !.s = k, !.toff = Offset(loc[p].name)]
             G == Got(t)
  <1>1. /\ pc[p] = "ren_target" /\ Good(p) /\ Same /\ UNCHANGED disk
        /\ Locked(s).type = "file" /\ Found(loc[p].name) # {} /\ CanGet(t)
    BY InCallGood DEF RenameTarget, At
  <1>2. loc[p] \in LocRec /\ icache \in [Slots -> SlotRec] /\ dinode \in [Inums -> DinodeType]
    BY <1>1, TypesAre DEF Good
  <1>3. s \in Slots /\ icache[s].ref > 0 /\ InUse(p, s) /\ icache[s].inum \in Inums
    BY <1>1, SlotHeld DEF HoldsS
  <1>4. loc[p].ret = "idle" /\ loc[p].old = s /\ loc[p].off \in Entries /\ loc[p].name \in Names
    BY <1>1, <1>2 DEF Good, CacheInv, LocalOK, LocRec
  <1>5. /\ Offset(loc[p].name) \in Entries /\ dir[Offset(loc[p].name)].name = loc[p].name
        /\ t \in Inums /\ dir[Offset(loc[p].name)].ino = t /\ Named(t)
    BY <1>1, <1>4, FoundIs
  <1>6. /\ k \in Slots /\ G \in [Slots -> SlotRec]
        /\ G[k].inum = t /\ G[k].ref = icache[k].ref + 1
        /\ \A m \in Slots : m # k => G[m] = icache[m]
        /\ icache[k].ref > 0 => icache[k].inum = t /\ G[k].valid = icache[k].valid
                                /\ G[k].type = icache[k].type
                                /\ G[k].nlink = icache[k].nlink
                                /\ G[k].blk = icache[k].blk
        /\ icache[k].ref = 0 => ~G[k].valid /\ \A m \in Slots : icache[m].ref > 0 => icache[m].inum # t
    BY <1>1, <1>2, <1>5, GotIs
  <1>7. /\ l \in LocRec /\ l.s = k /\ l.toff = Offset(loc[p].name) /\ l.ret = "idle"
        /\ l.old = s /\ l.off = loc[p].off /\ l.name = loc[p].name
    BY <1>2, <1>4, <1>5, <1>6, RangesAre, ZenonT(30) DEF LocRec
  <1>8. Moves(p, "ren_unlink", l)
    BY <1>1, TypesAre DEF Moves, Goto, RenameTarget, Good
  <1>9. icache' = [G EXCEPT ![s].valid = TRUE, ![s].type = Locked(s).type,
                            ![s].nlink = Locked(s).nlink, ![s].blk = Locked(s).blk]
    BY DEF RenameTarget
  <1>10. Locked(s) \in SlotRec
    BY <1>2, <1>3, LockedIs
  <1> HIDE DEF s, t, k, l, G
  <1>11. /\ icache' \in [Slots -> SlotRec]
         /\ \A m \in Slots : m # s => icache'[m] = G[m]
         /\ icache'[s].inum = G[s].inum /\ icache'[s].ref = G[s].ref /\ icache'[s].valid
         /\ icache'[s].type = Locked(s).type /\ icache'[s].nlink = Locked(s).nlink /\ icache'[s].blk = Locked(s).blk
    <2>1. G[s] \in SlotRec
      BY <1>3, <1>6
    <2>2. PICK c \in SlotRec : /\ icache' = [G EXCEPT ![s] = c]
                               /\ c.inum = G[s].inum /\ c.ref = G[s].ref /\ c.valid
                               /\ c.type = Locked(s).type /\ c.nlink = Locked(s).nlink /\ c.blk = Locked(s).blk
      <3> DEFINE c == [G[s] EXCEPT !.valid = TRUE, !.type = Locked(s).type,
                                   !.nlink = Locked(s).nlink, !.blk = Locked(s).blk]
      <3>1. /\ c \in SlotRec
            /\ c.inum = G[s].inum /\ c.ref = G[s].ref /\ c.valid
            /\ c.type = Locked(s).type /\ c.nlink = Locked(s).nlink /\ c.blk = Locked(s).blk
        BY <1>10, <2>1 DEF SlotRec
      <3>2. icache' = [G EXCEPT ![s] = c]
        BY <1>3, <1>6, <1>9
      <3> QED
        BY <3>1, <3>2
    <2> QED
      BY <1>3, <1>6, <2>2
  <1>12. /\ icache'[k].inum = t /\ icache'[k].ref = icache[k].ref + 1
         /\ \A m \in Slots : m # k => icache'[m].inum = icache[m].inum /\ icache'[m].ref = icache[m].ref
    BY <1>6, <1>11
  <1>13. Solo(p)' /\ Resting' /\ pc'[p] = "ren_unlink" /\ loc'[p] = l
    BY <1>1, <1>8, MovesIs
  <1>14. ~Freeing(p) /\ ~Freeing(p)' /\ ~Truncating(p) /\ RootOwed(p)' = RootOwed(p)
    BY <1>1, <1>13 DEF Freeing, Truncating, RootOwed
  <1>15. /\ \A m \in Slots : RefS(p, m)' + RefOld(p, m)' = RefS(p, m) + RefOld(p, m) + (IF m = k THEN 1 ELSE 0)
         /\ \A j \in Inums : Owed(p, j)' = Owed(p, j)
    BY <1>1, <1>7, <1>13 DEF RefS, RefOld, HoldsS, HoldsOld, Owed, s
  <1>16. LocalOK(p)'
    BY <1>3, <1>4, <1>5, <1>6, <1>7, <1>13 DEF LocalOK, HoldsOld
  <1>17. ASSUME ~torn PROVE CoherentOK(p)' /\ DiskOK(p)'
    <2>1. /\ Locked(s).type = dinode[icache[s].inum].type /\ Locked(s).type # "free"
          /\ Locked(s).nlink = dinode[icache[s].inum].nlink
          /\ Locked(s).blk = dinode[icache[s].inum].blk
      BY <1>1, <1>3, <1>14, <1>17, LockedAgrees
    <2>2. dinode[t].type # "free"
      BY <1>1, <1>5, <1>17, RangesAre DEF Good, DiskInv, NamesOK
    <2>3. k = s => icache[s].inum = t
      BY <1>3, <1>6
    <2>4. icache'[s].inum = icache[s].inum
      BY <1>3, <1>12, <2>3
    <2>5. ASSUME NEW m \in Slots, InUse(p, m)'
          PROVE  LET c == icache'[m]  d == dinode'[icache'[m].inum] IN
                 /\ d.type # "free"
                 /\ c.valid => c.type = d.type /\ c.nlink = d.nlink /\ c.blk = d.blk
      <3>1. dinode' = dinode /\ CoherentOK(p)
        BY <1>1, <1>17 DEF disk, Good, DiskInv
      <3>2. CASE m = s
        BY <1>11, <2>1, <2>4, <3>1, <3>2
      <3>3. CASE m # s /\ m = k /\ icache[k].ref > 0
        BY <1>1, <1>6, <1>11, <1>14, <3>1, <3>3 DEF InUse, CoherentOK
      <3>4. CASE m # s /\ m = k /\ icache[k].ref = 0
        BY <1>6, <1>11, <2>2, <3>1, <3>4
      <3>5. CASE m # s /\ m # k
        BY <1>1, <1>6, <1>11, <1>14, <2>5, <3>1, <3>5 DEF InUse, CoherentOK
      <3>6. icache[k].ref \in Nat
        BY <1>2, <1>6 DEF SlotRec
      <3> QED
        BY <3>2, <3>3, <3>4, <3>5, <3>6
    <2>6. CoherentOK(p)'
      BY <2>5 DEF CoherentOK
    <2>7. \A m \in Slots : icache[m].ref > 0 /\ icache[m].valid => icache'[m].valid
      BY <1>6, <1>11
    <2>8. \A q \in Procs : handle'[q] # 0 => icache'[handle'[q]].valid
      BY <1>1, <1>17, <2>7, SlotHeld DEF Good, DiskInv, DiskOK, Same
    <2>9. MyIno(p)' = t /\ OldIno(p)' = icache[s].inum /\ OldIno(p) = icache[s].inum
      BY <1>4, <1>7, <1>12, <1>13, <2>4 DEF MyIno, OldIno
    <2>10. dir[loc[p].off].ino = OldIno(p) /\ dir[loc[p].off].name # loc[p].name
      BY <1>1, <1>17 DEF Good, DiskInv, DiskOK
    <2>11. DiskOK(p)'
      BY <1>1, <1>5, <1>7, <1>11, <1>13, <1>14, <2>1, <2>8, <2>9, <2>10
         DEF DiskOK, Freeing, Truncating, HoldsOld, PutsTarget, disk
    <2> QED
      BY <2>6, <2>11
  <1> QED
    BY <1>1, <1>5, <1>6, <1>7, <1>8, <1>11, <1>12, <1>14, <1>15, <1>16, <1>17, GetStep, SMTT(30) DEF PCs

-----------------------------------------------------------------------------
(* Entries are erased and written. *)

\* What a step does to the links that are owed, inode i getting d more names.
Owes(p, i, d) ==
  /\ \A j \in Inums : Owed(p, j)' = Owed(p, j) - (IF j = i THEN d ELSE 0)
  /\ RootOwed(p)' = RootOwed(p) - (IF dinode[i].type = "dir" THEN d ELSE 0)

\* Links that are counted remain so when names and debts change together.
LEMMA CountsMove ==
  ASSUME NEW p \in Procs, Good(p), ~torn, dinode' = dinode,
         \A i \in Inums : Live(p, i)' => Live(p, i),
         \A i \in Inums : Cardinality(NamesOf(i)') + Owed(p, i)' = Cardinality(NamesOf(i)) + Owed(p, i),
         \A i \in Inums : Cardinality(NamesOf(i)') \in Int
  PROVE  CountsOK(p)'
  <1>1. CountsOK(p) /\ dinode \in [Inums -> DinodeType]
    BY TypesAre DEF Good, DiskInv
  <1>2. \A i \in Inums : dinode[i].nlink \in Int /\ Cardinality(NamesOf(i)) \in Int
    BY <1>1, NamesCount DEF DinodeType
  <1>3. \A i \in Inums : Owed(p, i) \in Int /\ Owed(p, i)' \in Int
    BY DEF Owed
  <1>4. ASSUME NEW i \in Inums, Live(p, i)'
        PROVE  /\ dinode'[i].type = "file" => dinode'[i].nlink >= Cardinality(NamesOf(i)') + Owed(p, i)'
               /\ dinode'[i].type = "dir" => dinode'[i].nlink >= 1 + Cardinality(NamesOf(i)') + Owed(p, i)'
    <2>1. /\ dinode[i].type = "file" => dinode[i].nlink >= Cardinality(NamesOf(i)) + Owed(p, i)
          /\ dinode[i].type = "dir" => dinode[i].nlink >= 1 + Cardinality(NamesOf(i)) + Owed(p, i)
      BY <1>1, <1>4 DEF CountsOK
    <2> QED
      BY <1>2, <1>3, <2>1
  <1> QED
    BY <1>4 DEF CountsOK

LEMMA EraseStep ==
  ASSUME NEW p \in Procs, Good(p), NEW x \in PCs, NEW l \in LocRec, Moves(p, x, l), x # "idle",
         NEW s \in Slots, icache[s].ref > 0,
         icache' = icache \/ icache' = [icache EXCEPT ![s] = Locked(s)],
         NEW o \in Entries, dir' = [dir EXCEPT ![o] = NoEntry],
         Same, UNCHANGED <<dinode, used, rootLink>>,
         ~Freeing(p), ~Freeing(p)', ~Truncating(p), pc[p] \notin {"write_update", "mkdir_dots"},
         \A m \in Slots : RefS(p, m)' + RefOld(p, m)' = RefS(p, m) + RefOld(p, m),
         LocalOK(p)',
         ~torn => \E k \in Slots : icache[k].ref > 0 /\ icache[k].inum = dir[o].ino,
         ~torn => Owes(p, dir[o].ino, -1),
         ~torn => DiskOK(p)'
  PROVE  FsInv'
  <1>1. Solo(p)' /\ Resting' /\ pc'[p] = x /\ loc'[p] = l
    BY MovesIs
  <1>2. /\ icache \in [Slots -> SlotRec] /\ InUse(p, s)
        /\ dir \in [Entries -> [name : Names \cup {NoName}, ino : 0 .. NINODES]]
    BY TypesAre DEF Good, InUse
  <1>3. icache' \in [Slots -> SlotRec] /\ KeepSlots
    BY <1>2, LockKeeps DEF KeepSlots
  <1>4. /\ dir' \in [Entries -> [name : Names \cup {NoName}, ino : 0 .. NINODES]]
        /\ dir'[o] = NoEntry /\ \A q \in Entries : q # o => dir'[q] = dir[q]
    BY <1>2, RangesAre DEF NoEntry
  <1>5. TypeOK'
    BY <1>3, <1>4 DEF Good, TypeOK, Moves, Same, SlotRec, LocRec
  <1>6. SlotsOK(p)' /\ \A k \in Slots : InUse(p, k)' <=> InUse(p, k)
    BY <1>3, SlotsKeep DEF Same
  <1>7. RefsOK(p)'
    <2>1. \A k \in Slots : /\ icache'[k].ref = icache[k].ref /\ icache[k].ref \in Nat
                           /\ RefS(p, k) \in {0, 1} /\ RefOld(p, k) \in {0, 1}
                           /\ RefS(p, k)' \in {0, 1} /\ RefOld(p, k)' \in {0, 1}
      BY <1>2, <1>3 DEF KeepSlots, SlotRec, RefS, RefOld
    <2>2. \A k \in Slots :
            /\ icache'[k].ref \in Nat
            /\ icache'[k].ref + RefS(p, k) + RefOld(p, k) = icache[k].ref + RefS(p, k)' + RefOld(p, k)'
      BY <2>1
    <2> QED
      BY <2>2, RefsKeep DEF Same
  <1>8. DirOK'
    BY <1>4 DEF Good, CacheInv, DirOK, NoEntry
  <1>9. ASSUME ~torn PROVE DiskInv(p)' /\ (crashes = 0 => LeakInv(p)')
    <2> DEFINE j == dir[o].ino
    <2>1. j \in Inums /\ \E k \in Slots : InUse(p, k) /\ icache[k].inum = j
      BY <1>9, SlotHeld
    <2>2. \A i \in Inums : Live(p, i)' <=> Live(p, i)
      BY <1>3, <1>4, <1>6, <2>1, RangesAre DEF Live, Named, KeepSlots, NoEntry
    <2>3. j # 0
      BY <2>1, RangesAre
    <2>4. \A i \in Inums : Cardinality(NamesOf(i)') = Cardinality(NamesOf(i)) - (IF j = i THEN 1 ELSE 0)
      BY <1>2, <2>3, NamesErase
    <2>5. \A i \in Inums : Cardinality(NamesOf(i)) \in Nat
      BY NamesCount
    <2>6. \A i \in Inums : Owed(p, i) \in Int /\ Owed(p, i)' = Owed(p, i) - (IF i = j THEN -1 ELSE 0)
      BY <1>9 DEF Owes, Owed
    <2>7. \A i \in Inums : /\ Cardinality(NamesOf(i)') + Owed(p, i)' = Cardinality(NamesOf(i)) + Owed(p, i)
                           /\ Cardinality(NamesOf(i)') \in Int
      BY <2>4, <2>5, <2>6
    <2>8. CountsOK(p)'
      BY <1>9, <2>2, <2>7, CountsMove
    <2>9. NamesOK'
      BY <1>4, <1>9 DEF Good, CacheInv, DirOK, DiskInv, NamesOK, NoEntry
    <2>10. BlocksOK(p)'
      BY <1>9, <2>2 DEF Good, DiskInv, BlocksOK
    <2>11. CoherentOK(p)'
      <3>1. CASE icache' = icache
        BY <1>6, <1>9, <3>1 DEF Good, DiskInv, CoherentOK
      <3>2. CASE icache' = [icache EXCEPT ![s] = Locked(s)]
        BY <1>2, <1>6, <1>9, <3>2, LockCoherent
      <3> QED
        BY <3>1, <3>2
    <2>12. ASSUME crashes = 0 PROVE LeakInv(p)'
      <3>1. LeakInv(p)
        BY <2>12 DEF Good
      <3>2. SameTypes
        BY DEF SameTypes
      <3>3. Cardinality(DirNames') = Cardinality(DirNames) - (IF dinode[j].type = "dir" THEN 1 ELSE 0)
        BY <1>2, <2>3, <3>2, DirsErase
      <3>4. Cardinality(DirNames) \in Nat /\ RootOwed(p) \in Int
        BY DirCount DEF RootOwed
      <3>5. RootOwed(p)' = RootOwed(p) - (IF dinode[j].type = "dir" THEN -1 ELSE 0)
        BY <1>9 DEF Owes
      <3>6. rootLink' = 2 + Cardinality(DirNames') + RootOwed(p)'
        BY <3>1, <3>3, <3>4, <3>5 DEF LeakInv
      <3>7. \A i \in Inums : dinode'[i].type = "file" =>
              Live(p, i)' /\ dinode'[i].nlink = Cardinality(NamesOf(i)') + Owed(p, i)'
        BY <2>2, <2>7, <3>1 DEF LeakInv
      <3>8. \A b \in used' : \E i \in Inums : dinode'[i].type # "free" /\ dinode'[i].blk = b
        BY <3>1 DEF LeakInv
      <3> QED
        BY <3>6, <3>7, <3>8 DEF LeakInv
    <2> QED
      BY <1>9, <2>8, <2>9, <2>10, <2>11, <2>12 DEF DiskInv
  <1>10. crashes = 0 => ~torn
    BY DEF Good
  <1>11. Good(p)'
    BY <1>1, <1>5, <1>6, <1>7, <1>8, <1>9, <1>10 DEF Good, CacheInv, Same
  <1> QED
    BY <1>11 DEF FsInv

LEMMA UnlinkEraseStep ==
  ASSUME FsInv, NEW p \in Procs, UnlinkErase(p)
  PROVE  FsInv'
  <1> DEFINE s == loc[p].s
             l == loc[p]
             x == IF Locked(s).type = "dir" THEN "unlink_parent" ELSE "unlink_count"
  <1>1. pc[p] = "unlink_erase" /\ Good(p) /\ Same /\ UNCHANGED <<dinode, used, rootLink>>
    BY InCallGood DEF UnlinkErase, At
  <1>2. loc[p] \in LocRec
    BY <1>1, TypesAre DEF Good
  <1>3. s \in Slots /\ icache[s].ref > 0 /\ InUse(p, s)
    BY <1>1, SlotHeld DEF HoldsS
  <1>4. l.ret = "idle" /\ l.off \in Entries
    BY <1>1, <1>2 DEF Good, CacheInv, LocalOK, LocRec
  <1>5. Moves(p, x, l) /\ x \in PCs
    BY <1>1, TypesAre DEF Moves, Goto, Good, UnlinkErase, PCs
  <1>6. icache' = [icache EXCEPT ![s] = Locked(s)] /\ dir' = [dir EXCEPT ![l.off] = NoEntry]
    BY DEF UnlinkErase
  <1>7. x \in {"unlink_parent", "unlink_count"} /\ (x = "unlink_parent" <=> Locked(s).type = "dir")
    OBVIOUS
  <1> HIDE DEF x
  <1>8. Solo(p)' /\ Resting' /\ pc'[p] = x /\ loc'[p] = l
    BY <1>1, <1>5, <1>7, MovesIs
  <1>9. KeepSlots /\ icache'[s].valid /\ \A m \in Slots : icache[m].valid => icache'[m].valid
    BY <1>1, <1>3, <1>6, LockKeeps
  <1>10. LocalOK(p)'
    BY <1>3, <1>4, <1>7, <1>8 DEF LocalOK, HoldsOld
  <1>11. /\ \A m \in Slots : RefS(p, m)' + RefOld(p, m)' = RefS(p, m) + RefOld(p, m)
         /\ ~Freeing(p) /\ ~Freeing(p)' /\ ~Truncating(p)
    BY <1>1, <1>4, <1>7, <1>8 DEF RefS, RefOld, HoldsS, HoldsOld, Freeing, Truncating
  <1>12. ASSUME ~torn
         PROVE  /\ DiskOK(p)' /\ Owes(p, dir[l.off].ino, -1)
                /\ icache[s].ref > 0 /\ icache[s].inum = dir[l.off].ino
    <2>1. dir[l.off].ino = icache[s].inum /\ MyIno(p) = icache[s].inum
      BY <1>1, <1>12 DEF Good, DiskInv, DiskOK, MyIno
    <2>2. \A q \in Procs : handle'[q] # 0 => icache'[handle'[q]].valid
      BY <1>1, <1>9, <1>12, SlotHeld DEF Good, DiskInv, DiskOK, Same
    <2>3. Locked(s).type = dinode[icache[s].inum].type
      BY <1>1, <1>3, <1>11, <1>12, LockedAgrees
    <2>4. MyIno(p)' = icache[s].inum
      BY <1>3, <1>8, <1>9 DEF MyIno, KeepSlots
    <2>5. DiskOK(p)'
      BY <1>1, <1>4, <1>7, <1>8, <1>9, <2>2, <2>3, <2>4 DEF DiskOK, Freeing, Truncating, HoldsOld, PutsTarget
    <2>6. Owes(p, dir[l.off].ino, -1)
      BY <1>1, <1>7, <1>8, <2>1, <2>3, <2>4 DEF Owes, Owed, RootOwed
    <2> QED
      BY <1>3, <2>1, <2>5, <2>6
  <1> QED
    BY <1>1, <1>2, <1>3, <1>4, <1>5, <1>6, <1>7, <1>10, <1>11, <1>12, EraseStep

LEMMA RenameUnlinkStep ==
  ASSUME FsInv, NEW p \in Procs, RenameUnlink(p)
  PROVE  FsInv'
  <1> DEFINE s == loc[p].s
  <1>1. pc[p] = "ren_unlink" /\ Good(p) /\ Same /\ UNCHANGED <<dinode, used, rootLink>>
    BY InCallGood DEF RenameUnlink, At
  <1>2. loc[p] \in LocRec
    BY <1>1, TypesAre DEF Good
  <1>3. /\ s \in Slots /\ icache[s].ref > 0 /\ InUse(p, s)
        /\ loc[p].old \in Slots /\ icache[loc[p].old].ref > 0
    BY <1>1, SlotHeld DEF HoldsS, HoldsOld
  <1>4. loc[p].ret = "idle" /\ loc[p].off \in Entries /\ loc[p].toff \in Entries /\ loc[p].name \in Names
    BY <1>1, <1>2 DEF Good, CacheInv, LocalOK, LocRec
  <1>5. icache' = [icache EXCEPT ![s] = Locked(s)]
    BY SMTT(30) DEF RenameUnlink
  <1>6. KeepSlots /\ icache'[s].valid /\ \A m \in Slots : icache[m].valid => icache'[m].valid
    BY <1>1, <1>3, <1>5, LockKeeps, ZenonT(30)
  <1>7. ~torn => /\ dir[loc[p].off].ino = OldIno(p) /\ dir[loc[p].off].name # loc[p].name
                 /\ dir[loc[p].toff].ino = icache[s].inum /\ dir[loc[p].toff].name = loc[p].name
                 /\ icache[loc[p].old].valid /\ dinode[OldIno(p)].type = "file"
                 /\ \A q \in Procs : handle'[q] # 0 => icache'[handle'[q]].valid
    BY <1>1, <1>6, SlotHeld, ZenonT(30) DEF Good, DiskInv, DiskOK, HoldsOld, Same, MyIno
  <1>8. ~torn => Locked(s).type = dinode[icache[s].inum].type /\ Locked(s).type # "free" /\ icache[s].inum \in Inums
    BY <1>1, <1>3, LockedAgrees, SlotHeld DEF Truncating
  <1>9. CASE Locked(s).type = "dir"
    <2> DEFINE l == [loc[p] EXCEPT !.ret = "ren_put"]
    <2>1. /\ l \in LocRec /\ l.s = s /\ l.ret = "ren_put" /\ l.old = loc[p].old /\ l.off = loc[p].off
          /\ l.name = loc[p].name
      BY <1>2 DEF LocRec
    <2>2. Moves(p, "iput", l) /\ UNCHANGED disk
      BY <1>1, <1>9, TypesAre DEF Moves, Goto, Good, RenameUnlink, disk
    <2> HIDE DEF l
    <2>3. Solo(p)' /\ Resting' /\ pc'[p] = "iput" /\ loc'[p] = l
      BY <1>1, <2>2, MovesIs
    <2>4. LocalOK(p)'
      BY <1>3, <1>4, <2>1, <2>3 DEF LocalOK, HoldsOld
    <2>5. /\ \A m \in Slots : RefS(p, m)' = RefS(p, m) /\ RefOld(p, m)' = RefOld(p, m)
          /\ \A i \in Inums : Owed(p, i)' = Owed(p, i)
          /\ ~Freeing(p) /\ ~Freeing(p)' /\ ~Truncating(p) /\ RootOwed(p)' = RootOwed(p)
      BY <1>1, <2>1, <2>3 DEF RefS, RefOld, HoldsS, HoldsOld, Owed, Freeing, Truncating, RootOwed
    <2>6. OldIno(p)' = OldIno(p)
      BY <1>3, <1>6, <2>1, <2>3 DEF OldIno, KeepSlots
    <2>7. ~torn => DiskOK(p)'
      BY <1>1, <1>3, <1>6, <1>7, <2>1, <2>3, <2>6, SMTT(30) DEF DiskOK, Freeing, Truncating, HoldsOld, PutsTarget
    <2> QED
      BY <1>1, <1>3, <1>5, <2>1, <2>2, <2>4, <2>5, <2>7, LockStep DEF PCs
  <1>10. CASE Locked(s).type # "dir"
    <2> DEFINE l == loc[p]
    <2>1. Moves(p, "ren_count", l) /\ dir' = [dir EXCEPT ![l.toff] = NoEntry]
      BY <1>1, <1>10, TypesAre DEF Moves, Goto, Good, RenameUnlink
    <2>2. Solo(p)' /\ Resting' /\ pc'[p] = "ren_count" /\ loc'[p] = l
      BY <1>1, <2>1, MovesIs
    <2>3. LocalOK(p)'
      BY <1>3, <1>4, <2>2 DEF LocalOK, HoldsOld
    <2>4. /\ \A m \in Slots : RefS(p, m)' + RefOld(p, m)' = RefS(p, m) + RefOld(p, m)
          /\ ~Freeing(p) /\ ~Freeing(p)' /\ ~Truncating(p)
      BY <1>1, <1>4, <2>2 DEF RefS, RefOld, HoldsS, HoldsOld, Freeing, Truncating
    <2>5. ASSUME ~torn PROVE DiskOK(p)' /\ Owes(p, dir[l.toff].ino, -1)
      <3>1. MyIno(p)' = icache[s].inum /\ OldIno(p)' = OldIno(p) /\ MyIno(p) = icache[s].inum
        BY <1>3, <1>6, <2>2 DEF MyIno, OldIno, KeepSlots
      <3>2. dinode[icache[s].inum].type \in Types
        BY <1>1, <1>8, <2>5, TypesAre DEF Good, DinodeType
      <3>3. dinode[icache[s].inum].type = "file"
        BY <1>8, <1>10, <2>5, <3>2 DEF Types
      <3>4. dir \in [Entries -> [name : Names \cup {NoName}, ino : 0 .. NINODES]] /\ NamesOK
        BY <1>1, <2>5, TypesAre DEF Good, DiskInv
      <3>5. dir[l.toff].ino # 0
        BY <1>7, <1>8, <2>5, RangesAre
      <3>7. dir'[l.off] = dir[l.off]
        BY <1>4, <1>7, <2>1, <2>5, <3>4
      <3>8. DiskOK(p)'
        BY <1>1, <1>3, <1>6, <1>7, <2>2, <2>5, <3>1, <3>3, <3>7
           DEF DiskOK, Freeing, Truncating, HoldsOld, PutsTarget
      <3>9. Owes(p, dir[l.toff].ino, -1)
        <4>1. dir[l.toff].ino = icache[s].inum
          BY <1>7, <2>5
        <4>2. \A i \in Inums : Owed(p, i) = 0 /\ Owed(p, i)' = IF icache[s].inum = i THEN 1 ELSE 0
          BY <1>1, <2>2, <3>1 DEF Owed
        <4>3. RootOwed(p) = 0 /\ RootOwed(p)' = 0
          BY <1>1, <2>2 DEF RootOwed
        <4> QED
          <5>1. \A i \in Inums : Owed(p, i)' = Owed(p, i) - (IF i = dir[l.toff].ino THEN -1 ELSE 0)
            BY <4>1, <4>2
          <5>2. dinode[dir[l.toff].ino].type # "dir"
            BY <3>3, <4>1
          <5>3. RootOwed(p)' = RootOwed(p) - (IF dinode[dir[l.toff].ino].type = "dir" THEN -1 ELSE 0)
            <6>1. (IF dinode[dir[l.toff].ino].type = "dir" THEN -1 ELSE 0) = 0
              BY <5>2
            <6>2. RootOwed(p)' = RootOwed(p) - 0
              BY <4>3
            <6> QED
              BY <6>1, <6>2
          <5> QED
            BY <5>1, <5>3 DEF Owes
      <3> QED
        BY <3>8, <3>9
    <2> QED
      BY <1>1, <1>2, <1>3, <1>4, <1>5, <1>7, <2>1, <2>3, <2>4, <2>5, EraseStep, ZenonT(30) DEF PCs
  <1> QED
    BY <1>9, <1>10

LEMMA RenameEraseStep ==
  ASSUME FsInv, NEW p \in Procs, RenameErase(p)
  PROVE  FsInv'
  <1> DEFINE s == loc[p].old
             l == loc[p]
  <1>1. /\ pc[p] = "ren_erase" /\ Good(p) /\ Same /\ UNCHANGED <<dinode, used, rootLink>> /\ icache' = icache
        /\ dir' = [dir EXCEPT ![l.off] = NoEntry]
    BY InCallGood DEF RenameErase, At
  <1>2. loc[p] \in LocRec
    BY <1>1, TypesAre DEF Good
  <1>3. s \in Slots /\ icache[s].ref > 0 /\ l.s \in Slots
    BY <1>1, SlotHeld DEF HoldsOld, Good, CacheInv, LocalOK
  <1>4. l.ret \in {"idle", "ren_link", "ren_put"} /\ l.off \in Entries /\ (l.ret = "ren_link" => l.name \in Names)
    BY <1>1, <1>2 DEF Good, CacheInv, LocalOK, LocRec
  <1>5. Moves(p, "ren_put", l)
    BY <1>1, TypesAre DEF Moves, Goto, Good, RenameErase
  <1>6. Solo(p)' /\ Resting' /\ pc'[p] = "ren_put" /\ loc'[p] = l
    BY <1>1, <1>5, MovesIs
  <1>7. LocalOK(p)'
    BY <1>3, <1>4, <1>6 DEF LocalOK, HoldsOld
  <1>8. /\ \A m \in Slots : RefS(p, m)' + RefOld(p, m)' = RefS(p, m) + RefOld(p, m)
        /\ ~Freeing(p) /\ ~Freeing(p)' /\ ~Truncating(p)
    BY <1>1, <1>6 DEF RefS, RefOld, HoldsS, HoldsOld, Freeing, Truncating
  <1>9. ASSUME ~torn
        PROVE  /\ DiskOK(p)' /\ Owes(p, dir[l.off].ino, -1)
               /\ icache[s].ref > 0 /\ icache[s].inum = dir[l.off].ino
    <2>1. /\ dir[l.off].ino = OldIno(p) /\ icache[s].valid /\ dinode[OldIno(p)].type = "file"
          /\ \A q \in Procs : handle'[q] # 0 => icache'[handle'[q]].valid
      BY <1>1, <1>9 DEF Good, DiskInv, DiskOK, HoldsOld, Same
    <2>2. OldIno(p)' = OldIno(p) /\ OldIno(p) = icache[s].inum
      BY <1>1, <1>6 DEF OldIno
    <2>3. DiskOK(p)'
      BY <1>1, <1>6, <2>1, <2>2 DEF DiskOK, Freeing, Truncating, HoldsOld, PutsTarget
    <2>4. Owes(p, dir[l.off].ino, -1)
      BY <1>1, <1>6, <2>1, <2>2 DEF Owes, Owed, RootOwed
    <2> QED
      BY <1>3, <2>1, <2>2, <2>3, <2>4
  <1> QED
    BY <1>1, <1>2, <1>3, <1>4, <1>5, <1>7, <1>8, <1>9, EraseStep DEF PCs

\* dirlink.
LEMMA LinkStep ==
  ASSUME NEW p \in Procs, Good(p), NEW x \in PCs, NEW l \in LocRec, Moves(p, x, l), x # "idle",
         NEW n \in Names, NEW s \in Slots, icache[s].ref > 0, Link(n, icache[s].inum),
         Same, UNCHANGED <<dinode, used, rootLink, icache>>,
         ~Freeing(p), ~Freeing(p)', ~Truncating(p), pc[p] \notin {"write_update", "mkdir_dots"},
         \A m \in Slots : RefS(p, m)' + RefOld(p, m)' = RefS(p, m) + RefOld(p, m),
         LocalOK(p)',
         ~torn => Found(n) = {} /\ dinode[icache[s].inum].nlink > 0,
         ~torn => Owes(p, icache[s].inum, 1),
         ~torn /\ NamesOK' => DiskOK(p)'
  PROVE  FsInv'
  <1> DEFINE j == icache[s].inum
             o == Least(FreeEntries)
  <1>1. Solo(p)' /\ Resting' /\ pc'[p] = x /\ loc'[p] = l
    BY MovesIs
  <1>2. /\ icache \in [Slots -> SlotRec] /\ InUse(p, s) /\ j \in Inums
        /\ dir \in [Entries -> [name : Names \cup {NoName}, ino : 0 .. NINODES]]
    BY TypesAre, SlotHeld DEF Good
  <1>3. o \in Entries /\ dir[o].ino = 0 /\ dir' = [dir EXCEPT ![o] = [name |-> Cut[n], ino |-> j]]
    <2>1. o \in FreeEntries
      BY LeastIs, RangesAre DEF FreeEntries, Link
    <2> QED
      BY <2>1 DEF FreeEntries, Link
  <1> HIDE DEF o
  <1>4. /\ dir' \in [Entries -> [name : Names \cup {NoName}, ino : 0 .. NINODES]]
        /\ dir'[o].name = Cut[n] /\ dir'[o].ino = j /\ \A q \in Entries : q # o => dir'[q] = dir[q]
        /\ Cut[n] \in Names
    BY <1>2, <1>3, RangesAre, FsAssumption
  <1>5. TypeOK'
    BY <1>4 DEF Good, TypeOK, Moves, Same, SlotRec, LocRec
  <1>6. SlotsOK(p)' /\ \A k \in Slots : InUse(p, k)' <=> InUse(p, k)
    BY SlotsKeep DEF Same, KeepSlots
  <1>7. RefsOK(p)'
    <2>1. \A k \in Slots : /\ icache[k].ref \in Nat
                           /\ RefS(p, k) \in {0, 1} /\ RefOld(p, k) \in {0, 1}
                           /\ RefS(p, k)' \in {0, 1} /\ RefOld(p, k)' \in {0, 1}
      BY <1>2 DEF SlotRec, RefS, RefOld
    <2>2. \A k \in Slots :
            /\ icache'[k].ref \in Nat
            /\ icache'[k].ref + RefS(p, k) + RefOld(p, k) = icache[k].ref + RefS(p, k)' + RefOld(p, k)'
      BY <2>1
    <2> QED
      BY <2>2, RefsKeep DEF Same
  <1>8. DirOK'
    BY <1>2, <1>4, FsAssumption, RangesAre DEF Good, CacheInv, DirOK
  <1>9. ASSUME ~torn PROVE DiskInv(p)' /\ (crashes = 0 => LeakInv(p)')
    <2>1. dinode[j].type # "free"
      BY <1>2, <1>9 DEF Good, DiskInv, CoherentOK
    <2>2. \A i \in Inums : Live(p, i)' <=> Live(p, i)
      BY <1>2, <1>3, <1>4, <1>6, RangesAre DEF Live, Named
    <2>4. \A i \in Inums : Cardinality(NamesOf(i)') = Cardinality(NamesOf(i)) + (IF j = i THEN 1 ELSE 0)
      BY <1>2, <1>3, NamesLink
    <2>5. \A i \in Inums : Cardinality(NamesOf(i)) \in Nat
      BY NamesCount
    <2>6. \A i \in Inums : Owed(p, i) \in Int /\ Owed(p, i)' = Owed(p, i) - (IF i = j THEN 1 ELSE 0)
      BY <1>9 DEF Owes, Owed
    <2>7. \A i \in Inums : /\ Cardinality(NamesOf(i)') + Owed(p, i)' = Cardinality(NamesOf(i)) + Owed(p, i)
                           /\ Cardinality(NamesOf(i)') \in Int
      BY <2>4, <2>5, <2>6
    <2>8. CountsOK(p)'
      BY <1>9, <2>2, <2>7, CountsMove
    <2>9. NamesOK'
      <3>1. \A q \in Entries : Whole(Cut[n]) => dir[q].name # Cut[n]
        BY <1>9 DEF Found, Whole
      <3>2. NamesOK
        BY <1>9 DEF Good, DiskInv
      <3>3. \A q, r \in Entries :
              dir'[q].ino # 0 /\ dir'[q].name = dir'[r].name /\ Whole(dir'[q].name) => q = r
        <4> SUFFICES ASSUME NEW q \in Entries, NEW r \in Entries, dir'[q].ino # 0,
                            dir'[q].name = dir'[r].name, Whole(dir'[q].name), q # r
                     PROVE  FALSE
          OBVIOUS
        <4>1. CASE q = o \/ r = o
          BY <1>4, <3>1, <4>1
        <4>2. CASE q # o /\ r # o
          BY <1>4, <3>2, <4>2 DEF NamesOK
        <4> QED
          BY <4>1, <4>2
      <3>4. \A q \in Entries : dir'[q].ino # 0 =>
              dinode'[dir'[q].ino].type # "free" /\ dinode'[dir'[q].ino].nlink > 0
        BY <1>4, <1>9, <2>1, <3>2 DEF NamesOK
      <3> QED
        BY <3>3, <3>4 DEF NamesOK, Whole
    <2>10. BlocksOK(p)'
      BY <1>9, <2>2 DEF Good, DiskInv, BlocksOK
    <2>11. CoherentOK(p)'
      BY <1>6, <1>9 DEF Good, DiskInv, CoherentOK
    <2>12. ASSUME crashes = 0 PROVE LeakInv(p)'
      <3>1. LeakInv(p)
        BY <2>12 DEF Good
      <3>2. SameTypes
        BY DEF SameTypes
      <3>3. Cardinality(DirNames') = Cardinality(DirNames) + (IF dinode[j].type = "dir" THEN 1 ELSE 0)
        BY <1>2, <1>3, <3>2, DirsLink, ZenonT(30)
      <3>4. Cardinality(DirNames) \in Nat /\ RootOwed(p) \in Int
        BY DirCount DEF RootOwed
      <3>5. RootOwed(p)' = RootOwed(p) - (IF dinode[j].type = "dir" THEN 1 ELSE 0)
        BY <1>9 DEF Owes
      <3>6. rootLink' = 2 + Cardinality(DirNames') + RootOwed(p)'
        BY <3>1, <3>3, <3>4, <3>5 DEF LeakInv
      <3>7. \A i \in Inums : dinode'[i].type = "file" =>
              Live(p, i)' /\ dinode'[i].nlink = Cardinality(NamesOf(i)') + Owed(p, i)'
        BY <2>2, <2>7, <3>1 DEF LeakInv
      <3>8. \A b \in used' : \E i \in Inums : dinode'[i].type # "free" /\ dinode'[i].blk = b
        BY <3>1 DEF LeakInv
      <3> QED
        BY <3>6, <3>7, <3>8 DEF LeakInv
    <2> QED
      BY <1>9, <2>8, <2>9, <2>10, <2>11, <2>12 DEF DiskInv
  <1>10. crashes = 0 => ~torn
    BY DEF Good
  <1>11. Good(p)'
    BY <1>1, <1>5, <1>6, <1>7, <1>8, <1>9, <1>10 DEF Good, CacheInv, Same
  <1> QED
    BY <1>11 DEF FsInv

\* Where the new entry leads.
LEMMA LinkIs ==
  ASSUME NEW p \in Procs, Good(p), NEW n, NEW i, Link(n, i)
  PROVE  /\ Named(i)'
         /\ \A o \in Entries : dir[o].ino # 0 => dir'[o] = dir[o]
  <1>1. Least(FreeEntries) \in FreeEntries
    BY LeastIs, RangesAre DEF FreeEntries, Link
  <1>2. PICK o \in Entries : dir[o].ino = 0 /\ dir' = [dir EXCEPT ![o] = [name |-> Cut[n], ino |-> i]]
    BY <1>1 DEF FreeEntries, Link
  <1>3. DOMAIN dir = Entries
    BY TypesAre DEF Good
  <1> QED
    BY <1>2, <1>3 DEF Named

LEMMA CreateLinkStep ==
  ASSUME FsInv, NEW p \in Procs, CreateLink(p)
  PROVE  FsInv'
  <1> DEFINE s == loc[p].s
             l == loc[p]
  <1>1. /\ pc[p] = "create_link" /\ Good(p) /\ Same /\ UNCHANGED <<dinode, used, rootLink, icache>>
        /\ loc' = loc
    BY InCallGood DEF CreateLink, At
  <1>2. loc[p] \in LocRec
    BY <1>1, TypesAre DEF Good
  <1>3. s \in Slots /\ icache[s].ref > 0 /\ InUse(p, s) /\ icache[s].inum \in Inums
    BY <1>1, SlotHeld DEF HoldsS
  <1>4. l.ret = "idle" /\ l.name \in Names /\ handle[p] = 0
    BY <1>1, <1>2 DEF Good, CacheInv, LocalOK, LocRec
  <1>5. ~torn => /\ Found(l.name) = {} /\ icache[s].valid /\ dinode[icache[s].inum].type = "file"
                 /\ \A q \in Procs : handle[q] # 0 => icache[handle[q]].valid
    BY <1>1 DEF Good, DiskInv, DiskOK, MyIno
  <1>6. CASE Found(l.name) = {}
    <2>1. Moves(p, "open_lock", l) /\ Link(l.name, icache[s].inum)
      BY <1>1, <1>6, TypesAre DEF Moves, Goto, Good, CreateLink
    <2>2. Solo(p)' /\ Resting' /\ pc'[p] = "open_lock" /\ loc'[p] = l
      BY <1>1, <2>1, MovesIs
    <2>3. LocalOK(p)'
      BY <1>1, <1>3, <1>4, <2>2 DEF LocalOK, HoldsOld, Same
    <2>4. /\ \A m \in Slots : RefS(p, m)' + RefOld(p, m)' = RefS(p, m) + RefOld(p, m)
          /\ ~Freeing(p) /\ ~Freeing(p)' /\ ~Truncating(p)
      BY <1>1, <1>4, <2>2 DEF RefS, RefOld, HoldsS, HoldsOld, Freeing, Truncating
    <2>5. MyIno(p) = icache[s].inum
      BY DEF MyIno
    <2>6. ASSUME ~torn PROVE Owes(p, icache[s].inum, 1)
      <3>1. \A i \in Inums : Owed(p, i)' = 0 /\ Owed(p, i) = IF icache[s].inum = i THEN 1 ELSE 0
        BY <1>1, <2>2, <2>5 DEF Owed
      <3>2. RootOwed(p) = 0 /\ RootOwed(p)' = 0
        BY <1>1, <2>2 DEF RootOwed
      <3>3. (IF dinode[icache[s].inum].type = "dir" THEN 1 ELSE 0) = 0
        BY <1>5, <2>6
      <3>4. \A i \in Inums : Owed(p, i)' = Owed(p, i) - (IF i = icache[s].inum THEN 1 ELSE 0)
        BY <3>1
      <3>5. RootOwed(p)' = RootOwed(p) - (IF dinode[icache[s].inum].type = "dir" THEN 1 ELSE 0)
        <4>1. RootOwed(p)' = RootOwed(p) - 0
          BY <3>2
        <4> QED
          BY <3>3, <4>1
      <3> QED
        BY <3>4, <3>5 DEF Owes
    <2>7. ASSUME ~torn PROVE dinode[icache[s].inum].nlink > 0
      <3>1. Live(p, icache[s].inum) /\ Owed(p, icache[s].inum) = 1
        BY <1>1, <1>3, <2>5 DEF Live, Owed
      <3>2. dinode[icache[s].inum].nlink >= Cardinality(NamesOf(icache[s].inum)) + 1
        BY <1>1, <1>3, <1>5, <2>7, <3>1 DEF Good, DiskInv, CountsOK
      <3>3. Cardinality(NamesOf(icache[s].inum)) \in Nat /\ dinode[icache[s].inum].nlink \in Int
        BY <1>1, <1>3, NamesCount, TypesAre DEF Good, DinodeType
      <3> QED
        BY <3>2, <3>3
    <2>8. ASSUME ~torn PROVE DiskOK(p)'
      <3>1. \A q \in Procs : handle'[q] # 0 => icache'[handle'[q]].valid
        BY <1>1, <1>5, <2>8 DEF Same
      <3> QED
        BY <1>1, <1>4, <1>5, <2>2, <2>8, <3>1 DEF DiskOK, Freeing, Truncating, HoldsOld, PutsTarget
    <2> QED
      BY <1>1, <1>2, <1>3, <1>4, <1>6, <2>1, <2>3, <2>4, <2>6, <2>7, <2>8, LinkStep DEF PCs
  <1>7. CASE Found(l.name) # {}
    <2>1. Moves(p, "iput", l) /\ UNCHANGED disk /\ torn
      BY <1>1, <1>5, <1>7, TypesAre DEF Moves, Goto, Good, CreateLink, disk
    <2>2. Solo(p)' /\ Resting' /\ pc'[p] = "iput" /\ loc'[p] = l
      BY <1>1, <2>1, MovesIs
    <2>3. LocalOK(p)'
      BY <1>3, <1>4, <2>2 DEF LocalOK, HoldsOld
    <2>4. /\ \A m \in Slots : RefS(p, m)' + RefOld(p, m)' = RefS(p, m) + RefOld(p, m)
          /\ ~Freeing(p) /\ ~Freeing(p)' /\ ~Truncating(p)
      BY <1>1, <1>4, <2>2 DEF RefS, RefOld, HoldsS, HoldsOld, Freeing, Truncating
    <2> QED
      BY <1>1, <1>2, <1>3, <2>1, <2>3, <2>4, LockStep DEF PCs
  <1> QED
    BY <1>6, <1>7

LEMMA MkdirLinkStep ==
  ASSUME FsInv, NEW p \in Procs, MkdirLink(p)
  PROVE  FsInv'
  <1> DEFINE s == loc[p].s
             l == loc[p]
  <1>1. /\ pc[p] = "mkdir_link" /\ Good(p) /\ Same /\ UNCHANGED <<dinode, used, rootLink, icache>>
        /\ loc' = loc
    BY InCallGood DEF MkdirLink, At
  <1>2. loc[p] \in LocRec
    BY <1>1, TypesAre DEF Good
  <1>3. s \in Slots /\ icache[s].ref > 0 /\ InUse(p, s) /\ icache[s].inum \in Inums
    BY <1>1, SlotHeld DEF HoldsS
  <1>4. l.ret = "idle" /\ l.name \in Names
    BY <1>1, <1>2 DEF Good, CacheInv, LocalOK, LocRec
  <1>5. ~torn => /\ Found(l.name) = {} /\ icache[s].valid /\ dinode[icache[s].inum].type = "dir"
                 /\ \A q \in Procs : handle[q] # 0 => icache[handle[q]].valid
    BY <1>1 DEF Good, DiskInv, DiskOK, MyIno
  <1>8. MyIno(p) = icache[s].inum
    BY DEF MyIno
  <1>6. CASE Found(l.name) = {}
    <2>1. Moves(p, "mkdir_parent", l) /\ Link(l.name, icache[s].inum)
      BY <1>1, <1>6, TypesAre DEF Moves, Goto, Good, MkdirLink
    <2>2. Solo(p)' /\ Resting' /\ pc'[p] = "mkdir_parent" /\ loc'[p] = l
      BY <1>1, <2>1, MovesIs
    <2>3. LocalOK(p)'
      BY <1>1, <1>3, <1>4, <2>2 DEF LocalOK, HoldsOld
    <2>4. /\ \A m \in Slots : RefS(p, m)' + RefOld(p, m)' = RefS(p, m) + RefOld(p, m)
          /\ ~Freeing(p) /\ ~Freeing(p)' /\ ~Truncating(p)
      BY <1>1, <1>4, <2>2 DEF RefS, RefOld, HoldsS, HoldsOld, Freeing, Truncating
    <2>6. ASSUME ~torn PROVE Owes(p, icache[s].inum, 1)
      <3>1. \A i \in Inums : Owed(p, i)' = 0 /\ Owed(p, i) = IF icache[s].inum = i THEN 1 ELSE 0
        BY <1>1, <1>8, <2>2 DEF Owed
      <3>2. RootOwed(p) = 0 /\ RootOwed(p)' = -1
        BY <1>1, <2>2 DEF RootOwed
      <3>3. (IF dinode[icache[s].inum].type = "dir" THEN 1 ELSE 0) = 1
        BY <1>5, <2>6
      <3>4. \A i \in Inums : Owed(p, i)' = Owed(p, i) - (IF i = icache[s].inum THEN 1 ELSE 0)
        BY <3>1
      <3> QED
        BY <3>2, <3>3, <3>4 DEF Owes
    <2>7. ASSUME ~torn PROVE dinode[icache[s].inum].nlink > 0
      <3>1. Live(p, icache[s].inum) /\ Owed(p, icache[s].inum) = 1
        BY <1>1, <1>3, <1>8 DEF Live, Owed
      <3>2. dinode[icache[s].inum].nlink >= 1 + Cardinality(NamesOf(icache[s].inum)) + 1
        BY <1>1, <1>3, <1>5, <2>7, <3>1 DEF Good, DiskInv, CountsOK
      <3>3. Cardinality(NamesOf(icache[s].inum)) \in Nat /\ dinode[icache[s].inum].nlink \in Int
        BY <1>1, <1>3, NamesCount, TypesAre DEF Good, DinodeType
      <3> QED
        BY <3>2, <3>3
    <2>8. ASSUME ~torn PROVE DiskOK(p)'
      <3>1. \A q \in Procs : handle'[q] # 0 => icache'[handle'[q]].valid
        BY <1>1, <1>5, <2>8 DEF Same
      <3>2. MyIno(p)' = icache[s].inum
        BY <1>1 DEF MyIno
      <3> QED
        BY <1>1, <1>4, <1>5, <2>2, <2>8, <3>1, <3>2 DEF DiskOK, Freeing, Truncating, HoldsOld, PutsTarget
    <2> QED
      BY <1>1, <1>2, <1>3, <1>4, <1>6, <2>1, <2>3, <2>4, <2>6, <2>7, <2>8, LinkStep DEF PCs
  <1>7. CASE Found(l.name) # {}
    <2>1. Moves(p, "iput", l) /\ UNCHANGED disk /\ torn
      BY <1>1, <1>5, <1>7, TypesAre DEF Moves, Goto, Good, MkdirLink, disk
    <2>2. Solo(p)' /\ Resting' /\ pc'[p] = "iput" /\ loc'[p] = l
      BY <1>1, <2>1, MovesIs
    <2>3. LocalOK(p)'
      BY <1>3, <1>4, <2>2 DEF LocalOK, HoldsOld
    <2>4. /\ \A m \in Slots : RefS(p, m)' + RefOld(p, m)' = RefS(p, m) + RefOld(p, m)
          /\ ~Freeing(p) /\ ~Freeing(p)' /\ ~Truncating(p)
      BY <1>1, <1>4, <2>2 DEF RefS, RefOld, HoldsS, HoldsOld, Freeing, Truncating
    <2> QED
      BY <1>1, <1>2, <1>3, <2>1, <2>3, <2>4, LockStep DEF PCs
  <1> QED
    BY <1>6, <1>7

LEMMA RenameLinkStep ==
  ASSUME FsInv, NEW p \in Procs, RenameLink(p)
  PROVE  FsInv'
  <1> DEFINE s == loc[p].old
             l == loc[p]
  <1>1. /\ pc[p] = "ren_link" /\ Good(p) /\ Same /\ UNCHANGED <<dinode, used, rootLink, icache>>
        /\ loc' = loc
    BY InCallGood DEF RenameLink, At
  <1>2. loc[p] \in LocRec
    BY <1>1, TypesAre DEF Good
  <1>3. s \in Slots /\ icache[s].ref > 0 /\ InUse(p, s) /\ icache[s].inum \in Inums
    BY <1>1, SlotHeld DEF HoldsOld
  <1>4. l.ret \in {"idle", "ren_link", "ren_put"} /\ l.name \in Names /\ l.off \in Entries /\ l.s \in Slots
    BY <1>1, <1>2 DEF Good, CacheInv, LocalOK, LocRec
  <1>5. ~torn => /\ icache[s].valid /\ dinode[icache[s].inum].type = "file"
                 /\ dir[l.off].ino = icache[s].inum /\ dir[l.off].name # l.name
                 /\ \A q \in Procs : handle[q] # 0 => icache[handle[q]].valid
    BY <1>1 DEF Good, DiskInv, DiskOK, OldIno, HoldsOld
  <1>6. CASE Found(l.name) = {}
    <2>1. Moves(p, "ren_erase", l) /\ Link(l.name, icache[s].inum)
      BY <1>1, <1>6, TypesAre DEF Moves, Goto, Good, RenameLink
    <2>2. Solo(p)' /\ Resting' /\ pc'[p] = "ren_erase" /\ loc'[p] = l
      BY <1>1, <2>1, MovesIs
    <2>3. LocalOK(p)'
      BY <1>3, <1>4, <2>2 DEF LocalOK, HoldsOld
    <2>4. /\ \A m \in Slots : RefS(p, m)' + RefOld(p, m)' = RefS(p, m) + RefOld(p, m)
          /\ ~Freeing(p) /\ ~Freeing(p)' /\ ~Truncating(p)
      BY <1>1, <2>2 DEF RefS, RefOld, HoldsS, HoldsOld, Freeing, Truncating
    <2>5. OldIno(p) = icache[s].inum /\ OldIno(p)' = icache[s].inum
      BY <1>1 DEF OldIno
    <2>6. ASSUME ~torn PROVE Owes(p, icache[s].inum, 1)
      <3>1. \A i \in Inums : Owed(p, i) = 0 /\ Owed(p, i)' = IF icache[s].inum = i THEN -1 ELSE 0
        BY <1>1, <2>2, <2>5 DEF Owed
      <3>2. RootOwed(p) = 0 /\ RootOwed(p)' = 0
        BY <1>1, <2>2 DEF RootOwed
      <3>3. (IF dinode[icache[s].inum].type = "dir" THEN 1 ELSE 0) = 0
        BY <1>5, <2>6
      <3>4. \A i \in Inums : Owed(p, i)' = Owed(p, i) - (IF i = icache[s].inum THEN 1 ELSE 0)
        BY <3>1
      <3>5. RootOwed(p)' = RootOwed(p) - (IF dinode[icache[s].inum].type = "dir" THEN 1 ELSE 0)
        <4>1. RootOwed(p)' = RootOwed(p) - 0
          BY <3>2
        <4> QED
          BY <3>3, <4>1
      <3> QED
        BY <3>4, <3>5 DEF Owes
    <2>7. ASSUME ~torn PROVE dir[l.off].ino # 0 /\ dinode[icache[s].inum].nlink > 0
      BY <1>1, <1>3, <1>4, <1>5, <2>7, RangesAre DEF Good, DiskInv, NamesOK
    <2>8. ASSUME ~torn PROVE DiskOK(p)'
      <3>1. \A q \in Procs : handle'[q] # 0 => icache'[handle'[q]].valid
        BY <1>1, <1>5, <2>8 DEF Same
      <3>2. dir'[l.off] = dir[l.off]
        BY <1>1, <1>4, <2>1, <2>7, <2>8, LinkIs
      <3> QED
        BY <1>1, <1>4, <1>5, <2>2, <2>5, <2>8, <3>1, <3>2 DEF DiskOK, Freeing, Truncating, HoldsOld, PutsTarget
    <2> QED
      BY <1>1, <1>2, <1>3, <1>4, <1>6, <2>1, <2>3, <2>4, <2>6, <2>7, <2>8, LinkStep DEF PCs
  <1>7. CASE Found(l.name) # {}
    <2>1. Moves(p, "ren_put", l) /\ UNCHANGED disk
      BY <1>1, <1>7, TypesAre DEF Moves, Goto, Good, RenameLink, disk
    <2>2. Solo(p)' /\ Resting' /\ pc'[p] = "ren_put" /\ loc'[p] = l
      BY <1>1, <2>1, MovesIs
    <2>3. LocalOK(p)'
      BY <1>3, <1>4, <2>2 DEF LocalOK, HoldsOld
    <2>4. /\ \A m \in Slots : RefS(p, m)' + RefOld(p, m)' = RefS(p, m) + RefOld(p, m)
          /\ ~Freeing(p) /\ ~Freeing(p)' /\ ~Truncating(p)
      BY <1>1, <2>2 DEF RefS, RefOld, HoldsS, HoldsOld, Freeing, Truncating
    <2>5. (\A i \in Inums : Owed(p, i)' = Owed(p, i)) /\ RootOwed(p)' = RootOwed(p)
      BY <1>1, <2>2 DEF Owed, RootOwed
    <2>6. OldIno(p) = icache[s].inum /\ OldIno(p)' = icache[s].inum
      BY <1>1 DEF OldIno
    <2>7. ASSUME ~torn PROVE DiskOK(p)'
      <3>1. \A q \in Procs : handle'[q] # 0 => icache'[handle'[q]].valid
        BY <1>1, <1>5, <2>7 DEF Same
      <3> QED
        BY <1>1, <1>4, <1>5, <2>2, <2>6, <2>7, <3>1 DEF DiskOK, Freeing, Truncating, HoldsOld, PutsTarget
    <2> QED
      BY <1>1, <1>2, <1>3, <2>1, <2>3, <2>4, <2>5, <2>7, LockStep DEF PCs
  <1> QED
    BY <1>6, <1>7

-----------------------------------------------------------------------------
(* Inodes and the bitmap are written. *)

\* A step in which no slot changes hands and no entry changes.
LEMMA SlotStep ==
  ASSUME NEW p \in Procs, Good(p), NEW x \in PCs, NEW l \in LocRec, Moves(p, x, l),
         x = "idle" => l = NoLocals,
         icache' \in [Slots -> SlotRec], KeepSlots,
         dinode' \in [Inums -> DinodeType], used' \subseteq Blocks, rootLink' \in Int, dir' = dir, Same,
         Freeing(p)' <=> Freeing(p), Freeing(p) => l.s = loc[p].s,
         \A m \in Slots : RefS(p, m)' + RefOld(p, m)' = RefS(p, m) + RefOld(p, m),
         LocalOK(p)', ~torn => DiskInv(p)', ~torn /\ crashes = 0 => LeakInv(p)'
  PROVE  FsInv'
  <1>1. Solo(p)' /\ Resting' /\ pc'[p] = x /\ loc'[p] = l
    BY MovesIs
  <1>2. icache \in [Slots -> SlotRec]
    BY TypesAre DEF Good
  <1>3. TypeOK'
    BY DEF Good, TypeOK, Moves, Same, SlotRec, LocRec
  <1>4. SlotsOK(p)'
    BY <1>1, SlotsKeep DEF Same
  <1>5. RefsOK(p)'
    <2>1. \A k \in Slots : /\ icache'[k].ref = icache[k].ref /\ icache[k].ref \in Nat
                           /\ RefS(p, k) \in {0, 1} /\ RefOld(p, k) \in {0, 1}
                           /\ RefS(p, k)' \in {0, 1} /\ RefOld(p, k)' \in {0, 1}
      BY <1>2 DEF KeepSlots, SlotRec, RefS, RefOld
    <2>2. \A k \in Slots :
            /\ icache'[k].ref \in Nat
            /\ icache'[k].ref + RefS(p, k) + RefOld(p, k) = icache[k].ref + RefS(p, k)' + RefOld(p, k)'
      BY <2>1
    <2> QED
      BY <2>2, RefsKeep DEF Same
  <1>6. DirOK'
    BY DEF Good, CacheInv, DirOK
  <1>7. crashes = 0 => ~torn
    BY DEF Good
  <1>8. Good(p)'
    BY <1>1, <1>3, <1>4, <1>5, <1>6, <1>7 DEF Good, CacheInv, Same
  <1> QED
    BY <1>8 DEF FsInv

\* The slot that the call works on is in use, and no other slot has its inode.
LEMMA MySlot ==
  ASSUME NEW p \in Procs, Good(p), pc[p] # "idle", HoldsS(p) \/ Freeing(p) \/ handle[p] = loc[p].s
  PROVE  /\ loc[p].s \in Slots /\ InUse(p, loc[p].s) /\ MyIno(p) \in Inums /\ Live(p, MyIno(p))
         /\ icache[loc[p].s].inum = MyIno(p)
         /\ \A k \in Slots : InUse(p, k) /\ icache[k].inum = MyIno(p) => k = loc[p].s
  <1>1. loc[p].s \in Slots
    BY DEF Good, CacheInv, LocalOK
  <1>2. loc[p].s # 0
    BY <1>1, RangesAre
  <1>3. InUse(p, loc[p].s)
    BY <1>1, <1>2, SlotHeld DEF InUse
  <1> QED
    BY <1>1, <1>3 DEF Good, CacheInv, SlotsOK, MyIno, Live

\* iupdate of the inode that the call works on, whose links and debts balance.
LEMMA UpdateStep ==
  ASSUME NEW p \in Procs, Good(p), NEW x \in PCs, NEW l \in LocRec, Moves(p, x, l),
         x = "idle" => l = NoLocals, x \notin {"write_update", "mkdir_dots"},
         pc[p] # "idle", HoldsS(p) \/ Freeing(p) \/ handle[p] = loc[p].s,
         NEW c \in SlotRec, c.inum = MyIno(p), c.ref = icache[loc[p].s].ref,
         Iupdate(loc[p].s, c), UNCHANGED <<used, dir>>, rootLink' \in Int, Same,
         Freeing(p)' <=> Freeing(p), Freeing(p) => l.s = loc[p].s,
         \A m \in Slots : RefS(p, m)' + RefOld(p, m)' = RefS(p, m) + RefOld(p, m),
         LocalOK(p)',
         ~torn => /\ c.type = dinode[MyIno(p)].type
                  /\ Named(MyIno(p)) => c.nlink > 0
                  /\ \A i \in Inums : IF i = MyIno(p) THEN c.nlink + Owed(p, i) = dinode[i].nlink + Owed(p, i)'
                                                  ELSE Owed(p, i)' = Owed(p, i)
                  /\ rootLink' + RootOwed(p) = rootLink + RootOwed(p)'
                  /\ IF pc[p] \in {"write_update", "mkdir_dots"} THEN c.blk = loc[p].blk
                     ELSE IF Truncating(p) THEN c.blk = 0 ELSE c.blk = dinode[MyIno(p)].blk
                  /\ DiskOK(p)'
  PROVE  FsInv'
  <1> DEFINE s == loc[p].s
             j == MyIno(p)
  <1>1. Solo(p)' /\ Resting' /\ pc'[p] = x /\ loc'[p] = l
    BY MovesIs
  <1>2. /\ s \in Slots /\ InUse(p, s) /\ j \in Inums /\ Live(p, j) /\ icache[s].inum = j
        /\ \A k \in Slots : InUse(p, k) /\ icache[k].inum = j => k = s
    BY MySlot
  <1>3. icache \in [Slots -> SlotRec] /\ dinode \in [Inums -> DinodeType]
    BY TypesAre DEF Good
  <1>4. PICK d \in DinodeType : d.type = c.type /\ d.nlink = c.nlink /\ d.blk = c.blk
                                /\ dinode' = [dinode EXCEPT ![j] = d]
    <2>1. [type |-> c.type, nlink |-> c.nlink, blk |-> c.blk] \in DinodeType
      BY DEF SlotRec, DinodeType
    <2> QED
      BY <2>1 DEF Iupdate
  <1>5. icache' = [icache EXCEPT ![s] = c]
    BY DEF Iupdate
  <1> HIDE DEF s, j
  <1>6. /\ icache' \in [Slots -> SlotRec] /\ KeepSlots /\ icache'[s] = c
        /\ \A k \in Slots : k # s => icache'[k] = icache[k]
    BY <1>2, <1>3, <1>5 DEF KeepSlots, s, j
  <1>7. /\ dinode' \in [Inums -> DinodeType] /\ dinode'[j] = d
        /\ \A i \in Inums : i # j => dinode'[i] = dinode[i]
    BY <1>2, <1>3, <1>4
  <1>8. /\ \A k \in Slots : InUse(p, k)' <=> InUse(p, k)
        /\ \A i \in Inums : Live(p, i)' <=> Live(p, i)
    BY <1>1, <1>6, SlotsKeep DEF Same, s
  <1>9. used' \subseteq Blocks
    BY DEF Good, TypeOK
  <1>10. ASSUME ~torn PROVE DiskInv(p)' /\ (crashes = 0 => LeakInv(p)')
    <2>1. /\ c.type = dinode[j].type /\ c.type # "free"
          /\ Named(j) => c.nlink > 0
          /\ \A i \in Inums : IF i = j THEN c.nlink + Owed(p, i) = dinode[i].nlink + Owed(p, i)'
                                          ELSE Owed(p, i)' = Owed(p, i)
      BY <1>2, <1>10 DEF Good, DiskInv, CoherentOK, j
    <2>2. \A i \in Inums : dinode'[i].type = dinode[i].type
      BY <1>4, <1>7, <2>1
    <2>3. \A i \in Inums : /\ Owed(p, i) \in Int /\ Owed(p, i)' \in Int
                           /\ dinode[i].nlink \in Int /\ dinode'[i].nlink \in Int
                           /\ Cardinality(NamesOf(i)) \in Nat /\ NamesOf(i)' = NamesOf(i)
      <3>1. \A i \in Inums : Owed(p, i) \in Int /\ Owed(p, i)' \in Int
        BY DEF Owed
      <3>2. \A i \in Inums : dinode[i].nlink \in Int /\ dinode'[i].nlink \in Int
        BY <1>3, <1>7 DEF DinodeType
      <3>3. \A i \in Inums : NamesOf(i)' = NamesOf(i)
        BY DEF NamesOf
      <3> QED
        BY <3>1, <3>2, <3>3, NamesCount
    <2>4. ASSUME NEW i \in Inums PROVE dinode'[i].nlink - Owed(p, i)' = dinode[i].nlink - Owed(p, i)
      <3>1. CASE i = j
        BY <1>2, <1>4, <1>7, <2>1, <2>3, <3>1
      <3>2. CASE i # j
        BY <1>7, <2>1, <3>2
      <3> QED
        BY <3>1, <3>2
    <2>5. CountsOK(p)'
      <3>1. ASSUME NEW i \in Inums, Live(p, i)'
            PROVE  /\ dinode'[i].type = "file" => dinode'[i].nlink >= Cardinality(NamesOf(i)') + Owed(p, i)'
                   /\ dinode'[i].type = "dir" => dinode'[i].nlink >= 1 + Cardinality(NamesOf(i)') + Owed(p, i)'
        <4>1. /\ dinode[i].type = "file" => dinode[i].nlink >= Cardinality(NamesOf(i)) + Owed(p, i)
              /\ dinode[i].type = "dir" => dinode[i].nlink >= 1 + Cardinality(NamesOf(i)) + Owed(p, i)
          BY <1>8, <1>10, <3>1 DEF Good, DiskInv, CountsOK
        <4> QED
          BY <2>2, <2>3, <2>4, <4>1
      <3> QED
        BY <3>1 DEF CountsOK
    <2>6. NamesOK'
      <3>1. NamesOK /\ \A o \in Entries : dir[o].ino # 0 => dir[o].ino \in Inums /\ Named(dir[o].ino)
        BY <1>10, TypesAre, RangesAre DEF Good, DiskInv, Named
      <3>2. \A o \in Entries : dir[o].ino # 0 => dinode'[dir[o].ino].nlink > 0
        BY <1>4, <1>7, <2>1, <3>1 DEF NamesOK
      <3> QED
        BY <2>2, <3>1, <3>2 DEF NamesOK
    <2>7. CoherentOK(p)'
      <3>1. CoherentOK(p)
        BY <1>10 DEF Good, DiskInv
      <3>2. ASSUME NEW k \in Slots, InUse(p, k), k # s
            PROVE  LET e == icache'[k]  f == dinode'[icache'[k].inum] IN
                   f.type # "free" /\ (e.valid => e.type = f.type /\ e.nlink = f.nlink /\ e.blk = f.blk)
        <4>1. icache[k].inum \in Inums /\ icache[k].inum # j
          BY <1>2, <3>2 DEF Good, CacheInv, SlotsOK
        <4> QED
          BY <1>6, <1>7, <3>1, <3>2, <4>1 DEF CoherentOK, s
      <3>3. LET e == icache'[s]  f == dinode'[icache'[s].inum] IN
            f.type # "free" /\ e.type = f.type /\ e.nlink = f.nlink /\ e.blk = f.blk
        BY <1>4, <1>6, <1>7, <2>1 DEF j
      <3> QED
        BY <1>8, <3>2, <3>3 DEF CoherentOK
    <2>8. \/ c.blk = 0
          \/ c.blk \in used /\ \A i \in Inums : Live(p, i) /\ i # j => dinode[i].blk # c.blk
      <3>1. BlocksOK(p) /\ DiskOK(p)
        BY <1>10 DEF Good, DiskInv
      <3>2. CASE c.blk = dinode[j].blk /\ ~Truncating(p)
        BY <1>2, <3>1, <3>2 DEF BlocksOK
      <3>3. CASE c.blk = loc[p].blk /\ pc[p] \in {"write_update", "mkdir_dots"}
        BY <3>1, <3>3 DEF DiskOK
      <3> QED
        BY <1>10, <3>2, <3>3 DEF j
    <2>9. BlocksOK(p)'
      <3>1. \A i \in Inums : Live(p, i) /\ dinode[i].blk # 0 =>
              /\ dinode[i].blk \in used \/ i = j
              /\ \A m \in Inums : Live(p, m) /\ dinode[m].blk = dinode[i].blk => m = i
        BY <1>10 DEF Good, DiskInv, BlocksOK, j
      <3> QED
        BY <1>4, <1>7, <1>8, <2>8, <3>1 DEF BlocksOK
    <2>10. ASSUME crashes = 0 PROVE LeakInv(p)'
      <3>1. LeakInv(p)
        BY <2>10 DEF Good
      <3>2. DirNames' = DirNames
        <4>1. \A o \in Entries : dir[o].ino # 0 => dir[o].ino \in Inums
          BY TypesAre, RangesAre DEF Good
        <4> QED
          BY <2>2, <4>1 DEF DirNames
      <3>3. rootLink \in Int /\ RootOwed(p) \in Int /\ RootOwed(p)' \in Int /\ Cardinality(DirNames) \in Nat
        BY DirCount DEF Good, TypeOK, RootOwed
      <3>4. rootLink' + RootOwed(p) = rootLink + RootOwed(p)' /\ rootLink = 2 + Cardinality(DirNames) + RootOwed(p)
        BY <1>10, <3>1 DEF LeakInv
      <3>5. rootLink' = 2 + Cardinality(DirNames') + RootOwed(p)'
        BY <3>2, <3>3, <3>4
      <3>6. \A i \in Inums : dinode'[i].type = "file" =>
              Live(p, i)' /\ dinode'[i].nlink = Cardinality(NamesOf(i)') + Owed(p, i)'
        <4>1. \A i \in Inums : dinode[i].type = "file" =>
                Live(p, i) /\ dinode[i].nlink = Cardinality(NamesOf(i)) + Owed(p, i)
          BY <3>1 DEF LeakInv
        <4> QED
          BY <1>8, <2>2, <2>3, <2>4, <4>1
      <3>7. ASSUME NEW b \in used
            PROVE  \E i \in Inums : dinode'[i].type # "free" /\ dinode'[i].blk = b
        <4>1. b # 0
          BY <1>9, <3>7, RangesAre
        <4>2. CASE \E i \in Inums : dinode[i].type # "free" /\ dinode[i].blk = b
          <5>1. PICK i \in Inums : dinode[i].type # "free" /\ dinode[i].blk = b
            BY <4>2
          <5>2. i = j => c.blk = b
            <6>1. /\ pc[p] \in {"write_update", "mkdir_dots"} => dinode[j].blk = 0
                  /\ Truncating(p) => dinode[j].blk \notin used
              BY <1>10 DEF Good, DiskInv, DiskOK, j
            <6> QED
              BY <1>10, <3>7, <4>1, <5>1, <6>1 DEF j
          <5> QED
            BY <1>4, <1>7, <2>2, <5>1, <5>2
        <4>3. CASE pc[p] \in {"write_update", "mkdir_dots"} /\ loc[p].blk = b
          <5>1. c.blk = b
            BY <1>10, <4>3
          <5> QED
            BY <1>2, <1>4, <1>7, <2>1, <5>1
        <4> QED
          BY <3>1, <3>7, <4>2, <4>3 DEF LeakInv
      <3> QED
        BY <3>5, <3>6, <3>7 DEF LeakInv
    <2> QED
      BY <1>10, <2>5, <2>6, <2>7, <2>9, <2>10 DEF DiskInv
  <1> QED
    BY <1>1, <1>6, <1>7, <1>9, <1>10, SlotStep DEF s

\* What the disk says of the inode that the call works on.
LEMMA MyDisk ==
  ASSUME NEW p \in Procs, Good(p), ~torn, pc[p] # "idle", HoldsS(p) \/ Freeing(p) \/ handle[p] = loc[p].s
  PROVE  LET c == icache[loc[p].s]  d == dinode[MyIno(p)] IN
         /\ d \in DinodeType /\ d.type # "free" /\ (Named(MyIno(p)) => d.nlink > 0)
         /\ c.valid => /\ c.type = d.type /\ (pc[p] # "mkdir_dots" => c.nlink = d.nlink)
                       /\ ~Truncating(p) => c.blk = d.blk
         /\ d.type = "file" => d.nlink >= Cardinality(NamesOf(MyIno(p))) + Owed(p, MyIno(p))
         /\ d.type = "dir" => d.nlink >= 1 + Cardinality(NamesOf(MyIno(p))) + Owed(p, MyIno(p))
         /\ \A q \in Procs : handle[q] # 0 => icache[handle[q]].valid
  <1>1. /\ loc[p].s \in Slots /\ InUse(p, loc[p].s) /\ MyIno(p) \in Inums /\ Live(p, MyIno(p))
        /\ icache[loc[p].s].inum = MyIno(p)
    BY MySlot
  <1>2. NamesOK /\ CoherentOK(p) /\ CountsOK(p) /\ DiskOK(p) /\ dinode \in [Inums -> DinodeType]
    BY TypesAre DEF Good, DiskInv
  <1>3. Named(MyIno(p)) => dinode[MyIno(p)].nlink > 0
    BY <1>1, <1>2, RangesAre DEF Named, NamesOK
  <1>4. \A q \in Procs : handle[q] # 0 => icache[handle[q]].valid
    BY <1>2 DEF DiskOK
  <1>5. LET c == icache[loc[p].s]  d == dinode[MyIno(p)] IN
        /\ d.type # "free"
        /\ c.valid => /\ c.type = d.type /\ (pc[p] # "mkdir_dots" => c.nlink = d.nlink)
                      /\ ~Truncating(p) => c.blk = d.blk
    BY <1>1, <1>2 DEF CoherentOK
  <1> QED
    BY <1>1, <1>2, <1>3, <1>4, <1>5 DEF CountsOK

\* The slot of the call becomes c.
LEMMA SlotIs ==
  ASSUME NEW p \in Procs, Good(p), NEW s \in Slots, NEW c, icache' = [icache EXCEPT ![s] = c],
         c.inum = icache[s].inum
  PROVE  /\ icache'[s] = c /\ \A k \in Slots : icache'[k].inum = icache[k].inum
         /\ \A k \in Slots : k # s => icache'[k] = icache[k]
         /\ c.valid => \A k \in Slots : icache[k].valid => icache'[k].valid
  <1>1. icache \in [Slots -> SlotRec]
    BY TypesAre, SMTT(30) DEF Good
  <1> QED
    BY <1>1, SMTT(30)

LEMMA CreateInitStep ==
  ASSUME FsInv, NEW p \in Procs, CreateInit(p)
  PROVE  FsInv'
  <1> DEFINE s == loc[p].s
             l == loc[p]
             c == [Locked(s) EXCEPT !.nlink = 1]
  <1>1. /\ pc[p] = "create_init" /\ Good(p) /\ Same /\ UNCHANGED <<used, dir, rootLink, loc>>
        /\ Iupdate(s, c) /\ HoldsS(p)
    BY InCallGood DEF CreateInit, At, HoldsS
  <1>2. l \in LocRec /\ icache \in [Slots -> SlotRec] /\ dinode \in [Inums -> DinodeType] /\ rootLink \in Int
    BY <1>1, TypesAre DEF Good, TypeOK
  <1>3. s \in Slots /\ InUse(p, s) /\ MyIno(p) \in Inums /\ icache[s].inum = MyIno(p)
    BY <1>1, MySlot
  <1>4. l.ret = "idle" /\ l.name \in Names /\ handle[p] = 0
    BY <1>1, <1>2 DEF Good, CacheInv, LocalOK, LocRec
  <1>5. Moves(p, "create_link", l)
    BY <1>1, <1>2, TypesAre DEF Moves, Goto, Good, CreateInit
  <1>6. /\ c \in SlotRec /\ c.inum = MyIno(p) /\ c.ref = icache[s].ref /\ c.valid
        /\ c.type = Locked(s).type /\ c.blk = Locked(s).blk /\ c.nlink = 1
    BY <1>2, <1>3, LockedIs DEF SlotRec
  <1>7. icache' = [icache EXCEPT ![s] = c]
    BY <1>1 DEF Iupdate
  <1> HIDE DEF c
  <1>8. Solo(p)' /\ Resting' /\ pc'[p] = "create_link" /\ loc'[p] = l
    BY <1>1, <1>5, MovesIs
  <1>9. LocalOK(p)'
    BY <1>1, <1>3, <1>4, <1>8 DEF LocalOK, HoldsOld, Same
  <1>10. /\ \A m \in Slots : RefS(p, m)' + RefOld(p, m)' = RefS(p, m) + RefOld(p, m)
         /\ ~Freeing(p) /\ ~Freeing(p)' /\ ~Truncating(p) /\ RootOwed(p) = 0 /\ RootOwed(p)' = 0
    BY <1>1, <1>4, <1>8 DEF RefS, RefOld, HoldsS, HoldsOld, Freeing, Truncating, RootOwed
  <1>11. icache'[s] = c /\ MyIno(p)' = MyIno(p) /\ \A k \in Slots : icache[k].valid => icache'[k].valid
    <2>1. c.inum = icache[s].inum
      BY <1>3, <1>6
    <2>2. icache'[s] = c /\ \A k \in Slots : icache[k].valid => icache'[k].valid
      BY <1>1, <1>3, <1>6, <1>7, <2>1, SlotIs
    <2>3. loc'[p].s = s
      BY <1>8
    <2> QED
      BY <1>6, <2>2, <2>3 DEF MyIno
  <1>12. ASSUME ~torn
         PROVE  /\ c.type = dinode[MyIno(p)].type /\ c.blk = dinode[MyIno(p)].blk
                /\ Named(MyIno(p)) => c.nlink > 0
                /\ \A i \in Inums : IF i = MyIno(p) THEN c.nlink + Owed(p, i) = dinode[i].nlink + Owed(p, i)'
                                                ELSE Owed(p, i)' = Owed(p, i)
                /\ rootLink' + RootOwed(p) = rootLink + RootOwed(p)' /\ DiskOK(p)'
    <2>1. /\ dinode[MyIno(p)].type = "file" /\ dinode[MyIno(p)].nlink = 0 /\ Found(l.name) = {}
          /\ \A q \in Procs : handle[q] # 0 => icache[handle[q]].valid
      BY <1>1, <1>12 DEF Good, DiskInv, DiskOK
    <2>2. c.type = dinode[MyIno(p)].type /\ c.blk = dinode[MyIno(p)].blk
      BY <1>1, <1>3, <1>6, <1>10, <1>12, LockedAgrees
    <2>3. \A i \in Inums : Owed(p, i) = 0 /\ Owed(p, i)' = IF MyIno(p) = i THEN 1 ELSE 0
      BY <1>1, <1>8, <1>11 DEF Owed
    <2>4. dinode'[MyIno(p)].type = "file"
      BY <1>1, <1>2, <1>3, <1>6, <2>1, <2>2 DEF Iupdate
    <2>5. DiskOK(p)'
      <3>1. \A q \in Procs : handle'[q] # 0 => icache'[handle'[q]].valid
        BY <1>1, <1>11, <2>1, SlotHeld, SMTT(30) DEF Same
      <3>2. Found(l.name)' = {}
        BY <1>1, <1>8, <2>1, SMTT(30) DEF Found
      <3> QED
        BY <1>4, <1>6, <1>8, <1>11, <2>4, <3>1, <3>2 DEF DiskOK, Freeing, Truncating, HoldsOld, PutsTarget
    <2> QED
      BY <1>1, <1>2, <1>6, <1>10, <2>1, <2>2, <2>3, <2>5
  <1> QED
    BY <1>1, <1>2, <1>5, <1>6, <1>9, <1>10, <1>12, UpdateStep DEF PCs

LEMMA WriteUpdateStep ==
  ASSUME FsInv, NEW p \in Procs, WriteUpdate(p)
  PROVE  FsInv'
  <1> DEFINE s == loc[p].s
             l == NoLocals
             c == [icache[s] EXCEPT !.blk = loc[p].blk]
  <1>1. /\ pc[p] = "write_update" /\ Good(p) /\ Same /\ UNCHANGED <<used, dir, rootLink>>
        /\ Iupdate(s, c)
    BY InCallGood DEF WriteUpdate, At
  <1>2. /\ loc[p] \in LocRec /\ icache \in [Slots -> SlotRec] /\ dinode \in [Inums -> DinodeType]
        /\ rootLink \in Int /\ loc[p].blk \in 0 .. NBLOCKS
    BY <1>1, TypesAre DEF Good, TypeOK, LocRec
  <1>3. handle[p] = s
    BY <1>1 DEF Good, CacheInv, LocalOK
  <1>4. s \in Slots /\ InUse(p, s) /\ MyIno(p) \in Inums /\ icache[s].inum = MyIno(p)
    BY <1>1, <1>3, MySlot
  <1>5. Moves(p, "idle", l) /\ l \in LocRec /\ l.ret = "idle"
    BY <1>1, RangesAre DEF Moves, Goto, Done, Good, WriteUpdate, NoLocals, LocRec
  <1>6. /\ c \in SlotRec /\ c.inum = MyIno(p) /\ c.ref = icache[s].ref /\ c.valid = icache[s].valid
        /\ c.type = icache[s].type /\ c.nlink = icache[s].nlink /\ c.blk = loc[p].blk
    BY <1>2, <1>4 DEF SlotRec
  <1>7. icache' = [icache EXCEPT ![s] = c]
    BY <1>1 DEF Iupdate
  <1> HIDE DEF c, l
  <1>8. Solo(p)' /\ Resting' /\ pc'[p] = "idle" /\ loc'[p] = l
    BY <1>1, <1>5, MovesIs DEF l
  <1>9. LocalOK(p)'
    BY <1>5, <1>8 DEF LocalOK, HoldsOld
  <1>10. /\ \A m \in Slots : RefS(p, m)' + RefOld(p, m)' = RefS(p, m) + RefOld(p, m)
         /\ ~Freeing(p) /\ ~Freeing(p)' /\ RootOwed(p) = 0 /\ RootOwed(p)' = 0
    BY <1>1, <1>8 DEF RefS, RefOld, HoldsS, HoldsOld, Freeing, RootOwed
  <1>11. ASSUME ~torn
         PROVE  /\ c.type = dinode[MyIno(p)].type /\ (Named(MyIno(p)) => c.nlink > 0)
                /\ \A i \in Inums : IF i = MyIno(p) THEN c.nlink + Owed(p, i) = dinode[i].nlink + Owed(p, i)'
                                                ELSE Owed(p, i)' = Owed(p, i)
                /\ rootLink' + RootOwed(p) = rootLink + RootOwed(p)' /\ DiskOK(p)'
    <2>1. c.valid
      BY <1>1, <1>6, <1>11 DEF Good, DiskInv, DiskOK
    <2>2. /\ c.type = dinode[MyIno(p)].type /\ c.nlink = dinode[MyIno(p)].nlink
          /\ Named(MyIno(p)) => c.nlink > 0
          /\ \A q \in Procs : handle[q] # 0 => icache[handle[q]].valid
      BY <1>1, <1>3, <1>6, <1>11, <2>1, MyDisk
    <2>3. \A i \in Inums : Owed(p, i) = 0 /\ Owed(p, i)' = 0
      BY <1>1, <1>8 DEF Owed
    <2>4. DiskOK(p)'
      <3>1. \A k \in Slots : icache[k].valid => icache'[k].valid
        BY <1>1, <1>4, <1>6, <1>7, <2>1, SlotIs
      <3>2. \A q \in Procs : handle'[q] # 0 => icache'[handle'[q]].valid
        BY <1>1, <2>2, <3>1, SlotHeld, SMTT(30) DEF Same
      <3> QED
        BY <1>5, <1>8, <3>2 DEF DiskOK, Freeing, Truncating, HoldsOld, PutsTarget
    <2> QED
      BY <1>1, <1>2, <1>10, <2>2, <2>3, <2>4
  <1> QED
    BY <1>1, <1>2, <1>3, <1>5, <1>6, <1>9, <1>10, <1>11, UpdateStep DEF PCs, l

LEMMA UnlinkCountStep ==
  ASSUME FsInv, NEW p \in Procs, UnlinkCount(p)
  PROVE  FsInv'
  <1> DEFINE s == loc[p].s
             l == loc[p]
             c == [icache[s] EXCEPT !.nlink = icache[s].nlink - 1]
  <1>1. /\ pc[p] = "unlink_count" /\ Good(p) /\ Same /\ UNCHANGED <<used, dir, rootLink, loc>>
        /\ Iupdate(s, c) /\ HoldsS(p)
    BY InCallGood DEF UnlinkCount, At, HoldsS
  <1>2. l \in LocRec /\ icache \in [Slots -> SlotRec] /\ dinode \in [Inums -> DinodeType] /\ rootLink \in Int
    BY <1>1, TypesAre DEF Good, TypeOK
  <1>3. s \in Slots /\ InUse(p, s) /\ MyIno(p) \in Inums /\ icache[s].inum = MyIno(p)
    BY <1>1, MySlot
  <1>4. l.ret = "idle"
    BY <1>1, <1>2 DEF Good, CacheInv, LocalOK, LocRec
  <1>5. Moves(p, "iput", l)
    BY <1>1, <1>2, TypesAre DEF Moves, Goto, Good, UnlinkCount
  <1>6. /\ c \in SlotRec /\ c.inum = MyIno(p) /\ c.ref = icache[s].ref /\ c.valid = icache[s].valid
        /\ c.type = icache[s].type /\ c.blk = icache[s].blk /\ c.nlink = icache[s].nlink - 1
    BY <1>2, <1>3 DEF SlotRec
  <1>7. icache' = [icache EXCEPT ![s] = c]
    BY <1>1 DEF Iupdate
  <1> HIDE DEF c
  <1>8. Solo(p)' /\ Resting' /\ pc'[p] = "iput" /\ loc'[p] = l
    BY <1>1, <1>5, MovesIs
  <1>9. LocalOK(p)'
    BY <1>3, <1>4, <1>8 DEF LocalOK, HoldsOld
  <1>10. /\ \A m \in Slots : RefS(p, m)' + RefOld(p, m)' = RefS(p, m) + RefOld(p, m)
         /\ ~Freeing(p) /\ ~Freeing(p)' /\ ~Truncating(p) /\ RootOwed(p) = 0 /\ RootOwed(p)' = 0
    BY <1>1, <1>4, <1>8 DEF RefS, RefOld, HoldsS, HoldsOld, Freeing, Truncating, RootOwed
  <1>11. ASSUME ~torn
         PROVE  /\ c.type = dinode[MyIno(p)].type /\ c.blk = dinode[MyIno(p)].blk
                /\ Named(MyIno(p)) => c.nlink > 0
                /\ \A i \in Inums : IF i = MyIno(p) THEN c.nlink + Owed(p, i) = dinode[i].nlink + Owed(p, i)'
                                                ELSE Owed(p, i)' = Owed(p, i)
                /\ rootLink' + RootOwed(p) = rootLink + RootOwed(p)' /\ DiskOK(p)'
    <2>1. icache[s].valid
      BY <1>1, <1>11 DEF Good, DiskInv, DiskOK
    <2>2. /\ c.type = dinode[MyIno(p)].type /\ c.blk = dinode[MyIno(p)].blk /\ c.type \in {"file", "dir"}
          /\ icache[s].nlink = dinode[MyIno(p)].nlink /\ dinode[MyIno(p)].nlink \in Int
          /\ c.type = "file" => dinode[MyIno(p)].nlink >= Cardinality(NamesOf(MyIno(p))) + Owed(p, MyIno(p))
          /\ c.type = "dir" => dinode[MyIno(p)].nlink >= 1 + Cardinality(NamesOf(MyIno(p))) + Owed(p, MyIno(p))
          /\ \A q \in Procs : handle[q] # 0 => icache[handle[q]].valid
      BY <1>1, <1>6, <1>10, <1>11, <2>1, MyDisk DEF DinodeType, Types
    <2>3. \A i \in Inums : Owed(p, i)' = 0 /\ Owed(p, i) = IF MyIno(p) = i THEN 1 ELSE 0
      BY <1>1, <1>8 DEF Owed
    <2>4. ASSUME Named(MyIno(p)) PROVE c.nlink > 0
      <3>1. Cardinality(NamesOf(MyIno(p))) \in Nat \ {0} /\ Owed(p, MyIno(p)) = 1
        BY <1>3, <2>3, <2>4, NamesCount
      <3> QED
        BY <1>6, <2>2, <3>1
    <2>5. DiskOK(p)'
      <3>1. icache'[s] = c /\ \A k \in Slots : icache[k].valid => icache'[k].valid
        BY <1>1, <1>3, <1>6, <1>7, <2>1, SlotIs, ZenonT(30)
      <3>2. \A q \in Procs : handle'[q] # 0 => icache'[handle'[q]].valid
        BY <1>1, <2>2, <3>1, SlotHeld, SMTT(30) DEF Same
      <3> QED
        BY <1>4, <1>6, <1>8, <2>1, <3>1, <3>2 DEF DiskOK, Freeing, Truncating, HoldsOld, PutsTarget
    <2> QED
      BY <1>1, <1>2, <1>6, <1>10, <2>2, <2>3, <2>4, <2>5
  <1> QED
    BY <1>1, <1>2, <1>5, <1>6, <1>9, <1>10, <1>11, UpdateStep, ZenonT(30) DEF PCs

LEMMA RenameCountStep ==
  ASSUME FsInv, NEW p \in Procs, RenameCount(p)
  PROVE  FsInv'
  <1> DEFINE s == loc[p].s
             l == [loc[p] EXCEPT !.ret = "ren_link"]
             c == [icache[s] EXCEPT !.nlink = icache[s].nlink - 1]
  <1>1. /\ pc[p] = "ren_count" /\ Good(p) /\ Same /\ UNCHANGED <<used, dir, rootLink>>
        /\ Iupdate(s, c) /\ HoldsS(p) /\ HoldsOld(p)
    BY InCallGood DEF RenameCount, At, HoldsS, HoldsOld
  <1>2. /\ loc[p] \in LocRec /\ icache \in [Slots -> SlotRec] /\ dinode \in [Inums -> DinodeType]
        /\ rootLink \in Int
    BY <1>1, TypesAre DEF Good, TypeOK
  <1>3. /\ s \in Slots /\ InUse(p, s) /\ MyIno(p) \in Inums /\ icache[s].inum = MyIno(p)
        /\ loc[p].old \in Slots
    BY <1>1, MySlot, SlotHeld
  <1>4. /\ l \in LocRec /\ l.s = s /\ l.ret = "ren_link" /\ l.old = loc[p].old /\ l.off = loc[p].off
        /\ l.name = loc[p].name
    BY <1>2 DEF LocRec
  <1>5. Moves(p, "iput", l)
    BY <1>1, <1>2, TypesAre DEF Moves, Goto, Good, RenameCount
  <1>6. /\ c \in SlotRec /\ c.inum = MyIno(p) /\ c.ref = icache[s].ref /\ c.valid = icache[s].valid
        /\ c.type = icache[s].type /\ c.blk = icache[s].blk /\ c.nlink = icache[s].nlink - 1
    BY <1>2, <1>3 DEF SlotRec
  <1>7. icache' = [icache EXCEPT ![s] = c]
    BY <1>1 DEF Iupdate
  <1> HIDE DEF c, l
  <1>8. Solo(p)' /\ Resting' /\ pc'[p] = "iput" /\ loc'[p] = l
    BY <1>1, <1>5, MovesIs
  <1>9. LocalOK(p)'
    BY <1>1, <1>3, <1>4, <1>8 DEF Good, CacheInv, LocalOK, HoldsOld
  <1>10. /\ \A m \in Slots : RefS(p, m)' + RefOld(p, m)' = RefS(p, m) + RefOld(p, m)
         /\ ~Freeing(p) /\ ~Freeing(p)' /\ ~Truncating(p) /\ RootOwed(p) = 0 /\ RootOwed(p)' = 0
    BY <1>1, <1>4, <1>8 DEF RefS, RefOld, HoldsS, HoldsOld, Freeing, Truncating, RootOwed
  <1>11. ASSUME ~torn
         PROVE  /\ c.type = dinode[MyIno(p)].type /\ c.blk = dinode[MyIno(p)].blk
                /\ Named(MyIno(p)) => c.nlink > 0
                /\ \A i \in Inums : IF i = MyIno(p) THEN c.nlink + Owed(p, i) = dinode[i].nlink + Owed(p, i)'
                                                ELSE Owed(p, i)' = Owed(p, i)
                /\ rootLink' + RootOwed(p) = rootLink + RootOwed(p)' /\ DiskOK(p)'
    <2>1. /\ icache[s].valid /\ dinode[MyIno(p)].type = "file"
          /\ icache[loc[p].old].valid /\ dinode[OldIno(p)].type = "file"
          /\ dir[l.off].ino = OldIno(p) /\ dir[l.off].name # l.name
      BY <1>1, <1>4, <1>11 DEF Good, DiskInv, DiskOK
    <2>2. /\ c.type = dinode[MyIno(p)].type /\ c.blk = dinode[MyIno(p)].blk
          /\ icache[s].nlink = dinode[MyIno(p)].nlink /\ dinode[MyIno(p)].nlink \in Int
          /\ dinode[MyIno(p)].nlink >= Cardinality(NamesOf(MyIno(p))) + Owed(p, MyIno(p))
          /\ \A q \in Procs : handle[q] # 0 => icache[handle[q]].valid
      BY <1>1, <1>6, <1>10, <1>11, <2>1, MyDisk DEF DinodeType
    <2>3. \A i \in Inums : Owed(p, i)' = 0 /\ Owed(p, i) = IF MyIno(p) = i THEN 1 ELSE 0
      BY <1>1, <1>8 DEF Owed
    <2>4. ASSUME Named(MyIno(p)) PROVE c.nlink > 0
      <3>1. Cardinality(NamesOf(MyIno(p))) \in Nat \ {0} /\ Owed(p, MyIno(p)) = 1
        BY <1>3, <2>3, <2>4, NamesCount
      <3> QED
        BY <1>6, <2>2, <3>1
    <2>5. DiskOK(p)'
      <3>5. c.inum = icache[s].inum /\ c.valid
        BY <1>3, <1>6, <2>1
      <3>6. /\ icache'[s] = c /\ \A k \in Slots : icache'[k].inum = icache[k].inum
            /\ \A k \in Slots : icache[k].valid => icache'[k].valid
        BY <1>1, <1>3, <1>7, <3>5, SlotIs, ZenonT(30)
      <3>1. /\ icache'[s] = c /\ \A k \in Slots : icache[k].valid => icache'[k].valid
            /\ OldIno(p)' = OldIno(p)
        BY <1>3, <1>4, <1>8, <3>6 DEF OldIno
      <3>2. \A q \in Procs : handle'[q] # 0 => icache'[handle'[q]].valid
        BY <1>1, <2>2, <3>1, SlotHeld DEF Same
      <3>4. dinode'[OldIno(p)].type = "file"
        BY <1>1, <1>2, <1>3, <1>6, <2>1, <2>2, SMTT(30) DEF Iupdate
      <3> QED
        BY <1>1, <1>3, <1>4, <1>6, <1>8, <2>1, <3>1, <3>2, <3>4
           DEF DiskOK, Freeing, Truncating, HoldsOld, PutsTarget
    <2> QED
      BY <1>1, <1>2, <1>6, <1>10, <2>2, <2>3, <2>4, <2>5
  <1> QED
    BY <1>1, <1>2, <1>4, <1>5, <1>6, <1>9, <1>10, <1>11, UpdateStep, ZenonT(30) DEF PCs

LEMMA MkdirDotsStep ==
  ASSUME FsInv, NEW p \in Procs, MkdirDots(p)
  PROVE  FsInv'
  <1> DEFINE s == loc[p].s
             l == loc[p]
             c == [icache[s] EXCEPT !.blk = loc[p].blk]
  <1>1. /\ pc[p] = "mkdir_dots" /\ Good(p) /\ Same /\ UNCHANGED <<used, dir, rootLink, loc>>
        /\ Iupdate(s, c) /\ HoldsS(p)
    BY InCallGood DEF MkdirDots, At, HoldsS
  <1>2. /\ l \in LocRec /\ icache \in [Slots -> SlotRec] /\ dinode \in [Inums -> DinodeType]
        /\ rootLink \in Int /\ loc[p].blk \in 0 .. NBLOCKS
    BY <1>1, TypesAre DEF Good, TypeOK, LocRec
  <1>3. s \in Slots /\ InUse(p, s) /\ MyIno(p) \in Inums /\ icache[s].inum = MyIno(p)
    BY <1>1, MySlot
  <1>4. l.ret = "idle" /\ l.name \in Names
    BY <1>1, <1>2 DEF Good, CacheInv, LocalOK, LocRec
  <1>5. Moves(p, "mkdir_link", l)
    BY <1>1, <1>2, TypesAre DEF Moves, Goto, Good, MkdirDots
  <1>6. /\ c \in SlotRec /\ c.inum = MyIno(p) /\ c.ref = icache[s].ref /\ c.valid = icache[s].valid
        /\ c.type = icache[s].type /\ c.nlink = icache[s].nlink /\ c.blk = loc[p].blk
    BY <1>2, <1>3 DEF SlotRec
  <1>7. icache' = [icache EXCEPT ![s] = c]
    BY <1>1 DEF Iupdate
  <1> HIDE DEF c
  <1>8. Solo(p)' /\ Resting' /\ pc'[p] = "mkdir_link" /\ loc'[p] = l
    BY <1>1, <1>5, MovesIs
  <1>9. LocalOK(p)'
    BY <1>3, <1>4, <1>8 DEF LocalOK, HoldsOld
  <1>10. /\ \A m \in Slots : RefS(p, m)' + RefOld(p, m)' = RefS(p, m) + RefOld(p, m)
         /\ ~Freeing(p) /\ ~Freeing(p)' /\ RootOwed(p) = 0 /\ RootOwed(p)' = 0
    BY <1>1, <1>4, <1>8 DEF RefS, RefOld, HoldsS, HoldsOld, Freeing, RootOwed
  <1>11. ASSUME ~torn
         PROVE  /\ c.type = dinode[MyIno(p)].type
                /\ Named(MyIno(p)) => c.nlink > 0
                /\ \A i \in Inums : IF i = MyIno(p) THEN c.nlink + Owed(p, i) = dinode[i].nlink + Owed(p, i)'
                                                ELSE Owed(p, i)' = Owed(p, i)
                /\ rootLink' + RootOwed(p) = rootLink + RootOwed(p)' /\ DiskOK(p)'
    <2>1. /\ icache[s].valid /\ icache[s].nlink = 2 /\ dinode[MyIno(p)].type = "dir"
          /\ dinode[MyIno(p)].nlink = 0 /\ Found(l.name) = {}
      BY <1>1, <1>11 DEF Good, DiskInv, DiskOK
    <2>2. /\ c.type = dinode[MyIno(p)].type
          /\ \A q \in Procs : handle[q] # 0 => icache[handle[q]].valid
      BY <1>1, <1>6, <1>11, <2>1, MyDisk
    <2>3. icache'[s] = c /\ MyIno(p)' = MyIno(p) /\ \A k \in Slots : icache[k].valid => icache'[k].valid
      <3>1. c.inum = icache[s].inum /\ c.valid
        BY <1>3, <1>6, <2>1
      <3>2. /\ icache'[s] = c /\ \A k \in Slots : icache'[k].inum = icache[k].inum
            /\ \A k \in Slots : icache[k].valid => icache'[k].valid
        BY <1>1, <1>3, <1>7, <3>1, SlotIs
      <3> QED
        BY <1>3, <1>8, <3>2 DEF MyIno
    <2>4. \A i \in Inums : /\ Owed(p, i) = IF MyIno(p) = i THEN -1 ELSE 0
                           /\ Owed(p, i)' = IF MyIno(p) = i THEN 1 ELSE 0
      BY <1>1, <1>8, <2>3 DEF Owed
    <2>5. DiskOK(p)'
      <3>1. \A q \in Procs : handle'[q] # 0 => icache'[handle'[q]].valid
        BY <1>1, <2>2, <2>3, SlotHeld DEF Same
      <3>2. Found(l.name)' = {}
        BY <1>1, <1>8, <2>1 DEF Found
      <3>3. dinode'[MyIno(p)].type = "dir"
        BY <1>1, <1>2, <1>3, <1>6, <2>1, <2>2 DEF Iupdate
      <3> QED
        BY <1>4, <1>6, <1>8, <2>1, <2>3, <3>1, <3>2, <3>3 DEF DiskOK, Freeing, Truncating, HoldsOld, PutsTarget
    <2> QED
      BY <1>1, <1>2, <1>6, <1>10, <2>1, <2>2, <2>4, <2>5
  <1> QED
    BY <1>1, <1>2, <1>5, <1>6, <1>9, <1>10, <1>11, UpdateStep DEF PCs

LEMMA MkdirParentStep ==
  ASSUME FsInv, NEW p \in Procs, MkdirParent(p)
  PROVE  FsInv'
  <1> DEFINE s == loc[p].s
             l == loc[p]
             c == icache[s]
  <1>1. /\ pc[p] = "mkdir_parent" /\ Good(p) /\ Same /\ UNCHANGED <<used, dir, loc>>
        /\ rootLink' = rootLink + 1 /\ Iupdate(s, c) /\ HoldsS(p)
    BY InCallGood DEF MkdirParent, At, HoldsS
  <1>2. l \in LocRec /\ icache \in [Slots -> SlotRec] /\ dinode \in [Inums -> DinodeType] /\ rootLink \in Int
    BY <1>1, TypesAre DEF Good, TypeOK
  <1>3. s \in Slots /\ InUse(p, s) /\ MyIno(p) \in Inums /\ icache[s].inum = MyIno(p)
    BY <1>1, MySlot
  <1>4. l.ret = "idle"
    BY <1>1, <1>2 DEF Good, CacheInv, LocalOK, LocRec
  <1>5. Moves(p, "iput", l)
    BY <1>1, <1>2, TypesAre DEF Moves, Goto, Good, MkdirParent
  <1>6. c \in SlotRec /\ c.inum = MyIno(p)
    BY <1>2, <1>3
  <1>7. icache' = icache
    BY <1>1, <1>2, <1>3 DEF Iupdate
  <1>8. Solo(p)' /\ Resting' /\ pc'[p] = "iput" /\ loc'[p] = l
    BY <1>1, <1>5, MovesIs
  <1>9. LocalOK(p)'
    BY <1>3, <1>4, <1>8 DEF LocalOK, HoldsOld
  <1>10. /\ \A m \in Slots : RefS(p, m)' + RefOld(p, m)' = RefS(p, m) + RefOld(p, m)
         /\ ~Freeing(p) /\ ~Freeing(p)' /\ ~Truncating(p) /\ RootOwed(p) = -1 /\ RootOwed(p)' = 0
    BY <1>1, <1>4, <1>8 DEF RefS, RefOld, HoldsS, HoldsOld, Freeing, Truncating, RootOwed
  <1>11. ASSUME ~torn
         PROVE  /\ c.type = dinode[MyIno(p)].type /\ c.blk = dinode[MyIno(p)].blk
                /\ Named(MyIno(p)) => c.nlink > 0
                /\ \A i \in Inums : IF i = MyIno(p) THEN c.nlink + Owed(p, i) = dinode[i].nlink + Owed(p, i)'
                                                ELSE Owed(p, i)' = Owed(p, i)
                /\ rootLink' + RootOwed(p) = rootLink + RootOwed(p)' /\ DiskOK(p)'
    <2>1. c.valid
      BY <1>1, <1>11 DEF Good, DiskInv, DiskOK
    <2>2. /\ c.type = dinode[MyIno(p)].type /\ c.blk = dinode[MyIno(p)].blk
          /\ c.nlink = dinode[MyIno(p)].nlink /\ (Named(MyIno(p)) => c.nlink > 0)
          /\ \A q \in Procs : handle[q] # 0 => icache[handle[q]].valid
      BY <1>1, <1>10, <1>11, <2>1, MyDisk
    <2>3. \A i \in Inums : Owed(p, i)' = 0 /\ Owed(p, i) = 0
      BY <1>1, <1>8 DEF Owed
    <2>4. DiskOK(p)'
      <3>1. \A q \in Procs : handle'[q] # 0 => icache'[handle'[q]].valid
        BY <1>1, <1>7, <2>2 DEF Same
      <3> QED
        BY <1>4, <1>7, <1>8, <2>1, <3>1 DEF DiskOK, Freeing, Truncating, HoldsOld, PutsTarget
    <2> QED
      BY <1>1, <1>2, <1>10, <2>2, <2>3, <2>4
  <1>12. rootLink' \in Int
    BY <1>1, <1>2
  <1> QED
    BY <1>1, <1>2, <1>5, <1>6, <1>9, <1>10, <1>11, <1>12, UpdateStep DEF PCs

\* itrunc writes the inode; where it goes on depends on who called it.
LEMMA TruncSizeMoves ==
  ASSUME NEW p \in Procs, Good(p), NEW x \in {"idle", "open_done", "free_type"}, NEW l \in LocRec, Moves(p, x, l),
         \/ pc[p] = "free_size" /\ x = "free_type" /\ l = loc[p]
         \/ pc[p] = "trunc_size" /\ x = "open_done" /\ loc[p].ret = "open_done" /\ l = loc[p]
         \/ pc[p] = "trunc_size" /\ x = "idle" /\ loc[p].ret = "idle" /\ l = NoLocals,
         Iupdate(loc[p].s, icache[loc[p].s]), UNCHANGED <<used, dir, rootLink>>, Same
  PROVE  FsInv'
  <1> DEFINE s == loc[p].s
             c == icache[s]
  <1>1. /\ loc[p] \in LocRec /\ icache \in [Slots -> SlotRec] /\ dinode \in [Inums -> DinodeType]
        /\ rootLink \in Int
    BY TypesAre DEF Good, TypeOK
  <1>2. pc[p] # "idle" /\ (HoldsS(p) \/ Freeing(p) \/ handle[p] = s)
    BY DEF Good, CacheInv, LocalOK, HoldsS, Freeing
  <1>3. s \in Slots /\ InUse(p, s) /\ MyIno(p) \in Inums /\ icache[s].inum = MyIno(p)
    BY <1>2, MySlot
  <1>4. c \in SlotRec /\ c.inum = MyIno(p)
    BY <1>1, <1>3
  <1>5. icache' = icache
    BY <1>1, <1>3 DEF Iupdate
  <1>6. x = "idle" => l = NoLocals /\ l.ret = "idle"
    BY DEF NoLocals
  <1>7. Solo(p)' /\ Resting' /\ pc'[p] = x /\ loc'[p] = l
    BY <1>6, MovesIs
  <1>8. LocalOK(p)'
    BY <1>3, <1>6, <1>7 DEF Good, CacheInv, LocalOK, HoldsOld, Same
  <1>9. /\ \A m \in Slots : RefS(p, m)' + RefOld(p, m)' = RefS(p, m) + RefOld(p, m)
        /\ (Freeing(p)' <=> Freeing(p)) /\ (Freeing(p) => l.s = loc[p].s)
        /\ Truncating(p) /\ RootOwed(p) = 0 /\ RootOwed(p)' = 0
    BY <1>6, <1>7 DEF RefS, RefOld, HoldsS, HoldsOld, Freeing, Truncating, RootOwed
  <1>10. ASSUME ~torn
         PROVE  /\ c.type = dinode[MyIno(p)].type /\ c.blk = 0
                /\ Named(MyIno(p)) => c.nlink > 0
                /\ \A i \in Inums : IF i = MyIno(p) THEN c.nlink + Owed(p, i) = dinode[i].nlink + Owed(p, i)'
                                                ELSE Owed(p, i)' = Owed(p, i)
                /\ rootLink' + RootOwed(p) = rootLink + RootOwed(p)' /\ DiskOK(p)'
    <2>1. DiskOK(p)
      BY <1>10 DEF Good, DiskInv
    <2>2. c.valid /\ c.blk = 0
      BY <1>9, <2>1 DEF DiskOK, Truncating
    <2>3. /\ c.type = dinode[MyIno(p)].type /\ c.nlink = dinode[MyIno(p)].nlink
          /\ Named(MyIno(p)) => c.nlink > 0
          /\ \A q \in Procs : handle[q] # 0 => icache[handle[q]].valid
      BY <1>2, <1>9, <1>10, <2>2, MyDisk DEF Truncating
    <2>4. \A i \in Inums : Owed(p, i) = 0 /\ Owed(p, i)' = 0
      BY <1>7 DEF Owed
    <2>5. /\ \A i \in Inums : dinode'[i].type = dinode[i].type
          /\ dinode'[MyIno(p)].blk = 0 /\ dinode'[MyIno(p)].nlink = c.nlink
      BY <1>1, <1>3, <2>2, <2>3 DEF Iupdate
    <2>6. \A q \in Procs : handle'[q] # 0 => icache'[handle'[q]].valid
      BY <1>5, <2>3 DEF Same
    <2>7. DiskOK(p)'
      <3>1. CASE x = "idle"
        BY <1>6, <1>7, <2>6, <3>1 DEF DiskOK, Freeing, Truncating, HoldsOld, PutsTarget
      <3>2. CASE x = "open_done"
        BY <1>5, <1>7, <2>2, <2>6, <3>2 DEF DiskOK, Freeing, Truncating, HoldsOld, PutsTarget
      <3>3. CASE x = "free_type"
        <4>1. pc[p] = "free_size" /\ l = loc[p] /\ MyIno(p)' = MyIno(p) /\ OldIno(p)' = OldIno(p)
          BY <1>5, <1>7, <3>3 DEF MyIno, OldIno
        <4>2. /\ (HoldsOld(p)' <=> HoldsOld(p)) /\ (PutsTarget(p)' <=> PutsTarget(p))
              /\ HoldsOld(p) => OldIno(p) \in Inums
          BY <1>7, <3>3, <4>1, SlotHeld DEF HoldsOld, PutsTarget, OldIno
        <4>3. dinode[MyIno(p)].type = "file" /\ dinode[MyIno(p)].nlink = 0
          BY <2>1, <4>1 DEF DiskOK, Freeing
        <4>4. HoldsOld(p) => icache[l.old].valid /\ dinode[OldIno(p)].type = "file"
          BY <2>1, <4>1 DEF DiskOK
        <4>5. PutsTarget(p) => dir[l.off].ino = OldIno(p) /\ dir[l.off].name # l.name
          BY <2>1, <4>1 DEF DiskOK
        <4>6. Found(l.name)' = Found(l.name)
          BY <1>7, <4>1 DEF Found
        <4>7. dinode'[MyIno(p)].type = "file" /\ dinode'[MyIno(p)].nlink = 0
          BY <1>3, <2>3, <2>5, <4>3
        <4> QED
          BY <1>5, <1>7, <2>2, <2>5, <2>6, <3>3, <4>1, <4>2, <4>4, <4>5, <4>6, <4>7
             DEF DiskOK, Freeing, Truncating
      <3> QED
        BY <3>1, <3>2, <3>3
    <2> QED
      BY <1>1, <1>9, <2>2, <2>3, <2>4, <2>7
  <1>11. pc[p] \notin {"write_update", "mkdir_dots"} /\ x \in PCs /\ x \notin {"write_update", "mkdir_dots"}
    BY DEF PCs
  <1> QED
    BY <1>1, <1>2, <1>4, <1>6, <1>8, <1>9, <1>10, <1>11, UpdateStep

LEMMA TruncSizeStep ==
  ASSUME FsInv, NEW p \in Procs, TruncSize(p)
  PROVE  FsInv'
  <1>1. /\ pc[p] \in {"trunc_size", "free_size"} /\ Good(p) /\ Same /\ UNCHANGED <<used, dir, rootLink>>
        /\ Iupdate(loc[p].s, icache[loc[p].s]) /\ AfterTrunc(p)
    BY InCallGood DEF TruncSize
  <1>2. loc \in [Procs -> LocRec] /\ loc[p] \in LocRec /\ NoLocals \in LocRec
    BY <1>1, TypesAre, RangesAre DEF Good, NoLocals, LocRec
  <1>3. CASE pc[p] = "free_size"
    <2>1. Moves(p, "free_type", loc[p])
      BY <1>1, <1>2, <1>3 DEF AfterTrunc, At, Goto, Moves
    <2> QED
      BY <1>1, <1>2, <1>3, <2>1, TruncSizeMoves
  <1>4. CASE pc[p] = "trunc_size"
    <2>1. loc[p].ret \in {"idle", "open_done"} /\ Resume(p)
      BY <1>1, <1>2, <1>4 DEF Good, CacheInv, LocalOK, LocRec, AfterTrunc, At
    <2>2. CASE loc[p].ret = "idle"
      <3>1. Moves(p, "idle", NoLocals)
        BY <2>1, <2>2 DEF Resume, Done, Goto, Moves
      <3> QED
        BY <1>1, <1>2, <1>4, <2>2, <3>1, TruncSizeMoves
    <2>3. CASE loc[p].ret = "open_done"
      <3>1. Moves(p, "open_done", loc[p])
        BY <1>2, <2>1, <2>3 DEF Resume, Goto, Moves
      <3> QED
        BY <1>1, <1>2, <1>4, <2>3, <3>1, TruncSizeMoves
    <2> QED
      BY <2>1, <2>2, <2>3
  <1> QED
    BY <1>1, <1>3, <1>4

\* balloc of a block for slot s, which becomes c.
LEMMA BallocStep ==
  ASSUME NEW p \in Procs, Good(p), NEW x \in {"write_update", "mkdir_dots"}, NEW l \in LocRec, Moves(p, x, l),
         NEW s \in Slots, icache[s].ref > 0, l.s = s, l.ret = "idle",
         NEW c \in SlotRec, c.inum = icache[s].inum, c.ref = icache[s].ref, c.valid,
         c.type = Locked(s).type, c.blk = Locked(s).blk,
         IF x = "mkdir_dots" THEN c.nlink = 2 ELSE c.nlink = Locked(s).nlink,
         icache' = [icache EXCEPT ![s] = c],
         NEW b, b = Least(FreeBlocks), FreeBlocks # {}, l.blk = b, used' = used \cup {b},
         UNCHANGED <<dinode, dir, rootLink>>, Same,
         ~Freeing(p), ~Truncating(p), pc[p] \notin {"write_update", "mkdir_dots"},
         \A m \in Slots : RefS(p, m)' + RefOld(p, m)' = RefS(p, m) + RefOld(p, m),
         \A i \in Inums : Owed(p, i)' = Owed(p, i), RootOwed(p)' = RootOwed(p),
         b \in Blocks => LocalOK(p)',
         ~torn => /\ dinode[icache[s].inum].blk = 0
                  /\ IF x = "mkdir_dots"
                     THEN /\ dinode[icache[s].inum].type = "dir" /\ dinode[icache[s].inum].nlink = 0
                          /\ Found(l.name) = {}
                     ELSE dinode[icache[s].inum].type = "file"
  PROVE  FsInv'
  <1> DEFINE j == icache[s].inum
  <1>1. Solo(p)' /\ Resting' /\ pc'[p] = x /\ loc'[p] = l
    BY MovesIs
  <1>2. b \in Blocks /\ b \notin used /\ b # 0
    <2>1. b \in FreeBlocks
      BY LeastIs, RangesAre DEF FreeBlocks
    <2> QED
      BY <2>1, RangesAre DEF FreeBlocks
  <1>3. icache \in [Slots -> SlotRec] /\ dinode \in [Inums -> DinodeType]
        /\ used \subseteq Blocks /\ rootLink \in Int
    BY TypesAre DEF Good, TypeOK
  <1>4. j \in Inums /\ InUse(p, s)
    BY SlotHeld
  <1>5. /\ icache' \in [Slots -> SlotRec] /\ KeepSlots /\ icache'[s] = c
        /\ \A k \in Slots : k # s => icache'[k] = icache[k]
    BY <1>3 DEF KeepSlots
  <1>6. ~Freeing(p)' /\ ~Truncating(p)'
    BY <1>1 DEF Freeing, Truncating
  <1>7. /\ \A k \in Slots : InUse(p, k)' <=> InUse(p, k)
        /\ \A i \in Inums : Live(p, i)' <=> Live(p, i)
    BY <1>5, <1>6, SlotsKeep DEF Same
  <1>8. ASSUME ~torn PROVE DiskInv(p)' /\ (crashes = 0 => LeakInv(p)')
    <2>1. NamesOK /\ CoherentOK(p) /\ CountsOK(p) /\ BlocksOK(p) /\ DiskOK(p)
      BY <1>8 DEF Good, DiskInv
    <2>2. NamesOK'
      BY <2>1 DEF NamesOK
    <2>3. \A i : NamesOf(i)' = NamesOf(i)
      BY DEF NamesOf
    <2>4. CountsOK(p)'
      BY <1>7, <2>1, <2>3 DEF CountsOK
    <2>5. CoherentOK(p)'
      <3>1. dinode[j].type # "free" /\ c.type = dinode[j].type /\ c.blk = dinode[j].blk
            /\ (x # "mkdir_dots" => c.nlink = dinode[j].nlink)
        BY <1>4, <1>8, LockedAgrees
      <3>2. ASSUME NEW k \in Slots, InUse(p, k), k # s
            PROVE  LET e == icache'[k]  f == dinode'[icache'[k].inum] IN
                   f.type # "free" /\ (e.valid => e.type = f.type /\ e.nlink = f.nlink /\ e.blk = f.blk)
        BY <1>5, <2>1, <3>2 DEF CoherentOK
      <3>3. LET e == icache'[s]  f == dinode'[icache'[s].inum] IN
            /\ f.type # "free" /\ e.type = f.type /\ e.blk = f.blk
            /\ e.nlink = f.nlink \/ pc'[p] = "mkdir_dots"
        BY <1>1, <1>5, <3>1
      <3> QED
        BY <1>1, <1>7, <3>2, <3>3 DEF CoherentOK
    <2>6. BlocksOK(p)'
      BY <1>7, <2>1 DEF BlocksOK
    <2>7. \A i \in Inums : Live(p, i)' => dinode'[i].blk # b
      BY <1>2, <1>7, <2>1 DEF BlocksOK
    <2>8. DiskOK(p)'
      <3>1. \A q \in Procs : handle'[q] # 0 => icache'[handle'[q]].valid
        BY <1>5, <2>1, SlotHeld DEF DiskOK, Same
      <3>2. MyIno(p)' = j
        BY <1>1, <1>5 DEF MyIno
      <3>4. x = "mkdir_dots" => \A o \in Entries : dir'[o].name # l.name
        BY <1>8 DEF Found
      <3> QED
        BY <1>1, <1>5, <1>6, <1>8, <2>7, <3>1, <3>2, <3>4 DEF DiskOK, Found, HoldsOld, PutsTarget
    <2>9. ASSUME crashes = 0 PROVE LeakInv(p)'
      <3>1. LeakInv(p)
        BY <2>9 DEF Good
      <3>2. DirNames' = DirNames
        BY DEF DirNames
      <3>3. rootLink' = 2 + Cardinality(DirNames') + RootOwed(p)'
        BY <3>1, <3>2 DEF LeakInv
      <3>4. \A i \in Inums : dinode'[i].type = "file" =>
              Live(p, i)' /\ dinode'[i].nlink = Cardinality(NamesOf(i)') + Owed(p, i)'
        BY <1>7, <2>3, <3>1 DEF LeakInv
      <3>5. \A e \in used' : \/ \E i \in Inums : dinode'[i].type # "free" /\ dinode'[i].blk = e
                             \/ pc'[p] \in {"write_update", "mkdir_dots"} /\ loc'[p].blk = e
        BY <1>1, <3>1 DEF LeakInv
      <3> QED
        BY <3>3, <3>4, <3>5 DEF LeakInv
    <2> QED
      BY <2>2, <2>4, <2>5, <2>6, <2>8, <2>9 DEF DiskInv
  <1>9. x \in PCs /\ x # "idle" /\ used' \subseteq Blocks
    BY <1>2, <1>3 DEF PCs
  <1> QED
    BY <1>2, <1>3, <1>5, <1>6, <1>8, <1>9, SlotStep

LEMMA WriteBallocStep ==
  ASSUME FsInv, Excl, NEW p \in Procs, WriteBalloc(p)
  PROVE  FsInv'
  <1> DEFINE s == handle[p]
             b == Least(FreeBlocks)
             l == [NoLocals EXCEPT !.s = s, !.blk = b]
  <1>1. /\ pc[p] = "idle" /\ loc[p] = NoLocals /\ Good(p) /\ Same /\ UNCHANGED <<dinode, dir, rootLink>>
        /\ s # 0 /\ Locked(s).type = "file" /\ Locked(s).blk = 0 /\ FreeBlocks # {} /\ used' = used \cup {b}
        /\ icache' = [icache EXCEPT ![s] = Locked(s)]
    BY EnterGood DEF WriteBalloc
  <1>2. s \in Slots /\ icache[s].ref > 0 /\ InUse(p, s) /\ icache[s].inum \in Inums
    BY <1>1, SlotHeld
  <1>3. b \in Blocks
    <2>1. b \in FreeBlocks
      BY <1>1, LeastIs, RangesAre DEF FreeBlocks
    <2> QED
      BY <2>1 DEF FreeBlocks
  <1>4. Moves(p, "write_update", l)
    BY <1>1, TypesAre DEF Moves, Goto, WriteBalloc, Good
  <1> HIDE DEF b
  <1>5. l \in LocRec /\ l.s = s /\ l.ret = "idle" /\ l.blk = b
    BY <1>2, <1>3, RangesAre DEF LocRec, NoLocals
  <1> HIDE DEF l
  <1>6. Solo(p)' /\ Resting' /\ pc'[p] = "write_update" /\ loc'[p] = l
    BY <1>1, <1>4, MovesIs
  <1>7. Locked(s) \in SlotRec /\ Locked(s).inum = icache[s].inum /\ Locked(s).ref = icache[s].ref /\ Locked(s).valid
    BY <1>1, <1>2, LockedIs, TypesAre DEF Good
  <1>8. LocalOK(p)'
    BY <1>1, <1>2, <1>3, <1>5, <1>6 DEF LocalOK, HoldsOld, Same
  <1>9. /\ \A m \in Slots : RefS(p, m)' + RefOld(p, m)' = RefS(p, m) + RefOld(p, m)
        /\ ~Freeing(p) /\ ~Truncating(p) /\ RootOwed(p)' = RootOwed(p)
        /\ \A i \in Inums : Owed(p, i)' = Owed(p, i)
    BY <1>1, <1>5, <1>6 DEF RefS, RefOld, HoldsS, HoldsOld, Freeing, Truncating, RootOwed, Owed
  <1>10. ~torn => dinode[icache[s].inum].blk = 0 /\ dinode[icache[s].inum].type = "file"
    BY <1>1, <1>2, <1>9, LockedAgrees
  <1> QED
    BY <1>1, <1>2, <1>4, <1>5, <1>7, <1>8, <1>9, <1>10, BallocStep DEF b

LEMMA MkdirBallocStep ==
  ASSUME FsInv, NEW p \in Procs, MkdirBalloc(p)
  PROVE  FsInv'
  <1> DEFINE s == loc[p].s
             b == Least(FreeBlocks)
             l == [loc[p] EXCEPT !.blk = b]
             c == [Locked(s) EXCEPT !.nlink = 2]
  <1>1. /\ pc[p] = "mkdir_balloc" /\ Good(p) /\ Same /\ UNCHANGED <<dinode, dir, rootLink>>
        /\ FreeBlocks # {} /\ used' = used \cup {b} /\ icache' = [icache EXCEPT ![s] = c]
    BY InCallGood DEF MkdirBalloc, At
  <1>2. s \in Slots /\ icache[s].ref > 0 /\ InUse(p, s) /\ icache[s].inum \in Inums
    BY <1>1, SlotHeld DEF HoldsS
  <1>3. b \in Blocks
    <2>1. b \in FreeBlocks
      BY <1>1, LeastIs, RangesAre DEF FreeBlocks
    <2> QED
      BY <2>1 DEF FreeBlocks
  <1>4. Moves(p, "mkdir_dots", l)
    BY <1>1, TypesAre DEF Moves, Goto, MkdirBalloc, Good
  <1> HIDE DEF b
  <1>11. loc[p] \in LocRec /\ loc[p].ret = "idle" /\ loc[p].name \in Names
    <2>1. loc[p] \in LocRec
      BY <1>1, TypesAre DEF Good
    <2> QED
      BY <1>1, <2>1 DEF Good, CacheInv, LocalOK, LocRec
  <1>5. l \in LocRec /\ l.s = s /\ l.ret = "idle" /\ l.blk = b /\ l.name = loc[p].name
    BY <1>3, <1>11, RangesAre DEF LocRec
  <1> HIDE DEF l
  <1>6. Solo(p)' /\ Resting' /\ pc'[p] = "mkdir_dots" /\ loc'[p] = l
    BY <1>1, <1>4, MovesIs
  <1>7. Locked(s) \in SlotRec /\ Locked(s).inum = icache[s].inum /\ Locked(s).ref = icache[s].ref /\ Locked(s).valid
    BY <1>1, <1>2, LockedIs, TypesAre DEF Good
  <1>12. /\ c \in SlotRec /\ c.inum = icache[s].inum /\ c.ref = icache[s].ref /\ c.valid
         /\ c.type = Locked(s).type /\ c.blk = Locked(s).blk /\ c.nlink = 2
    BY <1>7 DEF SlotRec
  <1> HIDE DEF c
  <1>8. LocalOK(p)'
    BY <1>2, <1>3, <1>5, <1>6, <1>11 DEF LocalOK, HoldsOld
  <1>13. MyIno(p) = icache[s].inum /\ MyIno(p)' = icache[s].inum
    BY <1>1, <1>2, <1>5, <1>6, <1>12, SlotIs DEF MyIno
  <1>9. /\ \A m \in Slots : RefS(p, m)' + RefOld(p, m)' = RefS(p, m) + RefOld(p, m)
        /\ ~Freeing(p) /\ ~Truncating(p) /\ RootOwed(p)' = RootOwed(p)
        /\ \A i \in Inums : Owed(p, i)' = Owed(p, i)
    BY <1>1, <1>5, <1>6, <1>13 DEF RefS, RefOld, HoldsS, HoldsOld, Freeing, Truncating, RootOwed, Owed
  <1>10. ~torn => /\ dinode[icache[s].inum].blk = 0 /\ dinode[icache[s].inum].type = "dir"
                  /\ dinode[icache[s].inum].nlink = 0 /\ Found(l.name) = {}
    BY <1>1, <1>5, <1>13 DEF Good, DiskInv, DiskOK
  <1> QED
    BY <1>1, <1>2, <1>4, <1>5, <1>8, <1>9, <1>10, <1>12, BallocStep DEF b

LEMMA BfreeStep ==
  ASSUME FsInv, NEW p \in Procs, Bfree(p)
  PROVE  FsInv'
  <1> DEFINE s == loc[p].s
             l == loc[p]
             j == MyIno(p)
             b == icache[s].blk
             c == [icache[s] EXCEPT !.blk = 0]
             x == IF At(p, "trunc") THEN "trunc_size" ELSE "free_size"
  <1>1. /\ pc[p] \in {"trunc", "free"} /\ Good(p) /\ Same /\ UNCHANGED <<dinode, dir, rootLink, loc>>
        /\ used' = used \ {b}
    BY InCallGood DEF Bfree
  <1>2. /\ l \in LocRec /\ icache \in [Slots -> SlotRec] /\ dinode \in [Inums -> DinodeType]
        /\ rootLink \in Int /\ used \subseteq Blocks
    BY <1>1, TypesAre DEF Good, TypeOK
  <1>3. pc[p] # "idle" /\ (HoldsS(p) \/ Freeing(p) \/ handle[p] = s)
    <2>1. pc[p] = "trunc" => loc[p].ret \in {"idle", "open_done"}
      BY <1>1, <1>2 DEF Good, CacheInv, LocalOK, LocRec
    <2> QED
      BY <1>1, <2>1 DEF Good, CacheInv, LocalOK, HoldsS, Freeing
  <1>4. /\ s \in Slots /\ InUse(p, s) /\ j \in Inums /\ Live(p, j) /\ icache[s].inum = j
        /\ \A k \in Slots : InUse(p, k) /\ icache[k].inum = j => k = s
    BY <1>1, <1>3, MySlot
  <1>5. /\ Moves(p, x, l) /\ x \in {"trunc_size", "free_size"}
        /\ (x = "trunc_size" <=> pc[p] = "trunc") /\ (x = "free_size" <=> pc[p] = "free")
    BY <1>1, TypesAre DEF Moves, Goto, Good, Bfree, At
  <1>6. /\ c \in SlotRec /\ c.inum = j /\ c.ref = icache[s].ref /\ c.valid = icache[s].valid
        /\ c.type = icache[s].type /\ c.nlink = icache[s].nlink /\ c.blk = 0
    BY <1>2, <1>4, RangesAre DEF SlotRec
  <1>7. icache' = [icache EXCEPT ![s] = c]
    BY DEF Bfree
  <1> HIDE DEF c, x, j
  <1>8. Solo(p)' /\ Resting' /\ pc'[p] = x /\ loc'[p] = l
    BY <1>1, <1>5, MovesIs
  <1>9. /\ icache' \in [Slots -> SlotRec] /\ KeepSlots /\ icache'[s] = c
        /\ \A k \in Slots : k # s => icache'[k] = icache[k]
    BY <1>2, <1>4, <1>6, <1>7 DEF KeepSlots
  <1>10. LocalOK(p)'
    BY <1>1, <1>4, <1>5, <1>8 DEF Good, CacheInv, LocalOK, HoldsOld, Same
  <1>11. /\ \A m \in Slots : RefS(p, m)' + RefOld(p, m)' = RefS(p, m) + RefOld(p, m)
         /\ (Freeing(p)' <=> Freeing(p)) /\ ~Truncating(p) /\ Truncating(p)'
         /\ RootOwed(p) = 0 /\ RootOwed(p)' = 0
    BY <1>1, <1>5, <1>8 DEF RefS, RefOld, HoldsS, HoldsOld, Freeing, Truncating, RootOwed
  <1>12. /\ \A k \in Slots : InUse(p, k)' <=> InUse(p, k)
         /\ \A i \in Inums : Live(p, i)' <=> Live(p, i)
    BY <1>1, <1>8, <1>9, <1>11, SlotsKeep DEF Same
  <1>13. \A i \in Inums : Owed(p, i) = 0 /\ Owed(p, i)' = 0
    BY <1>1, <1>5, <1>8 DEF Owed
  <1>14. \A i : NamesOf(i)' = NamesOf(i)
    BY <1>1 DEF NamesOf
  <1>15. ASSUME ~torn PROVE DiskInv(p)'
    <2>1. NamesOK /\ CoherentOK(p) /\ CountsOK(p) /\ BlocksOK(p) /\ DiskOK(p)
      BY <1>1, <1>15 DEF Good, DiskInv
    <2>2. icache[s].valid /\ (pc[p] = "free" => dinode[j].type = "file" /\ dinode[j].nlink = 0)
      BY <1>1, <2>1 DEF DiskOK, Freeing, j
    <2>3. /\ c.type = dinode[j].type /\ c.nlink = dinode[j].nlink /\ b = dinode[j].blk /\ c.type # "free"
          /\ \A q \in Procs : handle[q] # 0 => icache[handle[q]].valid
      BY <1>1, <1>3, <1>6, <1>11, <1>15, <2>2, MyDisk DEF j
    <2>4. NamesOK'
      BY <1>1, <2>1 DEF NamesOK
    <2>5. CountsOK(p)'
      BY <1>1, <1>12, <1>13, <1>14, <2>1 DEF CountsOK
    <2>6. CoherentOK(p)'
      <3>1. ASSUME NEW k \in Slots, InUse(p, k), k # s
            PROVE  LET e == icache'[k]  f == dinode'[icache'[k].inum] IN
                   f.type # "free" /\ (e.valid => e.type = f.type /\ e.nlink = f.nlink /\ e.blk = f.blk)
        BY <1>1, <1>9, <2>1, <3>1 DEF CoherentOK
      <3>2. LET e == icache'[s]  f == dinode'[icache'[s].inum] IN
            f.type # "free" /\ e.type = f.type /\ e.nlink = f.nlink
        BY <1>1, <1>6, <1>9, <2>3
      <3> QED
        BY <1>1, <1>11, <1>12, <3>1, <3>2 DEF CoherentOK
    <2>7. loc[p].old \in Slots => OldIno(p)' = OldIno(p)
      BY <1>1, <1>9 DEF OldIno, KeepSlots
    <2>8. MyIno(p)' = j
      BY <1>1, <1>6, <1>9 DEF MyIno
    <2>9. BlocksOK(p)'
      BY <1>1, <1>4, <1>11, <1>12, <2>1, <2>3, <2>8 DEF BlocksOK
    <2>10. DiskOK(p)'
      <3>1. \A k \in Slots : icache[k].valid => icache'[k].valid
        BY <1>6, <1>9, <2>2
      <3>2. \A q \in Procs : handle'[q] # 0 => icache'[handle'[q]].valid
        BY <1>1, <2>3, <3>1, SlotHeld DEF Same
      <3>3. icache'[s].valid /\ icache'[s].blk = 0 /\ dinode'[j].blk \notin used'
        BY <1>1, <1>4, <1>6, <1>9, <2>3, <3>1, <2>2
      <3>4. CASE x = "trunc_size"
        <4>1. l.ret \in {"idle", "open_done"}
          BY <1>1, <1>2, <1>5, <3>4 DEF Good, CacheInv, LocalOK, LocRec
        <4> QED
          BY <1>8, <2>8, <3>2, <3>3, <3>4, <4>1 DEF DiskOK, Freeing, Truncating, HoldsOld, PutsTarget
      <3>5. CASE x = "free_size"
        <4>1. pc[p] = "free" /\ dinode'[j].type = "file" /\ dinode'[j].nlink = 0
          BY <1>1, <1>5, <2>2, <3>5
        <4>2. /\ (HoldsOld(p)' <=> HoldsOld(p)) /\ (PutsTarget(p)' <=> PutsTarget(p))
          BY <1>8, <3>5, <4>1 DEF HoldsOld, PutsTarget
        <4>3. HoldsOld(p) => /\ icache'[l.old].valid /\ dinode'[OldIno(p)].type = "file"
                             /\ OldIno(p)' = OldIno(p)
          BY <1>1, <2>1, <2>7, <3>1, SlotHeld DEF DiskOK
        <4>4. PutsTarget(p) => dir[l.off].ino = OldIno(p) /\ dir[l.off].name # l.name
          BY <2>1 DEF DiskOK
        <4>5. Found(l.name)' = Found(l.name) /\ (PutsTarget(p) => HoldsOld(p))
          BY <1>1 DEF Found, PutsTarget, HoldsOld
        <4> QED
          BY <1>1, <1>8, <2>8, <3>2, <3>3, <3>5, <4>1, <4>2, <4>3, <4>4, <4>5 DEF DiskOK, Freeing, Truncating
      <3> QED
        BY <1>5, <3>4, <3>5
    <2> QED
      BY <2>4, <2>5, <2>6, <2>9, <2>10 DEF DiskInv
  <1>16. ASSUME ~torn, crashes = 0 PROVE LeakInv(p)'
    <2>1. LeakInv(p)
      BY <1>1, <1>16 DEF Good
    <2>2. DirNames' = DirNames
      BY <1>1 DEF DirNames
    <2>3. rootLink' = 2 + Cardinality(DirNames') + RootOwed(p)'
      BY <1>1, <1>11, <2>1, <2>2 DEF LeakInv
    <2>4. \A i \in Inums : dinode'[i].type = "file" =>
            Live(p, i)' /\ dinode'[i].nlink = Cardinality(NamesOf(i)') + Owed(p, i)'
      BY <1>1, <1>12, <1>13, <1>14, <2>1 DEF LeakInv
    <2>5. \A e \in used' : \E i \in Inums : dinode'[i].type # "free" /\ dinode'[i].blk = e
      BY <1>1, <2>1 DEF LeakInv
    <2> QED
      BY <2>3, <2>4, <2>5 DEF LeakInv
  <1>17. x \in PCs /\ x # "idle" /\ used' \subseteq Blocks
    BY <1>1, <1>2, <1>5 DEF PCs
  <1> QED
    BY <1>1, <1>2, <1>5, <1>9, <1>10, <1>11, <1>15, <1>16, <1>17, SlotStep

LEMMA UnlinkParentStep ==
  ASSUME FsInv, NEW p \in Procs, UnlinkParent(p)
  PROVE  FsInv'
  <1> DEFINE s == loc[p].s
             l == loc[p]
  <1>1. /\ pc[p] = "unlink_parent" /\ Good(p) /\ Same /\ UNCHANGED <<dinode, used, dir, icache, loc>>
        /\ rootLink' = rootLink - 1
    BY InCallGood DEF UnlinkParent, At
  <1>2. /\ l \in LocRec /\ icache \in [Slots -> SlotRec] /\ dinode \in [Inums -> DinodeType]
        /\ rootLink \in Int /\ used \subseteq Blocks
    BY <1>1, TypesAre DEF Good, TypeOK
  <1>3. s \in Slots /\ l.ret = "idle"
    BY <1>1, <1>2 DEF Good, CacheInv, LocalOK, LocRec
  <1>4. Moves(p, "unlink_count", l)
    BY <1>1, <1>2, TypesAre DEF Moves, Goto, Good, UnlinkParent
  <1>5. Solo(p)' /\ Resting' /\ pc'[p] = "unlink_count" /\ loc'[p] = l
    BY <1>1, <1>4, MovesIs
  <1>6. LocalOK(p)'
    BY <1>3, <1>5 DEF LocalOK, HoldsOld
  <1>7. MyIno(p)' = MyIno(p)
    BY <1>1 DEF MyIno
  <1>8. /\ \A m \in Slots : RefS(p, m)' + RefOld(p, m)' = RefS(p, m) + RefOld(p, m)
        /\ ~Freeing(p) /\ ~Freeing(p)' /\ ~Truncating(p) /\ ~Truncating(p)'
        /\ RootOwed(p) = 1 /\ RootOwed(p)' = 0
    BY <1>1, <1>3, <1>5 DEF RefS, RefOld, HoldsS, HoldsOld, Freeing, Truncating, RootOwed
  <1>9. \A i \in Inums : Owed(p, i)' = Owed(p, i)
    BY <1>1, <1>5, <1>7 DEF Owed
  <1>10. KeepSlots
    BY <1>1 DEF KeepSlots
  <1>11. /\ \A k \in Slots : InUse(p, k)' <=> InUse(p, k)
         /\ \A i \in Inums : Live(p, i)' <=> Live(p, i)
    BY <1>1, <1>8, <1>10, SlotsKeep DEF Same
  <1>12. \A i : NamesOf(i)' = NamesOf(i)
    BY <1>1 DEF NamesOf
  <1>13. ASSUME ~torn PROVE DiskInv(p)'
    <2>1. NamesOK /\ CoherentOK(p) /\ CountsOK(p) /\ BlocksOK(p) /\ DiskOK(p)
      BY <1>1, <1>13 DEF Good, DiskInv
    <2>2. NamesOK'
      BY <1>1, <2>1 DEF NamesOK
    <2>3. CountsOK(p)'
      BY <1>1, <1>9, <1>11, <1>12, <2>1 DEF CountsOK
    <2>4. CoherentOK(p)'
      BY <1>1, <1>8, <1>11, <2>1 DEF CoherentOK
    <2>5. BlocksOK(p)'
      BY <1>1, <1>8, <1>11, <2>1 DEF BlocksOK
    <2>6. icache'[s].valid /\ \A q \in Procs : handle'[q] # 0 => icache'[handle'[q]].valid
      BY <1>1, <2>1 DEF DiskOK, Same
    <2>7. DiskOK(p)'
      BY <1>3, <1>5, <1>8, <2>6 DEF DiskOK, HoldsOld, PutsTarget
    <2> QED
      BY <2>2, <2>3, <2>4, <2>5, <2>7 DEF DiskInv
  <1>14. ASSUME ~torn, crashes = 0 PROVE LeakInv(p)'
    <2>1. LeakInv(p) /\ Cardinality(DirNames) \in Nat
      BY <1>1, <1>14, DirCount DEF Good
    <2>2. DirNames' = DirNames
      BY <1>1 DEF DirNames
    <2>3. rootLink' = 2 + Cardinality(DirNames') + RootOwed(p)'
      BY <1>1, <1>2, <1>8, <2>1, <2>2 DEF LeakInv
    <2>4. \A i \in Inums : dinode'[i].type = "file" =>
            Live(p, i)' /\ dinode'[i].nlink = Cardinality(NamesOf(i)') + Owed(p, i)'
      BY <1>1, <1>9, <1>11, <1>12, <2>1 DEF LeakInv
    <2>5. \A e \in used' : \E i \in Inums : dinode'[i].type # "free" /\ dinode'[i].blk = e
      BY <1>1, <2>1 DEF LeakInv
    <2> QED
      BY <2>3, <2>4, <2>5 DEF LeakInv
  <1>15. rootLink' \in Int
    BY <1>1, <1>2
  <1> QED
    BY <1>1, <1>2, <1>4, <1>6, <1>8, <1>10, <1>13, <1>14, <1>15, SlotStep DEF PCs

-----------------------------------------------------------------------------
(* iput. *)

\* The last reference to an inode without links: its slot stays in use until it is freed.
LEMMA IputFree ==
  ASSUME NEW p \in Procs, Good(p), pc[p] = "iput", NEW c \in SlotRec,
         c = [icache[loc[p].s] EXCEPT !.ref = icache[loc[p].s].ref - 1], LastOfUnlinked(c),
         icache' = [icache EXCEPT ![loc[p].s] = c], Moves(p, "free", loc[p]),
         UNCHANGED disk, Same
  PROVE  FsInv'
  <1> DEFINE s == loc[p].s
             j == MyIno(p)
  <1>1. /\ loc[p] \in LocRec /\ icache \in [Slots -> SlotRec] /\ HoldsS(p)
        /\ dinode \in [Inums -> DinodeType]
    BY TypesAre DEF Good, HoldsS
  <1>2. /\ s \in Slots /\ icache[s].ref > 0 /\ icache[s].ref \in Nat /\ InUse(p, s)
        /\ j \in Inums /\ icache[s].inum = j /\ Live(p, j)
    BY <1>1, SlotHeld, MySlot
  <1>3. /\ c.inum = j /\ c.ref = icache[s].ref - 1 /\ c.valid = icache[s].valid
        /\ c.type = icache[s].type /\ c.nlink = icache[s].nlink /\ c.blk = icache[s].blk
    <2>1. icache[s] \in SlotRec
      BY <1>1, <1>2
    <2> QED
      BY <1>2, <2>1 DEF SlotRec
  <1>4. c.ref = 0 /\ c.valid /\ c.nlink = 0
    BY DEF LastOfUnlinked
  <1>5. /\ icache' \in [Slots -> SlotRec] /\ icache'[s] = c
        /\ \A k \in Slots : k # s => icache'[k] = icache[k]
        /\ \A k \in Slots : icache'[k].inum = icache[k].inum
    BY <1>1, <1>2, <1>3
  <1>6. Solo(p)' /\ Resting' /\ pc'[p] = "free" /\ loc'[p] = loc[p]
    BY MovesIs
  <1>7. Freeing(p)' /\ ~Freeing(p) /\ ~Truncating(p) /\ ~Truncating(p)' /\ RootOwed(p)' = RootOwed(p)
    BY <1>6 DEF Freeing, Truncating, RootOwed
  <1>8. \A k \in Slots : InUse(p, k)' <=> InUse(p, k)
    BY <1>2, <1>5, <1>6, <1>7 DEF InUse
  <1>9. \A i \in Inums : (Live(p, i)' <=> Live(p, i)) /\ Owed(p, i)' = 0 /\ Owed(p, i) = 0
    BY <1>5, <1>6, <1>8 DEF Live, Named, Owed, disk
  <1>10. TypeOK'
    <2>1. "free" \in PCs
      BY DEF PCs
    <2> QED
      BY <1>1, <1>5, <2>1 DEF Good, TypeOK, Moves, Same, disk, SlotRec, LocRec
  <1>11. SlotsOK(p)'
    <2>1. SlotsOK(p)
      BY DEF Good, CacheInv
    <2>2. \A q \in Procs : handle'[q] # 0 => opened'[q] = icache'[handle'[q]].inum
      BY <1>5, <2>1, SlotHeld DEF SlotsOK, Same
    <2> QED
      BY <1>4, <1>5, <1>6, <1>8, <2>1, <2>2 DEF SlotsOK
  <1>12. RefsOK(p)'
    <2>1. \A k \in Slots : /\ RefS(p, k)' = 0 /\ RefS(p, k) = IF k = s THEN 1 ELSE 0
                           /\ RefOld(p, k)' = RefOld(p, k) /\ RefOld(p, k) \in {0, 1}
      BY <1>1, <1>6 DEF RefS, RefOld, HoldsS, HoldsOld
    <2>2. \A k \in Slots : icache[k].ref \in Nat /\ icache'[k].ref \in Nat
      BY <1>1, <1>5 DEF SlotRec
    <2>3. \A k \in Slots : icache'[k].ref = icache[k].ref - (IF k = s THEN 1 ELSE 0)
      BY <1>3, <1>5, <2>2
    <2>4. \A k \in Slots :
            /\ icache'[k].ref \in Nat
            /\ icache'[k].ref + RefS(p, k) + RefOld(p, k) = icache[k].ref + RefS(p, k)' + RefOld(p, k)'
      BY <2>1, <2>2, <2>3
    <2> QED
      BY <2>4, RefsKeep DEF Same
  <1>13. LocalOK(p)'
    BY <1>2, <1>6 DEF Good, CacheInv, LocalOK, HoldsOld, Same
  <1>14. DirOK'
    BY DEF Good, CacheInv, DirOK, disk
  <1>15. ASSUME ~torn PROVE DiskInv(p)'
    <2>1. NamesOK' /\ CountsOK(p)' /\ BlocksOK(p)'
      BY <1>7, <1>9, <1>15, DiskKeep
    <2>2. CoherentOK(p) /\ DiskOK(p)
      BY <1>15, SMTT(30) DEF Good, DiskInv
    <2>3. CoherentOK(p)'
      BY <1>2, <1>3, <1>5, <1>7, <1>8, <2>2 DEF CoherentOK, disk
    <2>4. /\ dinode[j].type # "free" /\ dinode[j].nlink = 0 /\ dinode[j].type \in Types
          /\ dinode[j].type = "dir" => dinode[j].nlink >= 1 + Cardinality(NamesOf(j)) + Owed(p, j)
          /\ \A q \in Procs : handle[q] # 0 => icache[handle[q]].valid
      BY <1>1, <1>3, <1>4, <1>7, <1>15, MyDisk DEF DinodeType
    <2>5. dinode[j].type = "file"
      <3>1. Cardinality(NamesOf(j)) \in Nat /\ Owed(p, j) = 0
        BY <1>2, <1>9, NamesCount
      <3> QED
        BY <2>4, <3>1 DEF Types
    <2>6. DiskOK(p)'
      <3>1. \A k \in Slots : icache[k].valid => icache'[k].valid
        BY <1>3, <1>5
      <3>2. \A q \in Procs : handle'[q] # 0 => icache'[handle'[q]].valid
        BY <2>4, <3>1, SlotHeld DEF Same
      <3>3. MyIno(p)' = j /\ (HoldsOld(p) => OldIno(p)' = OldIno(p))
        BY <1>2, <1>5, <1>6, SlotHeld DEF MyIno, OldIno
      <3>4. (HoldsOld(p)' <=> HoldsOld(p)) /\ (PutsTarget(p)' <=> PutsTarget(p))
            /\ (PutsTarget(p) => HoldsOld(p))
        BY <1>6 DEF HoldsOld, PutsTarget
      <3>5. HoldsOld(p) => icache'[loc[p].old].valid /\ dinode[OldIno(p)].type = "file"
        BY <2>2, <3>1, SlotHeld DEF DiskOK
      <3>6. PutsTarget(p) => /\ dir[loc[p].off].ino = OldIno(p)
                             /\ dir[loc[p].off].name # loc[p].name
        BY <2>2 DEF DiskOK
      <3>7. Found(loc[p].name)' = Found(loc[p].name)
        BY <1>6 DEF Found, disk
      <3> QED
        BY <1>4, <1>5, <1>6, <1>7, <2>4, <2>5, <3>2, <3>3, <3>4, <3>5, <3>6, <3>7 DEF DiskOK, disk
    <2> QED
      BY <2>1, <2>3, <2>6 DEF DiskInv
  <1>16. ASSUME crashes = 0 PROVE LeakInv(p)'
    BY <1>7, <1>9, <1>16, LeakKeep
  <1>17. Good(p)'
    BY <1>6, <1>10, <1>11, <1>12, <1>13, <1>14, <1>15, <1>16 DEF Good, CacheInv, Same
  <1> QED
    BY <1>17 DEF FsInv

\* Where iput goes on.
Resumes(p, x, l) ==
  /\ x = loc[p].ret /\ x \in {"idle", "ren_link", "ren_put"}
  /\ l = IF x = "idle" THEN NoLocals ELSE loc[p]
  /\ Moves(p, x, l)

LEMMA ResumeIs ==
  ASSUME NEW p \in Procs, Good(p), pc[p] \in {"iput", "free_type"}, Resume(p)
  PROVE  \E x \in PCs, l \in LocRec : Resumes(p, x, l)
  <1>1. loc \in [Procs -> LocRec] /\ loc[p] \in LocRec /\ NoLocals \in LocRec
    BY TypesAre, RangesAre DEF Good, NoLocals, LocRec
  <1>2. loc[p].ret \in {"idle", "ren_link", "ren_put"} /\ loc[p].ret \in PCs
    BY <1>1 DEF Good, CacheInv, LocalOK, LocRec, PCs
  <1>3. CASE loc[p].ret = "idle"
    <2>1. Resumes(p, "idle", NoLocals)
      BY <1>3 DEF Resume, Done, Goto, Resumes, Moves
    <2> QED
      BY <1>1, <1>2, <1>3, <2>1
  <1>4. CASE loc[p].ret # "idle"
    <2>1. Resumes(p, loc[p].ret, loc[p])
      BY <1>1, <1>2, <1>4 DEF Resume, Goto, Resumes, Moves
    <2> QED
      BY <1>1, <1>2, <2>1
  <1> QED
    BY <1>3, <1>4

\* A reference less, with the inode still linked or referenced by others.
LEMMA IputDrop ==
  ASSUME NEW p \in Procs, Good(p), pc[p] = "iput",
         NEW c \in SlotRec, c = [icache[loc[p].s] EXCEPT !.ref = icache[loc[p].s].ref - 1],
         ~LastOfUnlinked(c), icache' = [icache EXCEPT ![loc[p].s] = Dropped(c)],
         NEW x \in PCs, NEW l \in LocRec, Resumes(p, x, l),
         UNCHANGED disk, Same
  PROVE  FsInv'
  <1> DEFINE s == loc[p].s
             j == MyIno(p)
             e == Dropped(c)
  <1>1. /\ loc[p] \in LocRec /\ icache \in [Slots -> SlotRec] /\ HoldsS(p)
        /\ dinode \in [Inums -> DinodeType]
    BY TypesAre DEF Good, HoldsS
  <1>2. /\ s \in Slots /\ icache[s].ref > 0 /\ icache[s].ref \in Nat /\ InUse(p, s)
        /\ j \in Inums /\ icache[s].inum = j /\ Live(p, j)
    BY <1>1, SlotHeld, MySlot
  <1>3. /\ c.inum = j /\ c.ref = icache[s].ref - 1 /\ c.valid = icache[s].valid
        /\ c.type = icache[s].type /\ c.nlink = icache[s].nlink /\ c.blk = icache[s].blk
    <2>1. icache[s] \in SlotRec
      BY <1>1, <1>2
    <2> QED
      BY <1>2, <2>1 DEF SlotRec
  <1>4. e \in SlotRec /\ e.inum = j /\ e.ref = icache[s].ref - 1 /\ (c.ref # 0 => e = c)
    BY <1>3 DEF Dropped, SlotRec
  <1> HIDE DEF e
  <1>5. /\ icache' \in [Slots -> SlotRec] /\ icache'[s] = e
        /\ \A k \in Slots : k # s => icache'[k] = icache[k]
        /\ \A k \in Slots : icache'[k].inum = icache[k].inum
    BY <1>1, <1>2, <1>4 DEF e
  <1>6. /\ x = loc[p].ret /\ x \in {"idle", "ren_link", "ren_put"} /\ Moves(p, x, l)
        /\ (x = "idle" => l = NoLocals) /\ (x # "idle" => l = loc[p]) /\ l.ret = x
    BY DEF Resumes, NoLocals
  <1>7. Solo(p)' /\ Resting' /\ pc'[p] = x /\ loc'[p] = l
    BY <1>6, MovesIs
  <1>8. /\ ~Freeing(p)' /\ ~Freeing(p) /\ ~Truncating(p) /\ ~Truncating(p)' /\ RootOwed(p)' = RootOwed(p)
        /\ (HoldsOld(p)' <=> HoldsOld(p)) /\ (HoldsOld(p) <=> x # "idle") /\ ~HoldsS(p)'
    BY <1>6, <1>7 DEF Freeing, Truncating, RootOwed, HoldsOld, HoldsS
  <1>9. \A k \in Slots : /\ InUse(p, k)' => InUse(p, k)
                         /\ InUse(p, k) /\ k # s => InUse(p, k)'
                         /\ InUse(p, k)' /\ k = s => icache'[k] = c
    BY <1>2, <1>3, <1>4, <1>5, <1>8, SMTT(30) DEF InUse
  <1>10. \A i \in Inums : /\ Live(p, i)' => Live(p, i)
                          /\ Live(p, i) /\ i # j => Live(p, i)'
                          /\ Named(i) => Live(p, i)'
                          /\ Owed(p, i)' = 0 /\ Owed(p, i) = 0
    BY <1>2, <1>5, <1>6, <1>7, <1>9, SMTT(30) DEF Live, Named, Owed, disk
  <1>11. TypeOK'
    BY <1>5, <1>6, SMTT(30) DEF Good, TypeOK, Moves, Same, disk, SlotRec, LocRec
  <1>12. SlotsOK(p)'
    <2>1. SlotsOK(p)
      BY DEF Good, CacheInv
    <2>2. \A q \in Procs : handle'[q] # 0 => opened'[q] = icache'[handle'[q]].inum
      BY <1>5, <2>1, SlotHeld DEF SlotsOK, Same
    <2> QED
      BY <1>5, <1>8, <1>9, <2>1, <2>2 DEF SlotsOK
  <1>13. RefsOK(p)'
    <2>1. \A k \in Slots : /\ RefS(p, k)' = 0 /\ RefS(p, k) = IF k = s THEN 1 ELSE 0
                           /\ RefOld(p, k)' = RefOld(p, k) /\ RefOld(p, k) \in {0, 1}
      BY <1>1, <1>6, <1>7, <1>8, SMTT(30) DEF RefS, RefOld
    <2>2. \A k \in Slots : icache[k].ref \in Nat /\ icache'[k].ref \in Nat
      BY <1>1, <1>5 DEF SlotRec
    <2>3. \A k \in Slots : icache'[k].ref = icache[k].ref - (IF k = s THEN 1 ELSE 0)
      BY <1>4, <1>5, <2>2
    <2>4. \A k \in Slots :
            /\ icache'[k].ref \in Nat
            /\ icache'[k].ref + RefS(p, k) + RefOld(p, k) = icache[k].ref + RefS(p, k)' + RefOld(p, k)'
      BY <2>1, <2>2, <2>3
    <2> QED
      BY <2>4, RefsKeep DEF Same
  <1>14. LocalOK(p)'
    BY <1>2, <1>6, <1>7, <1>8 DEF Good, CacheInv, LocalOK
  <1>15. DirOK'
    BY DEF Good, CacheInv, DirOK, disk
  <1>16. ASSUME ~torn PROVE DiskInv(p)'
    <2>1. NamesOK' /\ CountsOK(p)' /\ BlocksOK(p)'
      BY <1>8, <1>10, <1>16, DiskKeep
    <2>2. CoherentOK(p) /\ DiskOK(p)
      BY <1>16, SMTT(30) DEF Good, DiskInv
    <2>3. CoherentOK(p)'
      <3>1. ASSUME NEW k \in Slots, InUse(p, k)'
            PROVE  LET a == icache'[k]  d == dinode'[icache'[k].inum] IN
                   d.type # "free" /\ (a.valid => a.type = d.type /\ a.nlink = d.nlink /\ a.blk = d.blk)
        <4>1. LET a == icache[k]  d == dinode[icache[k].inum] IN
              d.type # "free" /\ (a.valid => a.type = d.type /\ a.nlink = d.nlink /\ a.blk = d.blk)
          BY <1>8, <1>9, <2>2, <3>1, SMTT(30) DEF CoherentOK
        <4>2. CASE k = s
          <5>1. icache'[k] = c /\ dinode' = dinode
            BY <1>9, <3>1, <4>2 DEF disk
          <5>2. /\ c.valid => icache[k].valid
                /\ c.inum = icache[k].inum /\ c.type = icache[k].type
                /\ c.nlink = icache[k].nlink /\ c.blk = icache[k].blk
            BY <1>2, <1>3, <4>2
          <5> QED
            BY <4>1, <5>1, <5>2, ZenonT(30)
        <4>3. CASE k # s
          BY <1>5, <4>1, <4>3 DEF disk
        <4> QED
          BY <4>2, <4>3, ZenonT(30)
      <3> QED
        BY <3>1, ZenonT(30) DEF CoherentOK
    <2>4. ASSUME NEW k \in Slots, icache'[k].ref > 0, icache[k].valid PROVE icache'[k].valid
      <3>1. CASE k = s
        <4>1. e = c
          BY <1>3, <1>4, <1>5, <2>4, <3>1
        <4> QED
          BY <1>3, <1>5, <2>4, <3>1, <4>1, ZenonT(30)
      <3>2. CASE k # s
        BY <1>5, <2>4, <3>2, SMTT(30)
      <3> QED
        BY <3>1, <3>2
    <2>5. \A k \in Slots : /\ icache'[k].ref \in Nat
                           /\ icache'[k].ref = Cardinality(Handles(k)') + RefS(p, k)' + RefOld(p, k)' + lost'[k]
                           /\ RefS(p, k)' \in {0, 1} /\ RefOld(p, k)' \in {0, 1} /\ lost'[k] \in Nat
      <3>1. \A k \in Slots : lost'[k] \in Nat
        BY LostIs DEF Good, Same
      <3> QED
        BY <1>5, <1>13, <3>1, ZenonT(30) DEF RefsOK, RefS, RefOld, SlotRec
    <2>6. ASSUME NEW q \in Procs, handle'[q] # 0 PROVE icache'[handle'[q]].valid
      <3>1. handle[q] \in Slots /\ icache[handle[q]].valid /\ handle'[q] = handle[q]
        BY <2>2, <2>6, SlotHeld DEF DiskOK, Same
      <3>2. Cardinality(Handles(handle[q])) \in Nat \ {0} /\ handle' = handle
        BY HandleCount DEF Same
      <3>3. \A k : Handles(k)' = Handles(k)
        BY <3>2 DEF Handles
      <3>4. icache'[handle[q]].ref > 0
        BY <2>5, <3>1, <3>2, <3>3
      <3> QED
        BY <2>4, <3>1, <3>4
    <2>7. ASSUME x # "idle"
          PROVE  icache'[l.old].valid /\ dinode'[OldIno(p)'].type = "file" /\ OldIno(p)' = OldIno(p)
      <3>1. l = loc[p] /\ l.old \in Slots /\ icache[l.old].valid /\ dinode[OldIno(p)].type = "file"
        BY <1>6, <1>8, <2>2, <2>7, SlotHeld DEF DiskOK
      <3>2. RefOld(p, l.old)' = 1
        <4>1. HoldsOld(p)' /\ loc'[p].old = l.old
          BY <1>7, <1>8, <2>7
        <4>3. \A k \in Slots : loc'[p].old = k => RefOld(p, k)' = 1
          BY <4>1 DEF RefOld
        <4> QED
          BY <1>7, <3>1, <4>1, <4>3
      <3>3. icache'[l.old].ref > 0
        <4>1. Cardinality(Handles(l.old)') \in Nat
          <5>1. handle' = handle
            BY DEF Same
          <5>2. \A k : Handles(k)' = Handles(k)
            BY <5>1 DEF Handles
          <5> QED
            BY <5>2, HandleCount
        <4> QED
          BY <2>5, <3>1, <3>2, <4>1
      <3>4. OldIno(p)' = OldIno(p)
        BY <1>5, <1>7, <3>1 DEF OldIno
      <3> QED
        BY <2>4, <3>1, <3>3, <3>4 DEF disk
    <2>8. x = "ren_link" => /\ dir'[l.off].ino = OldIno(p)
                            /\ dir'[l.off].name # l.name
      BY <1>6, <1>7, <2>2 DEF DiskOK, PutsTarget, Found, disk
    <2>9. DiskOK(p)'
      BY <1>6, <1>7, <1>8, <2>6, <2>7, <2>8 DEF DiskOK, PutsTarget
    <2> QED
      BY <2>1, <2>3, <2>9 DEF DiskInv
  <1>17. ASSUME crashes = 0 PROVE LeakInv(p)'
    <2>1. ~torn /\ LeakInv(p)
      BY <1>17 DEF Good
    <2>2. ASSUME NEW i \in Inums, i = j, dinode[i].type = "file" PROVE Live(p, i)'
      <3>1. CASE c.ref # 0
        <4>1. icache'[s].ref > 0 /\ icache'[s].inum = j
          BY <1>2, <1>3, <1>4, <1>5, <3>1
        <4> QED
          BY <1>2, <2>2, <4>1 DEF Live, InUse
      <3>2. CASE c.ref = 0
        <4>1. c.valid \/ Named(j)
          BY <1>3, <2>1 DEF Good, DiskInv, DiskOK
        <4>2. c.valid => c.nlink # 0
          BY <3>2 DEF LastOfUnlinked
        <4>3. c.valid => c.nlink = dinode[j].nlink
          BY <1>1, <1>3, <2>1, MyDisk
        <4>4. dinode[j].nlink = Cardinality(NamesOf(j)) + Owed(p, j) /\ Owed(p, j) = 0
          BY <1>2, <1>10, <2>1, <2>2 DEF LeakInv
        <4>5. (Cardinality(NamesOf(j)) = 0 <=> ~Named(j)) /\ Cardinality(NamesOf(j)) \in Nat
          BY NamesCount
        <4>6. Named(j)
          BY <4>1, <4>2, <4>3, <4>4, <4>5
        <4> QED
          BY <1>10, <2>2, <4>6
      <3> QED
        BY <3>1, <3>2
    <2>3. \A i \in Inums : dinode[i].type = "file" /\ Live(p, i) => Live(p, i)'
      BY <1>10, <2>2
    <2> QED
      BY <1>8, <1>10, <1>17, <2>3, LeakKeep
  <1>18. Good(p)'
    BY <1>7, <1>11, <1>12, <1>13, <1>14, <1>15, <1>16, <1>17 DEF Good, CacheInv, Same
  <1> QED
    BY <1>18 DEF FsInv

LEMMA IputStep ==
  ASSUME FsInv, NEW p \in Procs, Iput(p)
  PROVE  FsInv'
  <1> DEFINE s == loc[p].s
             c == [icache[s] EXCEPT !.ref = icache[s].ref - 1]
  <1>1. pc[p] = "iput" /\ Good(p) /\ Same /\ UNCHANGED disk
    BY InCallGood DEF Iput, At
  <1>2. s \in Slots /\ icache[s].ref > 0 /\ icache[s].ref \in Nat /\ icache[s] \in SlotRec
    BY <1>1, SlotHeld, TypesAre DEF Good, HoldsS
  <1>3. c \in SlotRec
    BY <1>2 DEF SlotRec
  <1>4. CASE LastOfUnlinked(c)
    <2>1. icache' = [icache EXCEPT ![s] = c] /\ Goto(p, "free") /\ UNCHANGED loc
      BY <1>4 DEF Iput
    <2>2. Moves(p, "free", loc[p])
      BY <1>1, <2>1, TypesAre DEF Goto, Moves, Good
    <2> QED
      BY <1>1, <1>3, <1>4, <2>1, <2>2, IputFree
  <1>5. CASE ~LastOfUnlinked(c)
    <2>1. icache' = [icache EXCEPT ![s] = Dropped(c)] /\ Resume(p)
      BY <1>5 DEF Iput
    <2>2. PICK x \in PCs, l \in LocRec : Resumes(p, x, l)
      BY <1>1, <2>1, ResumeIs
    <2> QED
      BY <1>1, <1>3, <1>5, <2>1, <2>2, IputDrop
  <1> QED
    BY <1>4, <1>5

\* The inode is written as free, and its slot is given up.
LEMMA FreeTypeMoves ==
  ASSUME NEW p \in Procs, Good(p), pc[p] = "free_type",
         Iupdate(loc[p].s, Dropped([icache[loc[p].s] EXCEPT !.type = "free"])),
         NEW x \in PCs, NEW l \in LocRec, Resumes(p, x, l),
         UNCHANGED <<used, dir, rootLink>>, Same
  PROVE  FsInv'
  <1> DEFINE s == loc[p].s
             j == MyIno(p)
             e == Dropped([icache[loc[p].s] EXCEPT !.type = "free"])
             d == [type |-> e.type, nlink |-> e.nlink, blk |-> e.blk]
  <1>1. /\ loc[p] \in LocRec /\ icache \in [Slots -> SlotRec] /\ Freeing(p) /\ used \subseteq Blocks
        /\ dinode \in [Inums -> DinodeType] /\ rootLink \in Int
    BY TypesAre DEF Good, TypeOK, Freeing
  <1>2. /\ s \in Slots /\ icache[s].ref = 0 /\ InUse(p, s)
        /\ j \in Inums /\ icache[s].inum = j /\ Live(p, j)
        /\ \A k \in Slots : InUse(p, k) /\ icache[k].inum = j => k = s
    BY <1>1, MySlot DEF Good, CacheInv, SlotsOK
  <1>3. e \in SlotRec /\ e.inum = j /\ e.ref = 0 /\ e.type = "free"
    <2>1. icache[s] \in SlotRec /\ "free" \in Types
      BY <1>1, <1>2 DEF Types
    <2> QED
      BY <1>2, <2>1 DEF Dropped, SlotRec
  <1>4. d \in DinodeType /\ d.type = "free" /\ dinode' = [dinode EXCEPT ![j] = d]
        /\ icache' = [icache EXCEPT ![s] = e]
    BY <1>3 DEF SlotRec, DinodeType, Iupdate
  <1> HIDE DEF e, d
  <1>5. /\ icache' \in [Slots -> SlotRec] /\ icache'[s] = e /\ KeepSlots
        /\ \A k \in Slots : k # s => icache'[k] = icache[k]
    BY <1>1, <1>2, <1>3, <1>4 DEF KeepSlots
  <1>6. /\ dinode' \in [Inums -> DinodeType] /\ dinode'[j].type = "free"
        /\ \A i \in Inums : i # j => dinode'[i] = dinode[i]
    BY <1>1, <1>2, <1>4
  <1>7. /\ x = loc[p].ret /\ x \in {"idle", "ren_link", "ren_put"} /\ Moves(p, x, l)
        /\ (x = "idle" => l = NoLocals) /\ (x # "idle" => l = loc[p]) /\ l.ret = x
    BY DEF Resumes, NoLocals
  <1>8. Solo(p)' /\ Resting' /\ pc'[p] = x /\ loc'[p] = l
    BY <1>7, MovesIs
  <1>9. /\ ~Freeing(p)' /\ ~Truncating(p) /\ ~Truncating(p)' /\ RootOwed(p)' = 0 /\ RootOwed(p) = 0
        /\ (HoldsOld(p)' <=> HoldsOld(p)) /\ (HoldsOld(p) <=> x # "idle") /\ ~HoldsS(p)' /\ ~HoldsS(p)
    BY <1>7, <1>8 DEF Freeing, Truncating, RootOwed, HoldsOld, HoldsS
  <1>10. \A k \in Slots : InUse(p, k)' <=> InUse(p, k) /\ k # s
    BY <1>2, <1>3, <1>5, <1>9 DEF InUse
  <1>11. TypeOK'
    BY <1>5, <1>6, <1>7 DEF Good, TypeOK, Moves, Same, SlotRec, LocRec
  <1>12. SlotsOK(p)'
    <2>1. SlotsOK(p)
      BY DEF Good, CacheInv
    <2>2. \A q \in Procs : handle'[q] # 0 => opened'[q] = icache'[handle'[q]].inum
      BY <1>5, <2>1, SlotHeld DEF SlotsOK, Same, KeepSlots
    <2> QED
      BY <1>5, <1>9, <1>10, <2>1, <2>2 DEF SlotsOK, KeepSlots
  <1>13. RefsOK(p)'
    <2>1. \A k \in Slots : /\ RefS(p, k)' = 0 /\ RefS(p, k) = 0
                           /\ RefOld(p, k)' = RefOld(p, k) /\ RefOld(p, k) \in {0, 1}
      BY <1>7, <1>8, <1>9 DEF RefS, RefOld
    <2>2. \A k \in Slots : icache[k].ref \in Nat /\ icache'[k].ref = icache[k].ref
      BY <1>1, <1>5 DEF SlotRec, KeepSlots
    <2>3. \A k \in Slots :
            /\ icache'[k].ref \in Nat
            /\ icache'[k].ref + RefS(p, k) + RefOld(p, k) = icache[k].ref + RefS(p, k)' + RefOld(p, k)'
      BY <2>1, <2>2
    <2> QED
      BY <2>3, RefsKeep DEF Same
  <1>14. LocalOK(p)'
    BY <1>2, <1>7, <1>8, <1>9 DEF Good, CacheInv, LocalOK
  <1>15. DirOK'
    BY DEF Good, CacheInv, DirOK
  <1>16. ASSUME ~torn PROVE DiskInv(p)' /\ (crashes = 0 => LeakInv(p)')
    <2>1. NamesOK /\ CoherentOK(p) /\ CountsOK(p) /\ BlocksOK(p) /\ DiskOK(p)
      BY <1>16 DEF Good, DiskInv
    <2>2. dinode[j].nlink = 0 /\ dinode[j].blk = 0
      BY <1>1, <2>1 DEF DiskOK
    <2>3. ~Named(j)
      BY <1>1, <1>16, <2>2, MyDisk
    <2>4. \A i \in Inums : /\ Live(p, i)' <=> Live(p, i) /\ i # j
                           /\ Owed(p, i)' = 0 /\ Owed(p, i) = 0 /\ NamesOf(i)' = NamesOf(i)
      <3>1. \A i \in Inums : Owed(p, i)' = 0 /\ Owed(p, i) = 0 /\ NamesOf(i)' = NamesOf(i)
        BY <1>7, <1>8 DEF Owed, NamesOf
      <3>2. \A i \in Inums : Live(p, i)' <=> Live(p, i) /\ i # j
        BY <1>2, <1>5, <1>10, <2>3 DEF Live, Named, KeepSlots
      <3> QED
        BY <3>1, <3>2
    <2>5. \A o \in Entries : dir[o].ino # 0 => dir[o].ino \in Inums /\ dir[o].ino # j
      BY <2>3, TypesAre, RangesAre DEF Good, Named
    <2>6. NamesOK'
      BY <1>6, <2>1, <2>5 DEF NamesOK
    <2>7. CountsOK(p)'
      BY <1>6, <2>1, <2>4 DEF CountsOK
    <2>8. BlocksOK(p)'
      BY <1>6, <1>9, <2>1, <2>4 DEF BlocksOK
    <2>9. CoherentOK(p)'
      <3>1. ASSUME NEW k \in Slots, InUse(p, k)'
            PROVE  LET a == icache'[k]  f == dinode'[icache'[k].inum] IN
                   f.type # "free" /\ (a.valid => a.type = f.type /\ a.nlink = f.nlink /\ a.blk = f.blk)
        <4>1. InUse(p, k) /\ k # s /\ icache'[k] = icache[k]
          BY <1>5, <1>10, <3>1
        <4>2. icache[k].inum \in Inums /\ icache[k].inum # j
          BY <1>2, <4>1 DEF Good, CacheInv, SlotsOK
        <4> QED
          BY <1>6, <1>9, <2>1, <4>1, <4>2 DEF CoherentOK
      <3> QED
        BY <3>1 DEF CoherentOK
    <2>10. DiskOK(p)'
      <3>1. \A q \in Procs : handle'[q] # 0 => icache'[handle'[q]].valid
        BY <1>2, <1>5, <2>1, SlotHeld DEF DiskOK, Same
      <3>2. ASSUME x # "idle"
            PROVE  icache'[l.old].valid /\ OldIno(p)' = OldIno(p) /\ dinode'[OldIno(p)].type = "file"
        <4>1. /\ l = loc[p] /\ l.old \in Slots /\ icache[l.old].valid /\ dinode[OldIno(p)].type = "file"
              /\ icache[l.old].ref > 0 /\ InUse(p, l.old) /\ icache[l.old].inum \in Inums
          BY <1>7, <1>9, <2>1, <3>2, SlotHeld DEF DiskOK
        <4>2. l.old # s /\ icache'[l.old] = icache[l.old]
          BY <1>2, <1>5, <4>1
        <4>3. OldIno(p)' = OldIno(p) /\ OldIno(p) = icache[l.old].inum
          BY <1>8, <4>1, <4>2 DEF OldIno
        <4>4. OldIno(p) # j /\ OldIno(p) \in Inums
          BY <1>2, <4>1, <4>2, <4>3
        <4> QED
          BY <1>6, <4>1, <4>2, <4>3, <4>4
      <3>3. x = "ren_link" => /\ dir'[l.off].ino = OldIno(p)
                              /\ dir'[l.off].name # l.name
        BY <1>7, <1>8, <2>1 DEF DiskOK, PutsTarget, Found
      <3> QED
        BY <1>7, <1>8, <1>9, <3>1, <3>2, <3>3 DEF DiskOK, PutsTarget
    <2>11. ASSUME crashes = 0 PROVE LeakInv(p)'
      <3>1. LeakInv(p)
        BY <2>11 DEF Good
      <3>2. DirNames' = DirNames
        BY <1>6, <2>5 DEF DirNames
      <3>3. rootLink' = 2 + Cardinality(DirNames') + RootOwed(p)'
        BY <1>9, <3>1, <3>2 DEF LeakInv
      <3>4. \A i \in Inums : dinode'[i].type = "file" =>
              Live(p, i)' /\ dinode'[i].nlink = Cardinality(NamesOf(i)') + Owed(p, i)'
        BY <1>6, <2>4, <3>1 DEF LeakInv
      <3>5. ASSUME NEW b \in used' PROVE \E i \in Inums : dinode'[i].type # "free" /\ dinode'[i].blk = b
        <4>1. b \in used /\ b # 0
          BY <1>1, <3>5, RangesAre
        <4>2. PICK i \in Inums : dinode[i].type # "free" /\ dinode[i].blk = b
          BY <3>1, <4>1 DEF LeakInv
        <4>3. i # j
          BY <2>2, <4>1, <4>2
        <4> QED
          BY <1>6, <4>2, <4>3
      <3> QED
        BY <3>3, <3>4, <3>5 DEF LeakInv
    <2> QED
      BY <2>6, <2>7, <2>8, <2>9, <2>10, <2>11 DEF DiskInv
  <1>17. crashes = 0 => ~torn
    BY DEF Good
  <1>18. Good(p)'
    BY <1>8, <1>11, <1>12, <1>13, <1>14, <1>15, <1>16, <1>17 DEF Good, CacheInv, Same
  <1> QED
    BY <1>18 DEF FsInv

LEMMA FreeTypeStep ==
  ASSUME FsInv, NEW p \in Procs, FreeType(p)
  PROVE  FsInv'
  <1>1. /\ pc[p] = "free_type" /\ Good(p) /\ Same /\ UNCHANGED <<used, dir, rootLink>> /\ Resume(p)
        /\ Iupdate(loc[p].s, Dropped([icache[loc[p].s] EXCEPT !.type = "free"]))
    BY InCallGood DEF FreeType, At
  <1>2. PICK x \in PCs, l \in LocRec : Resumes(p, x, l)
    BY <1>1, ResumeIs
  <1> QED
    BY <1>1, <1>2, FreeTypeMoves

-----------------------------------------------------------------------------
(* ialloc. *)

\* A call that begins by allocating an inode; unless the disk is torn no slot has that one.
LEMMA IallocStep ==
  ASSUME NEW p \in Procs, Good(p), pc[p] = "idle", loc[p] = NoLocals,
         NEW t \in {"file", "dir"}, Ialloc(t),
         NEW x \in {"create_init", "mkdir_balloc"}, x = "create_init" <=> t = "file",
         x = "create_init" => handle[p] = 0,
         NEW l \in LocRec, Moves(p, x, l), l.s = SlotFor(Least(FreeInums)), l.ret = "idle",
         l.name \in Names, Found(l.name) = {},
         Same, UNCHANGED <<used, dir, rootLink>>
  PROVE  FsInv'
  <1>1. /\ icache \in [Slots -> SlotRec] /\ dinode \in [Inums -> DinodeType] /\ used \subseteq Blocks
        /\ \A m \in Slots : icache[m].ref \in Nat
    BY TypesAre DEF Good, TypeOK, SlotRec
  <1>2. PICK i \in Inums : i = Least(FreeInums) /\ dinode[i].type = "free"
    <2>1. Least(FreeInums) \in FreeInums
      BY LeastIs, RangesAre DEF FreeInums, Ialloc
    <2> QED
      BY <2>1 DEF FreeInums
  <1>3. PICK d \in DinodeType : /\ d.type = t /\ d.nlink = 0 /\ d.blk = 0
                                /\ dinode' = [dinode EXCEPT ![i] = d]
    <2>1. [NoInode EXCEPT !.type = t] \in DinodeType
      BY RangesAre DEF NoInode, DinodeType, Types
    <2>2. LET d == [NoInode EXCEPT !.type = t] IN d.type = t /\ d.nlink = 0 /\ d.blk = 0
      BY DEF NoInode
    <2> QED
      BY <1>2, <2>1, <2>2 DEF Ialloc
  <1>4. CanGet(i) /\ icache' = Got(i)
    BY <1>2 DEF Ialloc
  <1> DEFINE k == l.s
  <1>5. /\ k \in Slots /\ icache' \in [Slots -> SlotRec]
        /\ icache'[k].inum = i /\ icache'[k].ref = icache[k].ref + 1
        /\ \A m \in Slots : m # k => icache'[m] = icache[m]
        /\ icache[k].ref > 0 => icache[k].inum = i
        /\ icache[k].ref = 0 => ~icache'[k].valid /\ \A m \in Slots : icache[m].ref > 0 => icache[m].inum # i
    BY <1>1, <1>2, <1>4, GotIs
  <1>6. /\ dinode' \in [Inums -> DinodeType] /\ dinode'[i] = d
        /\ \A m \in Inums : m # i => dinode'[m] = dinode[m]
    BY <1>1, <1>3
  <1>7. Solo(p)' /\ Resting' /\ pc'[p] = x /\ loc'[p] = l
    BY MovesIs
  <1>8. ~Freeing(p) /\ ~Freeing(p)' /\ ~Truncating(p) /\ ~Truncating(p)' /\ RootOwed(p)' = 0 /\ RootOwed(p) = 0
    BY <1>7 DEF Freeing, Truncating, RootOwed
  <1>9. TypeOK'
    <2>1. x \in PCs
      BY DEF PCs
    <2> QED
      BY <1>5, <1>6, <2>1 DEF Good, TypeOK, Moves, Same, SlotRec, LocRec
  <1>10. RefsOK(p)'
    <2>1. \A m \in Slots : /\ RefS(p, m) = 0 /\ RefOld(p, m) = 0 /\ RefOld(p, m)' = 0
                           /\ RefS(p, m)' = IF m = k THEN 1 ELSE 0
                           /\ icache'[m].ref = icache[m].ref + (IF m = k THEN 1 ELSE 0)
      BY <1>1, <1>5, <1>7 DEF RefS, RefOld, HoldsS, HoldsOld
    <2>2. \A m \in Slots :
            /\ icache'[m].ref \in Nat
            /\ icache'[m].ref + RefS(p, m) + RefOld(p, m) = icache[m].ref + RefS(p, m)' + RefOld(p, m)'
      BY <1>1, <2>1
    <2> QED
      BY <2>2, RefsKeep DEF Same
  <1>11. \A m \in Slots : InUse(p, m)' <=> InUse(p, m) \/ m = k
    BY <1>1, <1>5, <1>8 DEF InUse
  <1>12. \A m \in Slots : InUse(p, m) => icache'[m].inum = icache[m].inum
    BY <1>5, <1>8 DEF InUse
  <1>13. SlotsOK(p)'
    <2>1. SlotsOK(p)
      BY DEF Good, CacheInv
    <2>2. \A q \in Procs : handle'[q] # 0 => opened'[q] = icache'[handle'[q]].inum
      BY <1>12, <2>1, SlotHeld DEF SlotsOK, Same
    <2>3. \A m \in Slots : InUse(p, m)' => icache'[m].inum \in Inums
      BY <1>5, <1>11, <1>12, <2>1 DEF SlotsOK
    <2>4. ASSUME NEW m \in Slots, InUse(p, m), icache[m].inum = i PROVE m = k
      <3>1. icache[m].ref > 0
        BY <1>8, <2>4 DEF InUse
      <3>2. icache[k].ref > 0
        BY <1>1, <1>5, <2>4, <3>1
      <3> QED
        BY <1>5, <2>1, <2>4, <3>1, <3>2 DEF SlotsOK, InUse
    <2>5. \A m, n \in Slots : InUse(p, m)' /\ InUse(p, n)' /\ icache'[m].inum = icache'[n].inum => m = n
      BY <1>5, <1>11, <1>12, <2>1, <2>4 DEF SlotsOK
    <2> QED
      BY <1>8, <2>2, <2>3, <2>5 DEF SlotsOK
  <1>14. LocalOK(p)'
    BY <1>5, <1>7 DEF LocalOK, HoldsOld, Same
  <1>15. DirOK'
    BY DEF Good, CacheInv, DirOK
  <1>16. ASSUME ~torn PROVE DiskInv(p)' /\ (crashes = 0 => LeakInv(p)')
    <2>1. NamesOK /\ CoherentOK(p) /\ CountsOK(p) /\ BlocksOK(p) /\ DiskOK(p)
      BY <1>16 DEF Good, DiskInv
    <2>2. \A m \in Slots : InUse(p, m) => icache[m].inum # i /\ icache[m].inum \in Inums
      BY <1>2, <2>1 DEF CoherentOK, Good, CacheInv, SlotsOK
    <2>3. icache[k].ref = 0 /\ ~icache'[k].valid
      BY <1>1, <1>5, <2>2 DEF InUse
    <2>4. \A o \in Entries : dir[o].ino # 0 => dir[o].ino \in Inums /\ dir[o].ino # i
      BY <1>2, <2>1, TypesAre, RangesAre DEF Good, NamesOK
    <2>5. ~Named(i)
      BY <2>4, RangesAre DEF Named
    <2>6. \A m \in Inums : Live(p, m)' <=> Live(p, m) \/ m = i
      BY <1>5, <1>11, <1>12 DEF Live, Named
    <2>7. /\ \A m \in Inums : NamesOf(m)' = NamesOf(m) /\ Owed(p, m) = 0 /\ (m # i => Owed(p, m)' = 0)
          /\ Owed(p, i)' = IF t = "dir" THEN -1 ELSE 0
      <3>1. MyIno(p)' = i
        BY <1>5, <1>7 DEF MyIno
      <3>2. \A m \in Inums : Owed(p, m)' = IF m = i /\ t = "dir" THEN -1 ELSE 0
        BY <1>7, <3>1 DEF Owed
      <3>3. \A m \in Inums : NamesOf(m)' = NamesOf(m) /\ Owed(p, m) = 0
        BY DEF NamesOf, Owed
      <3> QED
        BY <3>2, <3>3
    <2>8. Cardinality(NamesOf(i)) = 0
      BY <2>5, NamesCount
    <2>9. NamesOK'
      BY <1>6, <2>1, <2>4 DEF NamesOK
    <2>10. CountsOK(p)'
      <3>1. ASSUME NEW m \in Inums, Live(p, m)', m # i
            PROVE  /\ dinode'[m].type = "file" => dinode'[m].nlink >= Cardinality(NamesOf(m)') + Owed(p, m)'
                   /\ dinode'[m].type = "dir" => dinode'[m].nlink >= 1 + Cardinality(NamesOf(m)') + Owed(p, m)'
        BY <1>6, <2>1, <2>6, <2>7, <3>1 DEF CountsOK
      <3>2. /\ dinode'[i].type = "file" => dinode'[i].nlink >= Cardinality(NamesOf(i)') + Owed(p, i)'
            /\ dinode'[i].type = "dir" => dinode'[i].nlink >= 1 + Cardinality(NamesOf(i)') + Owed(p, i)'
        <4>1. Cardinality(NamesOf(i)') = 0 /\ dinode'[i].nlink = 0 /\ dinode'[i].type = t
          BY <1>3, <1>6, <2>7, <2>8
        <4> QED
          BY <2>7, <4>1
      <3> QED
        BY <3>1, <3>2 DEF CountsOK
    <2>11. BlocksOK(p)'
      BY <1>3, <1>6, <1>8, <2>1, <2>6 DEF BlocksOK
    <2>12. CoherentOK(p)'
      <3>1. ASSUME NEW m \in Slots, InUse(p, m)'
            PROVE  LET a == icache'[m]  f == dinode'[icache'[m].inum] IN
                   f.type # "free" /\ (a.valid => a.type = f.type /\ a.nlink = f.nlink /\ a.blk = f.blk)
        <4>1. CASE m = k
          BY <1>3, <1>5, <1>6, <2>3, <4>1
        <4>2. CASE m # k
          BY <1>5, <1>6, <1>8, <1>11, <2>1, <2>2, <3>1, <4>2 DEF CoherentOK
        <4> QED
          BY <4>1, <4>2
      <3> QED
        BY <3>1 DEF CoherentOK
    <2>13. DiskOK(p)'
      <3>1. \A q \in Procs : handle'[q] # 0 => icache'[handle'[q]].valid
        BY <1>5, <2>1, <2>3, SlotHeld DEF DiskOK, Same
      <3>2. MyIno(p)' = i /\ dinode'[i].type = t /\ dinode'[i].nlink = 0 /\ dinode'[i].blk = 0
        BY <1>3, <1>5, <1>6, <1>7 DEF MyIno
      <3>3. Found(l.name)' = {}
        BY DEF Found
      <3> QED
        BY <1>7, <1>8, <3>1, <3>2, <3>3 DEF DiskOK, HoldsOld, PutsTarget
    <2>14. ASSUME crashes = 0 PROVE LeakInv(p)'
      <3>1. LeakInv(p)
        BY <2>14 DEF Good
      <3>2. DirNames' = DirNames
        BY <1>6, <2>4 DEF DirNames
      <3>3. rootLink' = 2 + Cardinality(DirNames') + RootOwed(p)'
        BY <1>8, <3>1, <3>2 DEF LeakInv
      <3>4. ASSUME NEW m \in Inums, dinode'[m].type = "file"
            PROVE  Live(p, m)' /\ dinode'[m].nlink = Cardinality(NamesOf(m)') + Owed(p, m)'
        <4>1. CASE m = i
          <5>1. Owed(p, i)' = 0 /\ dinode'[i].nlink = 0 /\ Cardinality(NamesOf(i)') = 0 /\ Live(p, i)'
            BY <1>3, <1>6, <2>6, <2>7, <2>8, <3>4, <4>1
          <5> QED
            BY <4>1, <5>1
        <4>2. CASE m # i
          BY <1>6, <2>6, <2>7, <3>1, <3>4, <4>2 DEF LeakInv
        <4> QED
          BY <4>1, <4>2
      <3>5. \A b \in used' : \E m \in Inums : dinode'[m].type # "free" /\ dinode'[m].blk = b
        BY <1>2, <1>6, <3>1 DEF LeakInv
      <3> QED
        BY <3>3, <3>4, <3>5 DEF LeakInv
    <2> QED
      BY <2>9, <2>10, <2>11, <2>12, <2>13, <2>14 DEF DiskInv
  <1>17. crashes = 0 => ~torn
    BY DEF Good
  <1>18. Good(p)'
    BY <1>7, <1>9, <1>10, <1>13, <1>14, <1>15, <1>16, <1>17 DEF Good, CacheInv, Same
  <1> QED
    BY <1>18 DEF FsInv

\* The slot of the new inode.
LEMMA IallocSlot ==
  ASSUME NEW p \in Procs, Good(p), NEW t, Ialloc(t)
  PROVE  SlotFor(Least(FreeInums)) \in Slots
  <1>1. Least(FreeInums) \in FreeInums
    BY LeastIs, RangesAre DEF FreeInums, Ialloc
  <1>2. Least(FreeInums) \in Inums /\ CanGet(Least(FreeInums))
    BY <1>1 DEF FreeInums, Ialloc
  <1> QED
    BY <1>2, GotIs, TypesAre DEF Good

LEMMA CreateStep ==
  ASSUME FsInv, Excl, NEW p \in Procs, NEW n \in Names, Create(p, n)
  PROVE  FsInv'
  <1> DEFINE l == [NoLocals EXCEPT !.s = SlotFor(Least(FreeInums)), !.name = n]
  <1>1. /\ pc[p] = "idle" /\ loc[p] = NoLocals /\ Good(p) /\ handle[p] = 0 /\ Same
        /\ UNCHANGED <<used, dir, rootLink>> /\ Found(n) = {} /\ Ialloc("file")
    BY EnterGood DEF Create
  <1>2. SlotFor(Least(FreeInums)) \in Slots
    BY <1>1, IallocSlot
  <1>3. l \in LocRec /\ l.s = SlotFor(Least(FreeInums)) /\ l.ret = "idle" /\ l.name = n
    BY <1>2, RangesAre DEF LocRec, NoLocals
  <1>4. Moves(p, "create_init", l)
    BY <1>1, TypesAre DEF Moves, Goto, Create, Good
  <1> HIDE DEF l
  <1> QED
    BY <1>1, <1>3, <1>4, IallocStep

LEMMA MkdirStep ==
  ASSUME FsInv, Excl, NEW p \in Procs, NEW n \in Names, Mkdir(p, n)
  PROVE  FsInv'
  <1> DEFINE l == [NoLocals EXCEPT !.s = SlotFor(Least(FreeInums)), !.name = n]
  <1>1. /\ pc[p] = "idle" /\ loc[p] = NoLocals /\ Good(p) /\ Same
        /\ UNCHANGED <<used, dir, rootLink>> /\ Found(n) = {} /\ Ialloc("dir")
    BY EnterGood DEF Mkdir
  <1>2. SlotFor(Least(FreeInums)) \in Slots
    BY <1>1, IallocSlot
  <1>3. l \in LocRec /\ l.s = SlotFor(Least(FreeInums)) /\ l.ret = "idle" /\ l.name = n
    BY <1>2, RangesAre DEF LocRec, NoLocals
  <1>4. Moves(p, "mkdir_balloc", l)
    BY <1>1, TypesAre DEF Moves, Goto, Mkdir, Good
  <1> HIDE DEF l
  <1> QED
    BY <1>1, <1>3, <1>4, IallocStep

-----------------------------------------------------------------------------
(* The machine is switched off, or boots for the first time. *)

LEMMA CrashStep ==
  ASSUME FsInv, Crash
  PROVE  FsInv'
  <1>1. PICK p \in Procs : Good(p)
    BY DEF FsInv
  <1>2. /\ icache' = [s \in Slots |-> NoSlot] /\ handle' = [q \in Procs |-> 0] /\ opened' = [q \in Procs |-> 0]
        /\ lost' = [s \in Slots |-> 0] /\ pc' = [q \in Procs |-> "idle"] /\ loc' = [q \in Procs |-> NoLocals] /\ UNCHANGED disk
        /\ crashes < MaxCrashes /\ crashes' = crashes + 1
    BY DEF Crash
  <1>3. NoSlot \in SlotRec /\ NoLocals \in LocRec /\ NoLocals.ret = "idle" /\ NoSlot.ref = 0
    BY RangesAre DEF NoSlot, NoLocals, SlotRec, LocRec, Types
  <1>4. crashes' \in 0 .. MaxCrashes /\ crashes' # 0
    BY <1>1, <1>2, FsAssumption DEF Good, TypeOK
  <1>5. TypeOK'
    <2>1. torn' \in BOOLEAN /\ "idle" \in PCs /\ 0 \in 0 .. NSLOTS /\ 0 \in 0 .. NINODES /\ 0 \in 0 .. MaxLost
      BY <1>1, RangesAre, FsAssumption DEF Crash, PCs
    <2>2. icache' \in [Slots -> SlotRec] /\ loc' \in [Procs -> LocRec] /\ pc' \in [Procs -> PCs]
          /\ handle' \in [Procs -> 0 .. NSLOTS] /\ opened' \in [Procs -> 0 .. NINODES]
          /\ lost' \in [Slots -> 0 .. MaxLost]
      BY <1>2, <1>3, <2>1
    <2> QED
      BY <1>1, <1>2, <1>4, <2>1, <2>2 DEF Good, TypeOK, disk, SlotRec, LocRec
  <1>6. /\ \A q \in Procs : pc'[q] = "idle" /\ loc'[q] = NoLocals /\ handle'[q] = 0
        /\ \A k \in Slots : icache'[k].ref = 0 /\ lost'[k] = 0
    BY <1>2, <1>3
  <1>7. /\ ~HoldsS(p)' /\ ~HoldsOld(p)' /\ ~Freeing(p)' /\ ~Truncating(p)' /\ ~PutsTarget(p)'
        /\ \A i \in Inums : Owed(p, i)' = 0
    BY <1>6 DEF HoldsS, HoldsOld, Freeing, Truncating, PutsTarget, Owed
  <1>8. \A k \in Slots : ~InUse(p, k)'
    BY <1>6, <1>7 DEF InUse
  <1>9. CacheInv(p)'
    <2>1. RefsOK(p)'
      <3>1. ASSUME NEW k \in Slots
            PROVE  Cardinality(Handles(k)') = 0 /\ RefS(p, k)' = 0 /\ RefOld(p, k)' = 0
        <4>1. Handles(k)' = {}
          BY <1>6, RangesAre DEF Handles
        <4> QED
          BY <1>7, <4>1, FS_EmptySet DEF RefS, RefOld
      <3> QED
        BY <1>6, <3>1 DEF RefsOK
    <2>2. SlotsOK(p)'
      BY <1>6, <1>7, <1>8 DEF SlotsOK
    <2>3. LocalOK(p)'
      BY <1>3, <1>6, <1>7 DEF LocalOK
    <2>4. DirOK'
      BY <1>1, <1>2 DEF Good, CacheInv, DirOK, disk
    <2> QED
      BY <2>1, <2>2, <2>3, <2>4 DEF CacheInv
  <1>10. ASSUME ~torn' PROVE DiskInv(p)'
    <2>1. ~torn /\ pc[p] # "ren_erase" /\ (pc[p] = "trunc_size" => dinode[MyIno(p)].blk = 0)
      BY <1>10 DEF Crash, At, MyIno
    <2>2. NamesOK /\ CountsOK(p) /\ BlocksOK(p) /\ DiskOK(p)
      BY <1>1, <2>1 DEF Good, DiskInv
    <2>3. \A i \in Inums : (Live(p, i)' <=> Named(i)) /\ (Named(i) => Live(p, i)) /\ NamesOf(i)' = NamesOf(i)
      BY <1>2, <1>8 DEF Live, Named, NamesOf, disk
    <2>4. \A i \in Inums : Named(i) => dinode[i].nlink > 0
      BY <2>2, RangesAre DEF Named, NamesOK
    <2>5. ASSUME NEW i \in Inums, Named(i) PROVE Owed(p, i) \in {0, 1}
      <3>1. pc[p] \in {"mkdir_balloc", "mkdir_dots"} => dinode[MyIno(p)].nlink = 0
        BY <2>2 DEF DiskOK
      <3>2. pc[p] \in {"mkdir_balloc", "mkdir_dots"} => MyIno(p) # i
        BY <2>4, <2>5, <3>1
      <3> QED
        BY <2>1, <3>2 DEF Owed
    <2>6. NamesOK'
      BY <1>2, <2>2 DEF NamesOK, disk
    <2>7. CountsOK(p)'
      <3>1. ASSUME NEW i \in Inums, Named(i)
            PROVE  /\ dinode[i].type = "file" => dinode[i].nlink >= Cardinality(NamesOf(i)) + 0
                   /\ dinode[i].type = "dir" => dinode[i].nlink >= 1 + Cardinality(NamesOf(i)) + 0
        <4>1. dinode[i].nlink \in Int /\ Cardinality(NamesOf(i)) \in Nat
          BY <1>1, TypesAre, NamesCount DEF Good, DinodeType
        <4> QED
          BY <2>2, <2>3, <2>5, <3>1, <4>1 DEF CountsOK
      <3> QED
        BY <1>2, <1>7, <2>3, <3>1 DEF CountsOK, disk
    <2>8. BlocksOK(p)'
      <3>1. ASSUME NEW i \in Inums, Named(i), dinode[i].blk # 0, Truncating(p) PROVE MyIno(p) # i
        <4>1. pc[p] = "free_size" => dinode[MyIno(p)].nlink = 0
          BY <2>2 DEF DiskOK, Freeing
        <4> QED
          BY <2>1, <2>4, <3>1, <4>1 DEF Truncating
      <3> QED
        BY <1>2, <2>2, <2>3, <3>1 DEF BlocksOK, disk
    <2>9. CoherentOK(p)'
      BY <1>8 DEF CoherentOK
    <2>10. DiskOK(p)'
      BY <1>6, <1>7 DEF DiskOK
    <2> QED
      BY <2>6, <2>7, <2>8, <2>9, <2>10, SMTT(30) DEF DiskInv
  <1>11. Solo(p)' /\ Resting'
    BY <1>6 DEF Solo, Resting
  <1>12. Good(p)'
    BY <1>4, <1>5, <1>9, <1>10, <1>11 DEF Good
  <1> QED
    BY <1>12 DEF FsInv

LEMMA InitInv ==
  ASSUME Init
  PROVE  FsInv
  <1>1. PICK p \in Procs : TRUE
    BY FsAssumption
  <1>2. /\ rootLink = 2 /\ crashes = 0 /\ torn = FALSE
        /\ icache = [s \in Slots |-> NoSlot] /\ handle = [q \in Procs |-> 0] /\ opened = [q \in Procs |-> 0]
        /\ lost = [s \in Slots |-> 0] /\ pc = [q \in Procs |-> "idle"] /\ loc = [q \in Procs |-> NoLocals]
    BY DEF Init
  <1>3. NoSlot \in SlotRec /\ NoLocals \in LocRec /\ NoLocals.ret = "idle" /\ NoSlot.ref = 0
    BY RangesAre DEF NoSlot, NoLocals, SlotRec, LocRec, Types
  <1>4. /\ dir \in [Entries -> {NoEntry} \cup [name : Names, ino : {1}]]
        /\ \A o, q \in Entries : dir[o].name = dir[q].name /\ dir[o].name # NoName => o = q
    BY DEF Init
  <1>5. 1 \in Inums /\ 1 \in Blocks /\ 1 \in 0 .. NINODES /\ 1 \in 0 .. NBLOCKS
    BY FsAssumption DEF Inums, Blocks
  <1>6. \A o \in Entries : \/ dir[o].name = NoName /\ dir[o].ino = 0
                           \/ dir[o].name \in Names /\ dir[o].ino = 1
    <2>1. NoEntry.name = NoName /\ NoEntry.ino = 0
      BY DEF NoEntry
    <2> QED
      BY <1>4, <2>1
  <1> DEFINE n == Cardinality(NamesOf(1))
  <1>7. n \in Nat /\ (n = 0 <=> ~Named(1))
    BY NamesCount
  <1>8. PICK b \in {0, 1} :
          /\ n = 0 => b = 0
          /\ dinode = [i \in Inums |-> IF i = 1 /\ n > 0
                                       THEN [type |-> "file", nlink |-> n, blk |-> b] ELSE NoInode]
          /\ used = {b} \ {0}
    BY DEF Init, NamesOf
  <1> HIDE DEF n
  <1>9. /\ \A i \in Inums : i # 1 \/ n = 0 => dinode[i].type = "free" /\ dinode[i].nlink = 0 /\ dinode[i].blk = 0
        /\ n # 0 => dinode[1].type = "file" /\ dinode[1].nlink = n /\ dinode[1].blk = b
    BY <1>5, <1>7, <1>8 DEF NoInode
  <1>10. TypeOK
    <2>1. dinode \in [Inums -> DinodeType]
      <3>1. NoInode \in DinodeType /\ [type |-> "file", nlink |-> n, blk |-> b] \in DinodeType
        BY <1>5, <1>7, RangesAre DEF NoInode, DinodeType, Types
      <3> QED
        BY <1>8, <3>1
    <2>2. used \subseteq Blocks
      BY <1>5, <1>8
    <2>3. dir \in [Entries -> [name : Names \cup {NoName}, ino : 0 .. NINODES]]
      <3>1. NoEntry \in [name : Names \cup {NoName}, ino : 0 .. NINODES]
        BY RangesAre DEF NoEntry
      <3>2. [name : Names, ino : {1}] \subseteq [name : Names \cup {NoName}, ino : 0 .. NINODES]
        BY <1>5
      <3> QED
        BY <1>4, <3>1, <3>2
    <2>4. "idle" \in PCs /\ 0 \in 0 .. NSLOTS /\ 0 \in 0 .. NINODES /\ 0 \in 0 .. MaxCrashes /\ 0 \in 0 .. MaxLost
      BY RangesAre, FsAssumption DEF PCs
    <2>5. icache \in [Slots -> SlotRec] /\ loc \in [Procs -> LocRec] /\ pc \in [Procs -> PCs]
          /\ handle \in [Procs -> 0 .. NSLOTS] /\ opened \in [Procs -> 0 .. NINODES]
          /\ lost \in [Slots -> 0 .. MaxLost]
      BY <1>2, <1>3, <2>4
    <2>6. rootLink \in Int /\ crashes \in 0 .. MaxCrashes /\ torn \in BOOLEAN
      <3>1. rootLink \in Int /\ crashes \in 0 .. MaxCrashes
        BY <1>2, <2>4
      <3>2. torn \in BOOLEAN
        BY <1>2, Zenon
      <3> QED
        BY <3>1, <3>2
    <2> QED
      BY <2>1, <2>2, <2>3, <2>5, <2>6 DEF TypeOK, SlotRec, LocRec
  <1>11. /\ \A q \in Procs : pc[q] = "idle" /\ loc[q] = NoLocals /\ handle[q] = 0
         /\ \A k \in Slots : icache[k].ref = 0 /\ lost[k] = 0
    BY <1>2, <1>3
  <1>12. /\ ~HoldsS(p) /\ ~HoldsOld(p) /\ ~Freeing(p) /\ ~Truncating(p) /\ ~PutsTarget(p) /\ RootOwed(p) = 0
         /\ \A i \in Inums : Owed(p, i) = 0
    BY <1>11 DEF HoldsS, HoldsOld, Freeing, Truncating, PutsTarget, RootOwed, Owed
  <1>13. \A k \in Slots : ~InUse(p, k)
    BY <1>11, <1>12 DEF InUse
  <1>14. \A i \in Inums : (Live(p, i) <=> Named(i)) /\ (Named(i) => i = 1)
    BY <1>6, <1>13, RangesAre DEF Live, Named
  <1>15. CacheInv(p)
    <2>1. RefsOK(p)
      <3>1. ASSUME NEW k \in Slots
            PROVE  Cardinality(Handles(k)) = 0 /\ RefS(p, k) = 0 /\ RefOld(p, k) = 0
        <4>1. Handles(k) = {}
          BY <1>11, RangesAre DEF Handles
        <4> QED
          BY <1>12, <4>1, FS_EmptySet DEF RefS, RefOld
      <3> QED
        BY <1>11, <3>1 DEF RefsOK
    <2>2. SlotsOK(p)
      BY <1>11, <1>12, <1>13 DEF SlotsOK
    <2>3. LocalOK(p)
      BY <1>3, <1>11, <1>12 DEF LocalOK
    <2>4. DirOK
      BY <1>6, FsAssumption DEF DirOK
    <2> QED
      BY <2>1, <2>2, <2>3, <2>4 DEF CacheInv
  <1>16. DiskInv(p)
    <2>1. NamesOK
      <3>1. \A o \in Entries : dir[o].ino # 0 => Named(1) /\ dir[o].ino = 1 /\ dir[o].name # NoName
        BY <1>6, FsAssumption DEF Named
      <3> QED
        BY <1>4, <1>7, <1>9, <3>1 DEF NamesOK
    <2>2. CountsOK(p)
      <3>1. ASSUME NEW i \in Inums, Live(p, i)
            PROVE  dinode[i].type = "file" /\ dinode[i].nlink >= Cardinality(NamesOf(i)) + Owed(p, i)
        <4>1. i = 1 /\ n # 0 /\ Cardinality(NamesOf(i)) = n /\ Owed(p, i) = 0
          BY <1>7, <1>12, <1>14, <3>1 DEF n
        <4> QED
          BY <1>7, <1>9, <4>1
      <3> QED
        BY <3>1 DEF CountsOK
    <2>3. BlocksOK(p)
      BY <1>8, <1>9, <1>14 DEF BlocksOK
    <2>4. CoherentOK(p)
      BY <1>13 DEF CoherentOK
    <2>5. DiskOK(p)
      BY <1>11, <1>12 DEF DiskOK
    <2> QED
      BY <2>1, <2>2, <2>3, <2>4, <2>5 DEF DiskInv
  <1>17. LeakInv(p)
    <2>1. ASSUME NEW i \in Inums, dinode[i].type = "file"
          PROVE  Live(p, i) /\ dinode[i].nlink = Cardinality(NamesOf(i)) + Owed(p, i)
      <3>1. i = 1 /\ n # 0
        BY <1>9, <2>1
      <3>2. Owed(p, i) = 0 /\ Cardinality(NamesOf(i)) = n /\ dinode[i].nlink = n
        BY <1>9, <1>12, <3>1 DEF n
      <3> QED
        BY <1>7, <1>14, <3>1, <3>2
    <2>2. \A e \in used : \E i \in Inums : dinode[i].type # "free" /\ dinode[i].blk = e
      BY <1>5, <1>8, <1>9
    <2>3. DirNames = {}
      BY <1>5, <1>6, <1>9 DEF DirNames
    <2>4. rootLink = 2 + Cardinality(DirNames) + RootOwed(p)
      BY <1>2, <1>12, <2>3, FS_EmptySet
    <2> QED
      BY <2>1, <2>2, <2>4 DEF LeakInv
  <1>18. Solo(p) /\ Resting
    BY <1>11 DEF Solo, Resting
  <1>19. Good(p)
    BY <1>2, <1>10, <1>15, <1>16, <1>17, <1>18 DEF Good
  <1> QED
    BY <1>19 DEF FsInv

-----------------------------------------------------------------------------
(* The invariant, and what follows from it. *)

LEMMA NextInv ==
  ASSUME FsInv, Excl, [Next]_vars
  PROVE  FsInv'
  <1>1. CASE Crash
    BY <1>1, CrashStep
  <1>2. ASSUME NEW p \in Procs, Call(p) PROVE FsInv'
    <2>1. CASE WriteBalloc(p) \/ Ftruncate(p) \/ Close(p)
      BY <2>1, WriteBallocStep, FtruncateStep, CloseFileStep
    <2>2. ASSUME NEW n \in Names, Open(p, n) \/ Create(p, n) \/ Unlink(p, n) \/ Mkdir(p, n) PROVE FsInv'
      BY <2>2, OpenStep, CreateStep, UnlinkStep, MkdirStep
    <2>3. ASSUME NEW n \in Names, NEW m \in Names, Rename(p, n, m) PROVE FsInv'
      BY <2>3, RenameStep
    <2> QED
      BY <1>2, <2>1, <2>2, <2>3 DEF Call
  <1>3. ASSUME NEW p \in Procs, Step(p) PROVE FsInv'
    <2>1. ASSUME NEW b \in BOOLEAN, OpenLock(p, b) \/ OpenFail(p, b) PROVE FsInv'
      BY <2>1, OpenLockStep, OpenFailStep
    <2>2. CASE OpenDone(p) \/ OpenNoFd(p) \/ CreateInit(p) \/ CreateLink(p) \/ WriteUpdate(p)
      BY <2>2, OpenDoneStep, OpenNoFdStep, CreateInitStep, CreateLinkStep, WriteUpdateStep
    <2>3. CASE Bfree(p) \/ TruncSize(p) \/ Iput(p) \/ FreeType(p)
      BY <2>3, BfreeStep, TruncSizeStep, IputStep, FreeTypeStep
    <2>4. CASE UnlinkErase(p) \/ UnlinkParent(p) \/ UnlinkCount(p)
      BY <2>4, UnlinkEraseStep, UnlinkParentStep, UnlinkCountStep
    <2>5. CASE MkdirBalloc(p) \/ MkdirDots(p) \/ MkdirLink(p) \/ MkdirParent(p)
      BY <2>5, MkdirBallocStep, MkdirDotsStep, MkdirLinkStep, MkdirParentStep
    <2>6. CASE RenameNoTarget(p) \/ RenameTarget(p) \/ RenameUnlink(p) \/ RenameCount(p)
      BY <2>6, RenameNoTargetStep, RenameTargetStep, RenameUnlinkStep, RenameCountStep
    <2>7. CASE RenameLink(p) \/ RenameErase(p) \/ RenamePut(p)
      BY <2>7, RenameLinkStep, RenameEraseStep, RenamePutStep
    <2> QED
      BY <1>3, <2>1, <2>2, <2>3, <2>4, <2>5, <2>6, <2>7 DEF Step
  <1>4. CASE UNCHANGED vars
    <2>1. PICK p \in Procs : Good(p)
      BY DEF FsInv
    <2>2. UNCHANGED <<dinode, used, dir, rootLink, icache, handle, opened, lost, pc, loc, crashes, torn>>
      BY <1>4 DEF vars, disk
    <2>3. TypeOK' /\ Solo(p)' /\ Resting' /\ (torn' => crashes' # 0)
      BY <2>1, <2>2 DEF Good, TypeOK, Solo, Resting
    <2>4. /\ \A k : (InUse(p, k)' <=> InUse(p, k)) /\ RefS(p, k)' = RefS(p, k) /\ RefOld(p, k)' = RefOld(p, k)
          /\ \A k : Handles(k)' = Handles(k)
          /\ (Freeing(p)' <=> Freeing(p)) /\ (HoldsOld(p)' <=> HoldsOld(p))
          /\ (Truncating(p)' <=> Truncating(p)) /\ (PutsTarget(p)' <=> PutsTarget(p))
          /\ MyIno(p)' = MyIno(p) /\ OldIno(p)' = OldIno(p)
      BY <2>2 DEF InUse, RefS, RefOld, Handles, HoldsS, HoldsOld, Freeing, Truncating, PutsTarget, MyIno, OldIno
    <2>5. /\ \A i : (Named(i)' <=> Named(i)) /\ NamesOf(i)' = NamesOf(i) /\ Found(i)' = Found(i)
          /\ \A i : (Live(p, i)' <=> Live(p, i)) /\ Owed(p, i)' = Owed(p, i)
          /\ DirNames' = DirNames /\ RootOwed(p)' = RootOwed(p)
      BY <2>2, <2>4 DEF Named, NamesOf, Found, Live, Owed, DirNames, RootOwed
    <2>6. CacheInv(p)'
      BY <2>1, <2>2, <2>4 DEF Good, CacheInv, RefsOK, SlotsOK, LocalOK, DirOK
    <2>7. ASSUME ~torn PROVE DiskInv(p)'
      <3>1. NamesOK /\ CoherentOK(p) /\ CountsOK(p) /\ BlocksOK(p) /\ DiskOK(p)
        BY <2>1, <2>7 DEF Good, DiskInv
      <3>2. NamesOK' /\ CoherentOK(p)' /\ CountsOK(p)' /\ BlocksOK(p)'
        BY <2>2, <2>4, <2>5, <3>1 DEF NamesOK, CoherentOK, CountsOK, BlocksOK
      <3>3. DiskOK(p)'
        BY <2>2, <2>4, <2>5, <3>1 DEF DiskOK
      <3> QED
        BY <3>2, <3>3 DEF DiskInv
    <2>8. ASSUME crashes = 0 PROVE LeakInv(p)'
      BY <2>1, <2>2, <2>5, <2>8 DEF Good, LeakInv
    <2>9. Good(p)'
      BY <2>2, <2>3, <2>6, <2>7, <2>8 DEF Good
    <2> QED
      BY <2>9 DEF FsInv
  <1> QED
    BY <1>1, <1>2, <1>3, <1>4 DEF Next

\* Where system calls on the file system exclude each other, the count of a cache slot is what
\* open files, the call and failed opens of sys_open hold of it, the disk agrees with the cache and with itself unless a crash tore it, and
\* until the first crash every inode and block in use is accounted for.
THEOREM FsInvariant ==
  ASSUME Excl
  PROVE  Spec => []FsInv
  <1>1. Init => FsInv
    BY InitInv
  <1>2. FsInv /\ [Next]_vars => FsInv'
    BY NextInv
  <1> QED
    BY <1>1, <1>2, PTL DEF Spec

\* The fields keep their types: no reference count that iget and iput keep falls below 0.
THEOREM FsTypes ==
  ASSUME Excl
  PROVE  Spec => []TypeOK
  <1>1. FsInv => TypeOK
    BY DEF FsInv, Good
  <1> QED
    BY <1>1, FsInvariant, PTL

\* What create, mkdir, unlink and rename leave in the root directory at every moment: names
\* that lead to inodes in use and, where no longer name is cut to them by dirlink, are there
\* once, unless a crash tore itrunc or rename.
THEOREM FsNames ==
  ASSUME Excl
  PROVE  Spec => []EntriesNameLiveInodes
  <1>1. FsInv => EntriesNameLiveInodes
    BY DEF FsInv, Good, DiskInv, NamesOK, EntriesNameLiveInodes
  <1> QED
    BY <1>1, FsInvariant, PTL

\* An open file is one of its slot's references, so its inode is in use.
LEMMA OpenIsLive ==
  ASSUME NEW p \in Procs, Good(p), NEW i, IsOpen(i)
  PROVE  \E k \in Slots : icache[k].ref > 0 /\ InUse(p, k) /\ icache[k].inum = i
  <1>1. PICK q \in Procs : handle[q] # 0 /\ opened[q] = i
    BY DEF IsOpen
  <1>2. handle[q] \in Slots /\ icache[handle[q]].ref > 0 /\ InUse(p, handle[q])
    BY <1>1, SlotHeld
  <1> QED
    BY <1>1, <1>2 DEF Good, CacheInv, SlotsOK

\* No block belongs to two files that can be reached, and balloc gives out none that does:
\* bfree clears the bit before iupdate only for the file that itrunc is working on.
THEOREM FsBlocks ==
  ASSUME Excl
  PROVE  Spec => []BlocksHaveOneOwner
  <1>1. ASSUME NEW p \in Procs, Good(p), ~torn, NEW i \in Inums, Named(i) \/ IsOpen(i), dinode[i].blk # 0
        PROVE  /\ \/ dinode[i].blk \in used
                  \/ \E q \in Procs : pc[q] = "trunc_size" /\ icache[loc[q].s].inum = i
               /\ \A j \in Inums \ {i} : Named(j) \/ IsOpen(j) => dinode[j].blk # dinode[i].blk
    <2>1. \A j \in Inums : Named(j) \/ IsOpen(j) => Live(p, j)
      BY <1>1, OpenIsLive DEF Live
    <2>2. /\ dinode[i].blk \in used \/ (Truncating(p) /\ MyIno(p) = i)
          /\ \A j \in Inums : Live(p, j) /\ dinode[j].blk = dinode[i].blk => j = i
      BY <1>1, <2>1 DEF Good, DiskInv, BlocksOK
    <2>3. ASSUME pc[p] = "free_size", MyIno(p) = i PROVE FALSE
      <3>1. Freeing(p) /\ dinode[i].nlink = 0
        BY <1>1, <2>3 DEF Good, DiskInv, DiskOK, Freeing
      <3>2. ~Named(i)
        BY <1>1, <2>3, <3>1, MyDisk
      <3>3. PICK k \in Slots : icache[k].ref > 0 /\ InUse(p, k) /\ icache[k].inum = i
        BY <1>1, <3>2, OpenIsLive
      <3>4. k = loc[p].s
        BY <1>1, <2>3, <3>1, <3>3, MySlot
      <3> QED
        BY <1>1, <3>1, <3>3, <3>4 DEF Good, CacheInv, SlotsOK
    <2> QED
      BY <2>1, <2>2, <2>3 DEF Truncating, MyIno
  <1>2. FsInv => BlocksHaveOneOwner
    BY <1>1 DEF FsInv, BlocksHaveOneOwner
  <1> QED
    BY <1>2, FsInvariant, PTL

\* A file that is open keeps its slot and its inode, whatever unlink, rename, open and close
\* do to it meanwhile.
THEOREM FsOpen ==
  ASSUME Excl
  PROVE  Spec => []OpenFilesStay
  <1>1. ASSUME NEW p \in Procs, Good(p), ~torn, NEW q \in Procs, handle[q] # 0
        PROVE  /\ icache[handle[q]].ref > 0 /\ icache[handle[q]].inum = opened[q]
               /\ dinode[opened[q]].type # "free"
    <2>1. handle[q] \in Slots /\ icache[handle[q]].ref > 0 /\ InUse(p, handle[q])
      BY <1>1, SlotHeld
    <2>2. icache[handle[q]].inum = opened[q]
      BY <1>1 DEF Good, CacheInv, SlotsOK
    <2> QED
      BY <1>1, <2>1, <2>2 DEF Good, DiskInv, CoherentOK
  <1>2. FsInv => OpenFilesStay
    BY <1>1 DEF FsInv, OpenFilesStay
  <1> QED
    BY <1>2, FsInvariant, PTL

\* Until the machine is switched off every file has a name, is open, or is kept by a
\* reference that sys_open forgot, between calls, and every block marked in the bitmap
\* belongs to an inode: iput frees what was unlinked.
THEOREM FsLeaks ==
  ASSUME Excl
  PROVE  Spec => []NothingElseLeaks
  <1>1. ASSUME NEW p \in Procs, Good(p), Idle, crashes = 0
        PROVE  /\ \A i \in Inums : dinode[i].type = "file" => Named(i) \/ IsOpen(i) \/ Forgotten(i)
               /\ \A b \in used : \E i \in Inums : dinode[i].type # "free" /\ dinode[i].blk = b
    <2>1. pc[p] = "idle" /\ LeakInv(p)
      BY <1>1 DEF Idle, Good
    <2>2. \A k \in Slots : RefS(p, k) = 0 /\ RefOld(p, k) = 0 /\ (InUse(p, k) => icache[k].ref > 0)
      BY <2>1 DEF RefS, RefOld, HoldsS, HoldsOld, InUse, Freeing
    <2>3. ASSUME NEW k \in Slots, InUse(p, k) PROVE IsOpen(icache[k].inum) \/ Forgotten(icache[k].inum)
      <3>1. icache[k].ref = Cardinality(Handles(k)) + 0 + 0 + lost[k] /\ icache[k].ref > 0
        BY <1>1, <2>2, <2>3 DEF Good, CacheInv, RefsOK
      <3>2. lost[k] \in Nat
        BY <1>1, LostIs DEF Good
      <3>3. CASE lost[k] > 0
        BY <3>3 DEF Forgotten
      <3>4. CASE ~(lost[k] > 0)
        <4>1. Cardinality(Handles(k)) # 0
          BY <3>1, <3>2, <3>4, HandleCount
        <4>2. PICK q \in Procs : handle[q] = k
          BY <4>1, HandleCount
        <4>3. handle[q] # 0
          BY <4>2, RangesAre
        <4> QED
          BY <1>1, <4>2, <4>3 DEF Good, CacheInv, SlotsOK, IsOpen
      <3> QED
        BY <3>3, <3>4
    <2>4. \A i \in Inums : dinode[i].type = "file" => Named(i) \/ IsOpen(i) \/ Forgotten(i)
      BY <2>1, <2>3 DEF LeakInv, Live
    <2> QED
      BY <2>1, <2>4 DEF LeakInv
  <1>2. FsInv => NothingElseLeaks
    BY <1>1 DEF FsInv, NothingElseLeaks
  <1> QED
    BY <1>2, FsInvariant, PTL

\* Until the machine is switched off link counts are those of the names between calls: each
\* call settles what it owes to nlink of the file and of the root.
THEOREM FsLinks ==
  ASSUME Excl
  PROVE  Spec => []LinksAreCounted
  <1>1. ASSUME NEW p \in Procs, Good(p), Idle, crashes = 0
        PROVE  /\ \A i \in Inums : dinode[i].type = "file" => dinode[i].nlink = Cardinality(NamesOf(i))
               /\ rootLink = 2 + Cardinality(DirNames)
    <2>1. pc[p] = "idle" /\ LeakInv(p)
      BY <1>1 DEF Idle, Good
    <2>2. RootOwed(p) = 0 /\ \A i \in Inums : Owed(p, i) = 0
      BY <2>1 DEF RootOwed, Owed
    <2>3. Cardinality(DirNames) \in Nat /\ \A i \in Inums : Cardinality(NamesOf(i)) \in Nat
      BY DirCount, NamesCount
    <2> QED
      BY <2>1, <2>2, <2>3 DEF LeakInv
  <1>2. FsInv => LinksAreCounted
    BY <1>1 DEF FsInv, LinksAreCounted, NamesOf, DirNames
  <1> QED
    BY <1>2, FsInvariant, PTL

=============================================================================
