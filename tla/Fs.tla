-------------------------------- MODULE Fs ----------------------------------
(***************************************************************************)
(* The file system of fs.c, on the disk and in the inode cache: what       *)
(* open, create, write, truncate, close, unlink, mkdir and rename do to    *)
(* the root directory, the inodes and the bitmap.                          *)
(*                                                                         *)
(* Every bwrite is synchronous and may sleep, so each write of a block is  *)
(* a step, and the machine may be switched off between any two of them:    *)
(* there is no log, and fsinit repairs nothing.  ilock excludes nobody.    *)
(* Excl says whether system calls on the file system exclude each other,   *)
(* which is what the comments about ilock suppose and nothing enforces.    *)
(*                                                                         *)
(* A file has at most one data block.  Names inside subdirectories are not *)
(* modelled, nor is the root's own inode except for its link count.  Where *)
(* the kernel panics (no free inode, block, cache slot or entry) the call  *)
(* does not go on, and only switching the machine off is left.             *)
(***************************************************************************)
EXTENDS Integers, FiniteSets

CONSTANTS
  Procs, Names,
  Cut,          \* Cut[n]: what an entry keeps of the name n, its first DIRSIZ - 1 characters
  NINODES, NBLOCKS, NSLOTS, NENTRIES,
  Excl,
  MaxCrashes,   \* bound on the times the machine is switched off
  MaxLost       \* bound on the references to one slot that sys_open forgets

NoName == "none"   \* the name in an entry that is free

ASSUME FsAssumption ==
  /\ NINODES \in Nat \ {0} /\ NBLOCKS \in Nat \ {0} /\ NSLOTS \in Nat /\ NENTRIES \in Nat
  /\ IsFiniteSet(Procs) /\ Procs # {} /\ NoName \notin Names
  /\ Cut \in [Names -> Names] /\ \A n \in Names : Cut[Cut[n]] = Cut[n]
  /\ Excl \in BOOLEAN /\ MaxCrashes \in Nat /\ MaxLost \in Nat

Inums == 1 .. NINODES       \* all inodes but the root, and 0 is none
Blocks == 1 .. NBLOCKS      \* data blocks, and 0 is none
Slots == 1 .. NSLOTS        \* icache.inode
Entries == 1 .. NENTRIES    \* places for a dirent in the root directory
Types == {"free", "file", "dir"}

VARIABLES
  dinode,   \* the inodes on the disk
  used,     \* the bitmap: the blocks marked in it
  dir,      \* the root directory
  rootLink, \* the link count of the root directory
  icache,   \* the inode cache
  handle,   \* handle[p]: the cache slot of the file p has open, or 0
  opened,   \* history: the inode that p opened
  lost,     \* history: lost[s] references to slot s that sys_open has forgotten
  pc, loc,  \* where each process stands, and its local variables
  crashes,
  torn      \* history: switched off at one of the two places that are not safe

disk == <<dinode, used, dir, rootLink>>
vars == <<disk, icache, handle, opened, lost, pc, loc, crashes, torn>>

NoInode == [type |-> "free", nlink |-> 0, blk |-> 0]
NoEntry == [name |-> NoName, ino |-> 0]
NoSlot == [inum |-> 0, ref |-> 0, valid |-> FALSE, type |-> "free", nlink |-> 0, blk |-> 0]
NoLocals == [s |-> 0, old |-> 0, name |-> NoName, off |-> 0, toff |-> 0, blk |-> 0, ret |-> "idle"]

Least(S) == CHOOSE x \in S : \A y \in S : x <= y

\* What mkfs makes: at most one file here, under one or more names, with or without data.
\* mkfs refuses names that an entry does not hold.
Init ==
  /\ dir \in [Entries -> {NoEntry} \cup [name : Names, ino : {1}]]
  /\ \A o \in Entries : dir[o].name # NoName => Cut[dir[o].name] = dir[o].name
  /\ \A o, q \in Entries : dir[o].name = dir[q].name /\ dir[o].name # NoName => o = q
  /\ LET links == Cardinality({o \in Entries : dir[o].ino = 1}) IN
       \E b \in {0, 1} :
         /\ links = 0 => b = 0
         /\ dinode = [i \in Inums |-> IF i = 1 /\ links > 0
                                      THEN [type |-> "file", nlink |-> links, blk |-> b] ELSE NoInode]
         /\ used = {b} \ {0}
  /\ rootLink = 2
  /\ icache = [s \in Slots |-> NoSlot]
  /\ handle = [p \in Procs |-> 0]
  /\ opened = [p \in Procs |-> 0]
  /\ lost = [s \in Slots |-> 0]
  /\ pc = [p \in Procs |-> "idle"]
  /\ loc = [p \in Procs |-> NoLocals]
  /\ crashes = 0
  /\ torn = FALSE

-----------------------------------------------------------------------------
At(p, s) == pc[p] = s
Goto(p, s) == pc' = [pc EXCEPT ![p] = s]
Done(p) == Goto(p, "idle") /\ loc' = [loc EXCEPT ![p] = NoLocals]
Enter(p) == At(p, "idle") /\ (Excl => \A q \in Procs : At(q, "idle"))
Same == UNCHANGED <<handle, opened, lost, crashes, torn>>

\* dirlookup compares DIRSIZ characters.
Found(n) == {o \in Entries : dir[o].name = n}
Offset(n) == Least(Found(n))
Ino(n) == dir[Offset(n)].ino

\* iget: the slot that holds inode i, or the first one without references.
Holding(i) == {s \in Slots : icache[s].ref > 0 /\ icache[s].inum = i}
Vacant == {s \in Slots : icache[s].ref = 0}
CanGet(i) == Holding(i) \cup Vacant # {}
SlotFor(i) == IF Holding(i) # {} THEN Least(Holding(i)) ELSE Least(Vacant)
Got(i) ==
  LET c == icache[SlotFor(i)] IN
  [icache EXCEPT ![SlotFor(i)] =
     IF Holding(i) # {} THEN [c EXCEPT !.ref = c.ref + 1]
                        ELSE [c EXCEPT !.inum = i, !.ref = 1, !.valid = FALSE]]

\* ilock: reads the inode unless it is there, and panics on a free one.
Locked(s) ==
  IF icache[s].valid THEN icache[s]
  ELSE LET d == dinode[icache[s].inum] IN
       [icache[s] EXCEPT !.valid = TRUE, !.type = d.type, !.nlink = d.nlink, !.blk = d.blk]
CanLock(s) == Locked(s).type # "free"

\* iupdate of slot s, whose contents become c.
Iupdate(s, c) ==
  /\ icache' = [icache EXCEPT ![s] = c]
  /\ dinode' = [dinode EXCEPT ![c.inum] = [type |-> c.type, nlink |-> c.nlink, blk |-> c.blk]]

\* ialloc: the first free inode of the disk; its dinode is zeroed.
FreeInums == {i \in Inums : dinode[i].type = "free"}
Ialloc(t) ==
  LET i == Least(FreeInums) IN
  /\ FreeInums # {} /\ CanGet(i)
  /\ dinode' = [dinode EXCEPT ![i] = [NoInode EXCEPT !.type = t]]
  /\ icache' = Got(i)

\* balloc: the first free block.
FreeBlocks == Blocks \ used

\* dirlink: the first free entry.  The check for the name is on the whole name, the entry
\* keeps one character less.
FreeEntries == {o \in Entries : dir[o].ino = 0}
Link(n, i) == /\ FreeEntries # {}
              /\ dir' = [dir EXCEPT ![Least(FreeEntries)] = [name |-> Cut[n], ino |-> i]]

-----------------------------------------------------------------------------
(* sys_open *)

Open(p, n) ==
  /\ Enter(p) /\ handle[p] = 0
  /\ Found(n) # {} /\ CanGet(Ino(n))
  /\ icache' = Got(Ino(n))
  /\ loc' = [loc EXCEPT ![p].s = SlotFor(Ino(n))]
  /\ Goto(p, "open_lock")
  /\ UNCHANGED disk /\ Same

HandleIs(p, s) ==
  /\ handle' = [handle EXCEPT ![p] = s]
  /\ opened' = [opened EXCEPT ![p] = icache[s].inum]
  /\ UNCHANGED <<lost, crashes, torn>>

\* With O_TRUNC the file is truncated before it is opened.
OpenLock(p, trunc) ==
  LET s == loc[p].s IN
  /\ At(p, "open_lock") /\ CanLock(s)
  /\ icache' = [icache EXCEPT ![s] = Locked(s)]
  /\ IF trunc /\ Locked(s).type = "file"
     THEN /\ Goto(p, "trunc") /\ loc' = [loc EXCEPT ![p].ret = "open_done"]
          /\ Same
     ELSE HandleIs(p, s) /\ Done(p)
  /\ UNCHANGED disk

OpenDone(p) ==
  /\ At(p, "open_done")
  /\ HandleIs(p, loc[p].s) /\ Done(p)
  /\ UNCHANGED <<disk, icache>>

\* Without success the inode is put: O_EXCL and the file is there (not yet locked then), a
\* directory opened for writing, or no free file.
OpenFail(p, locked) ==
  LET s == loc[p].s IN
  /\ pc[p] \in {"open_lock", "open_done"}
  /\ locked => CanLock(s)
  /\ icache' = IF locked THEN [icache EXCEPT ![s] = Locked(s)] ELSE icache
  /\ loc' = [loc EXCEPT ![p] = [NoLocals EXCEPT !.s = s]]
  /\ Goto(p, "iput")
  /\ UNCHANGED disk /\ Same

\* Without a free descriptor sys_open closes a file that is not yet tied to the inode: the
\* inode is unlocked and not put, and no call will put it any more.
OpenNoFd(p) ==
  LET s == loc[p].s IN
  /\ pc[p] \in {"open_lock", "open_done"} /\ CanLock(s)
  /\ lost[s] < MaxLost
  /\ icache' = [icache EXCEPT ![s] = Locked(s)]
  /\ lost' = [lost EXCEPT ![s] = lost[s] + 1]
  /\ Done(p)
  /\ UNCHANGED <<disk, handle, opened, crashes, torn>>

Create(p, n) ==
  /\ Enter(p) /\ handle[p] = 0
  /\ Found(n) = {}
  /\ Ialloc("file")
  /\ loc' = [loc EXCEPT ![p].s = SlotFor(Least(FreeInums)), ![p].name = n]
  /\ Goto(p, "create_init")
  /\ UNCHANGED <<used, dir, rootLink>> /\ Same

\* Mutant: the entry is written before the inode is, with the link count still 0.
CreateInitLate(p) ==
  /\ At(p, "create_init")
  /\ icache' = [icache EXCEPT ![loc[p].s] = [Locked(loc[p].s) EXCEPT !.nlink = 1]]
  /\ Goto(p, "create_link")
  /\ UNCHANGED <<disk, loc>> /\ Same

CreateInit(p) ==
  /\ At(p, "create_init")
  /\ Iupdate(loc[p].s, [Locked(loc[p].s) EXCEPT !.nlink = 1])
  /\ Goto(p, "create_link")
  /\ UNCHANGED <<used, dir, rootLink, loc>> /\ Same

\* dirlink refuses a name that has come up meanwhile; sys_open then puts the inode.
CreateLink(p) ==
  /\ At(p, "create_link")
  /\ IF Found(loc[p].name) = {}
     THEN Link(loc[p].name, icache[loc[p].s].inum) /\ Goto(p, "open_lock")
     ELSE Goto(p, "iput") /\ UNCHANGED dir
  /\ UNCHANGED <<dinode, used, rootLink, icache, loc>> /\ Same

-----------------------------------------------------------------------------
(* filewrite of a first block: balloc, then addrs and size in the inode. *)

WriteBalloc(p) ==
  LET s == handle[p] IN
  /\ Enter(p) /\ s # 0
  /\ CanLock(s) /\ Locked(s).type = "file" /\ Locked(s).blk = 0
  /\ FreeBlocks # {}
  /\ used' = used \cup {Least(FreeBlocks)}
  /\ icache' = [icache EXCEPT ![s] = Locked(s)]
  /\ loc' = [loc EXCEPT ![p].s = s, ![p].blk = Least(FreeBlocks)]
  /\ Goto(p, "write_update")
  /\ UNCHANGED <<dinode, dir, rootLink>> /\ Same

WriteUpdate(p) ==
  /\ At(p, "write_update")
  /\ Iupdate(loc[p].s, [icache[loc[p].s] EXCEPT !.blk = loc[p].blk])
  /\ Done(p)
  /\ UNCHANGED <<used, dir, rootLink>> /\ Same

-----------------------------------------------------------------------------
(* itrunc, from ftruncate or open (pc "trunc") or from iput (pc "free"): the *)
(* block is freed in the bitmap first, then the inode is written.            *)

Ftruncate(p) ==
  LET s == handle[p] IN
  /\ Enter(p) /\ s # 0
  /\ CanLock(s) /\ Locked(s).type = "file"
  /\ icache' = [icache EXCEPT ![s] = Locked(s)]
  /\ loc' = [loc EXCEPT ![p].s = s]
  /\ Goto(p, "trunc")
  /\ UNCHANGED disk /\ Same

\* bfree panics on a block that is free.
Bfree(p) ==
  LET b == icache[loc[p].s].blk IN
  /\ pc[p] \in {"trunc", "free"}
  /\ b # 0 => b \in used
  /\ used' = used \ {b}
  /\ icache' = [icache EXCEPT ![loc[p].s].blk = 0]
  /\ Goto(p, IF At(p, "trunc") THEN "trunc_size" ELSE "free_size")
  /\ UNCHANGED <<dinode, dir, rootLink, loc>> /\ Same

Resume(p) == IF loc[p].ret = "idle" THEN Done(p) ELSE Goto(p, loc[p].ret) /\ UNCHANGED loc
AfterTrunc(p) == IF At(p, "free_size") THEN Goto(p, "free_type") /\ UNCHANGED loc ELSE Resume(p)

\* Mutant: itrunc does not write the inode.
TruncSizeLost(p) ==
  /\ pc[p] \in {"trunc_size", "free_size"}
  /\ AfterTrunc(p)
  /\ UNCHANGED <<disk, icache>> /\ Same

TruncSize(p) ==
  /\ pc[p] \in {"trunc_size", "free_size"}
  /\ Iupdate(loc[p].s, icache[loc[p].s])
  /\ AfterTrunc(p)
  /\ UNCHANGED <<used, dir, rootLink>> /\ Same

-----------------------------------------------------------------------------
(* iput of slot loc[p].s; the caller goes on at loc[p].ret. *)

\* ref == 0 leaves the slot to the next iget.
Dropped(c) == IF c.ref = 0 THEN [c EXCEPT !.valid = FALSE] ELSE c

\* Mutant: iput frees an inode without links whoever else still has it.
LastOfUnlinkedAny(c) == c.valid /\ c.nlink = 0

LastOfUnlinked(c) == c.ref = 0 /\ c.valid /\ c.nlink = 0

Iput(p) ==
  LET s == loc[p].s
      c == [icache[s] EXCEPT !.ref = icache[s].ref - 1]
  IN
  /\ At(p, "iput")
  /\ IF LastOfUnlinked(c)
     THEN icache' = [icache EXCEPT ![s] = c] /\ Goto(p, "free") /\ UNCHANGED loc
     ELSE icache' = [icache EXCEPT ![s] = Dropped(c)] /\ Resume(p)
  /\ UNCHANGED disk /\ Same

\* Mutant: iput truncates the file and keeps the inode.
FreeTypeKeeps(p) ==
  LET s == loc[p].s IN
  /\ At(p, "free_type")
  /\ icache' = [icache EXCEPT ![s] = Dropped(icache[s])]
  /\ Resume(p)
  /\ UNCHANGED disk /\ Same

FreeType(p) ==
  LET s == loc[p].s IN
  /\ At(p, "free_type")
  /\ Iupdate(s, Dropped([icache[s] EXCEPT !.type = "free"]))
  /\ Resume(p)
  /\ UNCHANGED <<used, dir, rootLink>> /\ Same

Close(p) ==
  /\ Enter(p) /\ handle[p] # 0
  /\ handle' = [handle EXCEPT ![p] = 0]
  /\ opened' = [opened EXCEPT ![p] = 0]
  /\ loc' = [loc EXCEPT ![p].s = handle[p]]
  /\ Goto(p, "iput")
  /\ UNCHANGED <<disk, icache, lost, crashes, torn>>

-----------------------------------------------------------------------------
(* sys_unlink: the entry, the parent's link count, the inode's. *)

Unlink(p, n) ==
  /\ Enter(p)
  /\ Found(n) # {} /\ CanGet(Ino(n))
  /\ icache' = Got(Ino(n))
  /\ loc' = [loc EXCEPT ![p].s = SlotFor(Ino(n)), ![p].off = Offset(n)]
  /\ Goto(p, "unlink_erase")
  /\ UNCHANGED disk /\ Same

UnlinkErase(p) ==
  LET s == loc[p].s IN
  /\ At(p, "unlink_erase") /\ CanLock(s)
  /\ icache' = [icache EXCEPT ![s] = Locked(s)]
  /\ dir' = [dir EXCEPT ![loc[p].off] = NoEntry]
  /\ Goto(p, IF Locked(s).type = "dir" THEN "unlink_parent" ELSE "unlink_count")
  /\ UNCHANGED <<dinode, used, rootLink, loc>> /\ Same

UnlinkParent(p) ==
  /\ At(p, "unlink_parent")
  /\ rootLink' = rootLink - 1
  /\ Goto(p, "unlink_count")
  /\ UNCHANGED <<dinode, used, dir, icache, loc>> /\ Same

UnlinkCount(p) ==
  /\ At(p, "unlink_count")
  /\ Iupdate(loc[p].s, [icache[loc[p].s] EXCEPT !.nlink = icache[loc[p].s].nlink - 1])
  /\ Goto(p, "iput")
  /\ UNCHANGED <<used, dir, rootLink, loc>> /\ Same

-----------------------------------------------------------------------------
(* sys_mkdir: inode, block with "." and "..", entry, the parent's link count. *)

Mkdir(p, n) ==
  /\ Enter(p)
  /\ Found(n) = {}
  /\ Ialloc("dir")
  /\ loc' = [loc EXCEPT ![p].s = SlotFor(Least(FreeInums)), ![p].name = n]
  /\ Goto(p, "mkdir_balloc")
  /\ UNCHANGED <<used, dir, rootLink>> /\ Same

MkdirBalloc(p) ==
  LET s == loc[p].s IN
  /\ At(p, "mkdir_balloc") /\ FreeBlocks # {}
  /\ used' = used \cup {Least(FreeBlocks)}
  /\ icache' = [icache EXCEPT ![s] = [Locked(s) EXCEPT !.nlink = 2]]
  /\ loc' = [loc EXCEPT ![p].blk = Least(FreeBlocks)]
  /\ Goto(p, "mkdir_dots")
  /\ UNCHANGED <<dinode, dir, rootLink>> /\ Same

MkdirDots(p) ==
  /\ At(p, "mkdir_dots")
  /\ Iupdate(loc[p].s, [icache[loc[p].s] EXCEPT !.blk = loc[p].blk])
  /\ Goto(p, "mkdir_link")
  /\ UNCHANGED <<used, dir, rootLink, loc>> /\ Same

MkdirLink(p) ==
  /\ At(p, "mkdir_link")
  /\ IF Found(loc[p].name) = {}
     THEN Link(loc[p].name, icache[loc[p].s].inum) /\ Goto(p, "mkdir_parent")
     ELSE Goto(p, "iput") /\ UNCHANGED dir
  /\ UNCHANGED <<dinode, used, rootLink, icache, loc>> /\ Same

\* Mutant: the ".." of the new directory is not counted.
MkdirParentNot(p) ==
  /\ At(p, "mkdir_parent")
  /\ Goto(p, "iput")
  /\ UNCHANGED <<disk, icache, loc>> /\ Same

\* The parent is written, then the directory once more.
MkdirParent(p) ==
  /\ At(p, "mkdir_parent")
  /\ rootLink' = rootLink + 1
  /\ Iupdate(loc[p].s, icache[loc[p].s])
  /\ Goto(p, "iput")
  /\ UNCHANGED <<used, dir, loc>> /\ Same

-----------------------------------------------------------------------------
(* sys_rename of a file: removes the target, links the new name, erases the old. *)

Rename(p, n, m) ==
  /\ Enter(p) /\ n # m
  /\ Found(n) # {} /\ CanGet(Ino(n))
  /\ icache' = Got(Ino(n))
  /\ loc' = [loc EXCEPT ![p].s = SlotFor(Ino(n)), ![p].old = SlotFor(Ino(n)),
                        ![p].off = Offset(n), ![p].name = m]
  /\ Goto(p, "ren_target")
  /\ UNCHANGED disk /\ Same

\* Without a target, or when the source is not a file.
RenameNoTarget(p) ==
  LET s == loc[p].s IN
  /\ At(p, "ren_target") /\ CanLock(s)
  /\ Locked(s).type = "dir" \/ Found(loc[p].name) = {}
  /\ icache' = [icache EXCEPT ![s] = Locked(s)]
  /\ Goto(p, IF Locked(s).type = "dir" THEN "iput" ELSE "ren_link")
  /\ UNCHANGED <<disk, loc>> /\ Same

RenameTarget(p) ==
  LET t == Ino(loc[p].name) IN
  /\ At(p, "ren_target") /\ CanLock(loc[p].s)
  /\ Locked(loc[p].s).type = "file" /\ Found(loc[p].name) # {} /\ CanGet(t)
  /\ icache' = [Got(t) EXCEPT ![loc[p].s].valid = TRUE,
                              ![loc[p].s].type = Locked(loc[p].s).type,
                              ![loc[p].s].nlink = Locked(loc[p].s).nlink,
                              ![loc[p].s].blk = Locked(loc[p].s).blk]
  /\ loc' = [loc EXCEPT ![p].s = SlotFor(t), ![p].toff = Offset(loc[p].name)]
  /\ Goto(p, "ren_unlink")
  /\ UNCHANGED disk /\ Same

\* A target that is a directory is refused: both inodes are put.
RenameUnlink(p) ==
  LET s == loc[p].s IN
  /\ At(p, "ren_unlink") /\ CanLock(s)
  /\ icache' = [icache EXCEPT ![s] = Locked(s)]
  /\ IF Locked(s).type = "dir"
     THEN /\ Goto(p, "iput") /\ loc' = [loc EXCEPT ![p].ret = "ren_put"]
          /\ UNCHANGED dir
     ELSE /\ dir' = [dir EXCEPT ![loc[p].toff] = NoEntry]
          /\ Goto(p, "ren_count") /\ UNCHANGED loc
  /\ UNCHANGED <<dinode, used, rootLink>> /\ Same

RenameCount(p) ==
  /\ At(p, "ren_count")
  /\ Iupdate(loc[p].s, [icache[loc[p].s] EXCEPT !.nlink = icache[loc[p].s].nlink - 1])
  /\ loc' = [loc EXCEPT ![p].ret = "ren_link"]
  /\ Goto(p, "iput")
  /\ UNCHANGED <<used, dir, rootLink>> /\ Same

RenameLink(p) ==
  /\ At(p, "ren_link")
  /\ IF Found(loc[p].name) = {}
     THEN Link(loc[p].name, icache[loc[p].old].inum) /\ Goto(p, "ren_erase")
     ELSE Goto(p, "ren_put") /\ UNCHANGED dir
  /\ UNCHANGED <<dinode, used, rootLink, icache, loc>> /\ Same

RenameErase(p) ==
  /\ At(p, "ren_erase")
  /\ dir' = [dir EXCEPT ![loc[p].off] = NoEntry]
  /\ Goto(p, "ren_put")
  /\ UNCHANGED <<dinode, used, rootLink, icache, loc>> /\ Same

RenamePut(p) ==
  /\ At(p, "ren_put")
  /\ loc' = [loc EXCEPT ![p] = [NoLocals EXCEPT !.s = loc[p].old]]
  /\ Goto(p, "iput")
  /\ UNCHANGED <<disk, icache>> /\ Same

-----------------------------------------------------------------------------
\* The machine is switched off and boots: fsinit empties the cache, the disk is as it
\* was.  torn remembers the two places at which this does harm: between the two writes
\* of itrunc on a file that keeps its name, and between the two of rename.
Crash ==
  /\ crashes < MaxCrashes
  /\ crashes' = crashes + 1
  /\ torn' = \/ torn
             \/ \E p \in Procs : At(p, "ren_erase")
             \/ \E p \in Procs : At(p, "trunc_size") /\ dinode[icache[loc[p].s].inum].blk # 0
  /\ icache' = [s \in Slots |-> NoSlot]
  /\ handle' = [p \in Procs |-> 0]
  /\ opened' = [p \in Procs |-> 0]
  /\ lost' = [s \in Slots |-> 0]
  /\ pc' = [p \in Procs |-> "idle"]
  /\ loc' = [p \in Procs |-> NoLocals]
  /\ UNCHANGED disk

Step(p) ==
  \/ \E b \in BOOLEAN : OpenLock(p, b) \/ OpenFail(p, b)
  \/ OpenDone(p) \/ OpenNoFd(p) \/ CreateInit(p) \/ CreateLink(p) \/ WriteUpdate(p)
  \/ Bfree(p) \/ TruncSize(p) \/ Iput(p) \/ FreeType(p)
  \/ UnlinkErase(p) \/ UnlinkParent(p) \/ UnlinkCount(p)
  \/ MkdirBalloc(p) \/ MkdirDots(p) \/ MkdirLink(p) \/ MkdirParent(p)
  \/ RenameNoTarget(p) \/ RenameTarget(p) \/ RenameUnlink(p) \/ RenameCount(p)
  \/ RenameLink(p) \/ RenameErase(p) \/ RenamePut(p)

Call(p) ==
  \/ WriteBalloc(p) \/ Ftruncate(p) \/ Close(p)
  \/ \E n \in Names : Open(p, n) \/ Create(p, n) \/ Unlink(p, n) \/ Mkdir(p, n)
  \/ \E n, m \in Names : Rename(p, n, m)

Next == Crash \/ \E p \in Procs : Call(p) \/ Step(p)

Spec == Init /\ [][Next]_vars

-----------------------------------------------------------------------------
PCs == {"idle", "open_lock", "open_done", "create_init", "create_link", "write_update",
        "trunc", "trunc_size", "free", "free_size", "free_type", "iput",
        "unlink_erase", "unlink_parent", "unlink_count",
        "mkdir_balloc", "mkdir_dots", "mkdir_link", "mkdir_parent",
        "ren_target", "ren_unlink", "ren_count", "ren_link", "ren_erase", "ren_put"}

DinodeType == [type : Types, nlink : Int, blk : 0 .. NBLOCKS]

\* The fields keep their types; in particular no reference count falls below 0.
TypeOK ==
  /\ dinode \in [Inums -> DinodeType]
  /\ used \subseteq Blocks
  /\ dir \in [Entries -> [name : Names \cup {NoName}, ino : 0 .. NINODES]]
  /\ rootLink \in Int
  /\ icache \in [Slots -> [inum : 0 .. NINODES, ref : Nat, valid : BOOLEAN, type : Types,
                           nlink : Int, blk : 0 .. NBLOCKS]]
  /\ handle \in [Procs -> 0 .. NSLOTS]
  /\ opened \in [Procs -> 0 .. NINODES]
  /\ lost \in [Slots -> 0 .. MaxLost]
  /\ pc \in [Procs -> PCs]
  /\ loc \in [Procs -> [s : 0 .. NSLOTS, old : 0 .. NSLOTS, name : Names \cup {NoName},
                        off : 0 .. NENTRIES, toff : 0 .. NENTRIES, blk : 0 .. NBLOCKS,
                        ret : {"idle", "open_done", "ren_link", "ren_put"}]]
  /\ crashes \in 0 .. MaxCrashes
  /\ torn \in BOOLEAN

Named(i) == \E o \in Entries : dir[o].ino = i
IsOpen(i) == \E p \in Procs : handle[p] # 0 /\ opened[p] = i
Forgotten(i) == \E s \in Slots : lost[s] > 0 /\ icache[s].inum = i
Idle == \A p \in Procs : pc[p] = "idle"

\* No longer name is cut to n.
Whole(n) == \A m \in Names : Cut[m] = n => m = n

\* At every moment, so also after the machine was switched off at any moment, the names in
\* the directory lead to inodes that are in use and count a link: create and mkdir write
\* the inode before the entry, unlink and rename erase the entry first.  A name to which no
\* longer one is cut is there at most once, dirlink having looked for it.
EntriesNameLiveInodes == torn \/
  \A o \in Entries : dir[o].ino # 0 =>
    /\ dinode[dir[o].ino].type # "free"
    /\ dinode[dir[o].ino].nlink > 0
    /\ Whole(dir[o].name) => \A q \in Entries : dir[q].name = dir[o].name => q = o

\* What the comment at the check of dirlink says (fs.c:612): a name is in the directory at
\* most once.  It is false: a name of DIRSIZ characters is not found again.
NamesAreDistinct ==
  \A o, q \in Entries : dir[o].ino # 0 /\ dir[q].name = dir[o].name => q = o

\* What the comment in sys_open says of a failed open (sysfile.c:203, that fileclose puts
\* the inode): between calls the references to a cache slot are the open files'.  It is
\* false: without a free descriptor the reference stays.
FailedOpensPut ==
  Idle => \A s \in Slots : icache[s].ref = Cardinality({p \in Procs : handle[p] = s})

\* No block belongs to a file that can be reached and to another one, on the disk, and
\* whatever such a file owns is marked in the bitmap unless itrunc is freeing it.
BlocksHaveOneOwner == torn \/
  \A i \in Inums : (Named(i) \/ IsOpen(i)) /\ dinode[i].blk # 0 =>
    /\ \/ dinode[i].blk \in used
       \/ \E p \in Procs : pc[p] = "trunc_size" /\ icache[loc[p].s].inum = i
    /\ \A j \in Inums \ {i} : Named(j) \/ IsOpen(j) => dinode[j].blk # dinode[i].blk

\* A file stays what it was while a process has it open, whoever unlinks it, renames
\* another file over it or opens and closes it: its cache slot still holds the inode that
\* was opened, and that inode is not free.
OpenFilesStay == torn \/
  \A p \in Procs : handle[p] # 0 =>
    /\ icache[handle[p]].ref > 0
    /\ icache[handle[p]].inum = opened[p]
    /\ dinode[opened[p]].type # "free"

\* Until the machine is switched off there is one way to leak a file: between calls every
\* file has a name, is open, or has a cache slot to which sys_open forgot a reference, and
\* every marked block belongs to an inode.  (Directories are left out: unlink leaves them a
\* link count of 1, and they are never freed.)
NothingElseLeaks ==
  Idle /\ crashes = 0 =>
    /\ \A i \in Inums : dinode[i].type = "file" => Named(i) \/ IsOpen(i) \/ Forgotten(i)
    /\ \A b \in used : \E i \in Inums : dinode[i].type # "free" /\ dinode[i].blk = b

\* Between calls the link count of a file is the number of its names, and that of the
\* root counts its subdirectories.
LinksAreCounted ==
  Idle /\ crashes = 0 =>
    /\ \A i \in Inums : dinode[i].type = "file" =>
         dinode[i].nlink = Cardinality({o \in Entries : dir[o].ino = i})
    /\ rootLink = 2 + Cardinality({o \in Entries : dir[o].ino # 0 /\ dinode[dir[o].ino].type = "dir"})
=============================================================================
