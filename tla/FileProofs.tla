----------------------------- MODULE FileProofs -----------------------------
(***************************************************************************)
(* Proofs about module FileTable, for every number of processes, files,    *)
(* descriptors, inodes and pages, where filealloc keeps out of the windows *)
(* of other processes (Serial) and a count out of other counts (Atomic).   *)
(*                                                                         *)
(* The key is what a reference is in the middle of a call: a descriptor,   *)
(* unless it has just been stored and is yet to be counted or its file has *)
(* been closed and it is yet to be cleared, or a file that a call has in   *)
(* its hands.  The count of a file is the number of its references at all  *)
(* times.                                                                  *)
(***************************************************************************)
EXTENDS FileTable, FiniteSetTheorems, WellFoundedInduction, TLAPS

\* A descriptor that is stored and not yet counted, or closed and not yet cleared.
Owes(p) == pc[p] = "dup_ref" \/ (pc[p] \in {"clear", "dup2_set", "exit_clear"} /\ loc[p].ret # "user")
OwedFd(p) == IF loc[p].ret = "dup2_set" THEN loc[p].new ELSE loc[p].fd

\* A call has its first or only file, or its second one, in its hands.
HandF(p) ==
  \/ pc[p] \in {"open_fd", "wf_test", "wf_take", "pipe_init", "pipe_fds"}
  \/ pc[p] = "drop" /\ loc[p].ret = "user"
HandG(p) == pc[p] \in {"pipe_init", "pipe_fds", "drop", "clear"}

\* Places where process p may have a reference: a descriptor, or a hand.
Places == -2 .. NOFILE - 1
IsRef(p, x, f) ==
  \/ x \in Fds /\ ofile[p][x] = f /\ ~(Owes(p) /\ x = OwedFd(p))
  \/ x = -1 /\ HandF(p) /\ loc[p].f = f
  \/ x = -2 /\ HandG(p) /\ loc[p].g = f
Refs(f) == {t \in Procs \X Places : IsRef(t[1], t[2], f)}

\* The count of a file is the number of its references.
Counts == \A f \in Files : file[f].ref = Cardinality(Refs(f))

\* What the point a process has reached says of its variables.
Fresh == {"open_fd", "open_init", "wf_test", "wf_take", "pipe_init", "pipe_fds"}
PipePcs == {"rf_test", "rf_take", "wf_test", "wf_take", "pipe_init", "pipe_fds"}
IpPcs == {"open_test", "open_take", "open_fd", "open_init", "chdir_put", "chdir_set"}
LocalOK(p) ==
  LET l == loc[p] IN
  /\ pc[p] \in {"user", "exit", "dead", "born"} => l = NoLocals
  /\ pc[p] \in Fresh \cup {"open_take", "rf_take", "drop", "clear", "dup_ref"} => l.f \in Files
  /\ pc[p] \in {"wf_take", "pipe_init", "pipe_fds"} => l.g \in Files /\ l.f # l.g
  /\ pc[p] \notin {"wf_take", "pipe_init", "pipe_fds", "drop", "clear"} => l.g = 0
  /\ pc[p] \in PipePcs => l.pg \in Pages
  /\ pc[p] \notin PipePcs \cup {"drop", "clear"} => l.pg = 0
  /\ pc[p] \in IpPcs => l.ip \in Inodes
  /\ pc[p] \notin {"drop", "clear", "dup2_set", "exit_clear"} => l.ret = "user"
  /\ l.ret # "user" => l.g = 0 /\ l.pg = 0
  /\ pc[p] = "dup2_set" => l.ret = "dup2_set"
  /\ pc[p] = "exit_clear" => l.ret = "exit_clear"
  /\ l.ret = "dup2_set" =>
       /\ l.fd \in Fds /\ l.new \in Fds /\ l.fd # l.new
       /\ ofile[p][l.fd] # 0 /\ ofile[p][l.new] = l.f
  /\ l.ret = "exit_clear" => l.fd \in Fds /\ ofile[p][l.fd] = l.f
  /\ pc[p] = "open_init" => \E fd \in Fds : ofile[p][fd] = l.f
  /\ pc[p] = "dup_ref" =>
       /\ l.fd \in Fds /\ ofile[p][l.fd] = l.f
       /\ \E fd \in Fds : fd # l.fd /\ ofile[p][fd] = l.f
  /\ pc[p] = "dead" => \A fd \in Fds : ofile[p][fd] = 0
  /\ pc[p] \in {"dead", "born"} => cwd[p] = 0
  /\ pc[p] \notin {"dead", "born"} => cwd[p] \in Inodes

\* A fork under way has a child of its own, with the descriptors copied so far.
ForkOK(p) ==
  pc[p] = "fork" =>
    /\ loc[p].child \in Procs /\ loc[p].child # p /\ pc[loc[p].child] = "born"
    /\ \A fd \in Fds : fd >= loc[p].fd => ofile[loc[p].child][fd] = 0
    /\ \A q \in Procs : pc[q] = "fork" /\ loc[q].child = loc[p].child => q = p

\* sys_pipe has freed the page under its files; such a call gets no further than fileclose.
Spoiling(p) == pc[p] \in {"drop", "clear"} /\ loc[p].g # 0

\* What it says of its files.
FileOK(p) ==
  LET f == file[loc[p].f]  g == file[loc[p].g] IN
  /\ pc[p] \in Fresh => f.ref = 1
  /\ pc[p] \in {"open_fd", "open_init", "wf_test", "wf_take", "pipe_init"} => f.type = "none"
  /\ pc[p] \in {"pipe_init", "pipe_fds"} => g.ref = 1
  /\ pc[p] = "pipe_init" => g.type = "none"
  /\ pc[p] = "pipe_fds" =>
       /\ f.type = "pipe" /\ f.pipe = loc[p].pg /\ ~f.writable
       /\ g.type = "pipe" /\ g.pipe = loc[p].pg /\ g.writable
  /\ pc[p] = "clear" => f.ref = 0
  /\ pc[p] = "drop" /\ loc[p].g # 0 =>
       /\ f.ref = 1 /\ f.type = "pipe" /\ f.pipe = loc[p].pg
       /\ loc[p].f \in stale
  /\ pc[p] = "clear" /\ loc[p].g # 0 => broken # "no"

\* filealloc is about to take a file that nobody has, and no other filealloc is; and no two
\* calls of fileclose clear one file.
TakeOK ==
  /\ \A p \in Procs : pc[p] \in Taking =>
       /\ file[Target(p)].ref = 0 /\ file[Target(p)].type = "none"
       /\ \A q \in Procs : pc[q] = "clear" => loc[q].f # Target(p)
       /\ \A q \in Procs : pc[q] \in Taking => q = p
  /\ \A p, q \in Procs : pc[p] = "clear" /\ pc[q] = "clear" /\ loc[p].f = loc[q].f => p = q

\* An unused file has no type, once fileclose has cleared it; a descriptor leads to a file
\* with one, once sys_open has set it; and the type says where the file leads to.
TypesOK ==
  /\ \A f \in Files : file[f].ref = 0 /\ file[f].type # "none" =>
       \E p \in Procs : pc[p] = "clear" /\ loc[p].f = f
  /\ \A p \in Procs, fd \in Fds : \A f \in Files : IsRef(p, fd, f) =>
       file[f].type # "none" \/ (pc[p] = "open_init" /\ loc[p].f = f)
  /\ \A f \in Files : file[f].type = "inode" => file[f].ip \in Inodes
  /\ \A f \in Files : file[f].type = "pipe" => file[f].pipe \in Pages

\* f is a writing (w) or reading end of pipe g.
IsEnd(f, g, w) == file[f].ref > 0 /\ file[f].type = "pipe" /\ file[f].pipe = g /\ file[f].writable = w

\* The page of a pipe is that of a sys_pipe under way, or it agrees with the files.
Held(p, g) == pc[p] \in PipePcs /\ loc[p].pg = g
HeldOK(p, g) ==
  /\ page[g] = [alloc |-> TRUE, readopen |-> TRUE, writeopen |-> TRUE]
  /\ \A f \in Files, w \in BOOLEAN : IsEnd(f, g, w) => pc[p] = "pipe_fds" /\ f \in {loc[p].f, loc[p].g}
  /\ \A q \in Procs : Held(q, g) => q = p
Agrees(g) ==
  /\ page[g].readopen <=> OpenEnd(g, FALSE)
  /\ page[g].writeopen <=> OpenEnd(g, TRUE)
  /\ page[g].alloc <=> page[g].readopen \/ page[g].writeopen
OneEnd(g) == \A w \in BOOLEAN : \A e, f \in Files : IsEnd(e, g, w) /\ IsEnd(f, g, w) => e = f
PageOK(g) ==
  /\ OneEnd(g)
  /\ \A p \in Procs : Held(p, g) => HeldOK(p, g)
  /\ (\A p \in Procs : ~Held(p, g)) => Agrees(g)
PagesOK == \A g \in Pages : (\E p \in Procs : Spoiling(p) /\ loc[p].pg = g) \/ PageOK(g)

\* The inductive invariant.
FileInv ==
  /\ TablesTyped /\ Counts /\ TakeOK /\ TypesOK /\ PagesOK /\ InodesInUseAreHeld
  /\ broken # "panic"
  /\ \A p \in Procs : LocalOK(p) /\ ForkOK(p) /\ FileOK(p)

-----------------------------------------------------------------------------
(* A count in one step.  Where counts keep out of one another (Atomic), the store of a    *)
(* count does what f->ref++ or --f->ref would do in one step.                             *)

AtomicDrop(p) ==
  /\ At(p, "drop")
  /\ file[loc[p].f].ref > 1
  /\ file' = [file EXCEPT ![loc[p].f].ref = @ - 1]
  /\ Resume(p)
  /\ UNCHANGED <<ofile, cwd, iref, page, stale, broken>>

AtomicLast(p) ==
  LET f == file[loc[p].f] IN
  /\ At(p, "drop")
  /\ f.ref <= 1
  /\ file' = [file EXCEPT ![loc[p].f].ref = 0]
  /\ IF f.type = "inode" THEN Iput(f.ip) ELSE UNCHANGED iref
  /\ IF f.type = "pipe" THEN page' = [page EXCEPT ![f.pipe] = Pipeclose(f.pipe, f.writable)]
                        ELSE UNCHANGED page
  /\ broken' = CASE f.ref < 1 -> "panic"
                 [] loc[p].f \in stale -> "freed"
                 [] OTHER -> broken
  /\ Goto(p, "clear")
  /\ UNCHANGED <<ofile, cwd, stale, loc>>

AtomicDup(p) ==
  /\ At(p, "dup_ref")
  /\ file' = [file EXCEPT ![loc[p].f].ref = @ + 1]
  /\ Return(p)
  /\ UNCHANGED <<ofile, cwd, iref, page, stale, broken>>

AtomicCopy(p) ==
  LET f == ofile[p][loc[p].fd] IN
  /\ At(p, "fork")
  /\ loc[p].fd < NOFILE
  /\ IF f # 0 THEN /\ SetFd(loc[p].child, loc[p].fd, f)
                   /\ file' = [file EXCEPT ![f].ref = @ + 1]
              ELSE UNCHANGED <<ofile, file>>
  /\ loc' = [loc EXCEPT ![p].fd = @ + 1]
  /\ UNCHANGED <<cwd, iref, page, pc, stale, broken>>

\* At most one count is under way, and what it has loaded is still the count of its file.
CountsOK ==
  /\ cnt \in [Procs -> Nat \cup {NoCount}]
  /\ \A p \in Procs : cnt[p] # NoCount =>
       /\ Counting(p)
       /\ cnt[p] = file[CountedFile(p)].ref
       /\ \A q \in Procs : cnt[q] # NoCount => q = p

-----------------------------------------------------------------------------
(* Counting references. *)

\* There are finitely many references.
LEMMA RefsFinite ==
  ASSUME NEW f
  PROVE  /\ IsFiniteSet(Refs(f))
         /\ \A p, x : <<p, x>> \in Refs(f) <=> p \in Procs /\ x \in Places /\ IsRef(p, x, f)
  <1>1. IsFiniteSet(Procs) /\ IsFiniteSet(Places)
    BY FS_Interval, FileAssumption DEF Procs, Places
  <1>2. IsFiniteSet(Procs \X Places)
    BY <1>1, FS_Product
  <1>3. Refs(f) \subseteq Procs \X Places
    BY DEF Refs
  <1> QED
    BY <1>2, <1>3, FS_Subset DEF Refs

\* The count of a file tells how many references there are, as far as it matters.
LEMMA CountIs ==
  ASSUME TablesTyped, Counts, NEW f \in Files
  PROVE  /\ file[f].ref \in Nat
         /\ \A p \in Procs, x \in Places : IsRef(p, x, f) => file[f].ref >= 1
         /\ \A p, q \in Procs : \A x, y \in Places :
              IsRef(p, x, f) /\ IsRef(q, y, f) /\ file[f].ref = 1 => p = q /\ x = y
  <1>1. IsFiniteSet(Refs(f)) /\ file[f].ref = Cardinality(Refs(f)) /\ Cardinality(Refs(f)) \in Nat
    BY RefsFinite, FS_CardinalityType DEF Counts
  <1>2. ASSUME NEW p \in Procs, NEW x \in Places, IsRef(p, x, f)
        PROVE  file[f].ref >= 1
    <2>1. <<p, x>> \in Refs(f)
      BY <1>2, RefsFinite
    <2>2. Cardinality(Refs(f)) # 0
      BY <1>1, <2>1, FS_EmptySet
    <2> QED
      BY <1>1, <2>2
  <1>3. ASSUME NEW p \in Procs, NEW q \in Procs, NEW x \in Places, NEW y \in Places,
               IsRef(p, x, f), IsRef(q, y, f), file[f].ref = 1
        PROVE  p = q /\ x = y
    <2>1. <<p, x>> \in Refs(f) /\ <<q, y>> \in Refs(f)
      BY <1>3, RefsFinite
    <2>2. PICK t : Refs(f) = {t}
      BY <1>1, <1>3, FS_Singleton
    <2> QED
      BY <2>1, <2>2
  <1> QED
    BY <1>1, <1>2, <1>3

\* The references to f stay, or one moves, comes or goes.
SameRefs(f) == \A q \in Procs, x \in Places : IsRef(q, x, f)' <=> IsRef(q, x, f)
MovedRef(f, p, x, y) ==
  /\ IsRef(p, x, f) /\ ~IsRef(p, y, f)
  /\ \A q \in Procs, z \in Places :
       IsRef(q, z, f)' <=> (q = p /\ z = y) \/ (IsRef(q, z, f) /\ ~(q = p /\ z = x))
MoreRefs(f, p, x) ==
  /\ ~IsRef(p, x, f)
  /\ \A q \in Procs, z \in Places : IsRef(q, z, f)' <=> (q = p /\ z = x) \/ IsRef(q, z, f)
FewerRefs(f, p, x) ==
  /\ IsRef(p, x, f)
  /\ \A q \in Procs, z \in Places : IsRef(q, z, f)' <=> IsRef(q, z, f) /\ ~(q = p /\ z = x)

\* What a step does to the references and to the count of f.
Counted(f, p) ==
  \/ SameRefs(f) /\ file'[f].ref = file[f].ref
  \/ \E x, y \in Places : MovedRef(f, p, x, y) /\ file'[f].ref = file[f].ref
  \/ \E q \in Procs, x \in Places : MoreRefs(f, q, x) /\ file'[f].ref = file[f].ref + 1
  \/ \E x \in Places : FewerRefs(f, p, x) /\ file'[f].ref = file[f].ref - 1

\* Such steps keep the count right.
LEMMA CountsKeep ==
  ASSUME Counts, NEW p \in Procs, \A f \in Files : Counted(f, p)
  PROVE  Counts'
  <1> SUFFICES ASSUME NEW f \in Files
               PROVE  file'[f].ref = Cardinality(Refs(f)')
    BY DEF Counts
  <1>1. IsFiniteSet(Refs(f)) /\ file[f].ref = Cardinality(Refs(f)) /\ Cardinality(Refs(f)) \in Nat
    BY RefsFinite, FS_CardinalityType DEF Counts
  <1>2. \A q, x : <<q, x>> \in Refs(f) <=> q \in Procs /\ x \in Places /\ IsRef(q, x, f)
    BY RefsFinite
  <1>3. \A q, x : <<q, x>> \in Refs(f)' <=> q \in Procs /\ x \in Places /\ IsRef(q, x, f)'
    BY DEF Refs
  <1>4. \A t \in Refs(f) \cup Refs(f)' : \E q \in Procs, x \in Places : t = <<q, x>>
    BY DEF Refs
  <1>5. CASE SameRefs(f) /\ file'[f].ref = file[f].ref
    <2>1. \A q \in Procs, x \in Places : <<q, x>> \in Refs(f)' <=> <<q, x>> \in Refs(f)
      BY <1>2, <1>3, <1>5 DEF SameRefs
    <2>2. Refs(f)' = Refs(f)
      BY <1>4, <2>1
    <2> QED
      BY <1>1, <1>5, <2>2
  <1>6. ASSUME NEW x \in Places, NEW y \in Places, MovedRef(f, p, x, y), file'[f].ref = file[f].ref
        PROVE  file'[f].ref = Cardinality(Refs(f)')
    <2>1. Refs(f)' = (Refs(f) \ {<<p, x>>}) \cup {<<p, y>>}
      BY <1>2, <1>3, <1>4, <1>6 DEF MovedRef
    <2>2. <<p, x>> \in Refs(f) /\ <<p, y>> \notin Refs(f)
      BY <1>2, <1>6 DEF MovedRef
    <2>3. /\ IsFiniteSet(Refs(f) \ {<<p, x>>})
          /\ Cardinality(Refs(f) \ {<<p, x>>}) = Cardinality(Refs(f)) - 1
      BY <1>1, <2>2, FS_RemoveElement
    <2>4. Cardinality((Refs(f) \ {<<p, x>>}) \cup {<<p, y>>}) = Cardinality(Refs(f) \ {<<p, x>>}) + 1
      BY <2>2, <2>3, FS_AddElement
    <2> QED
      BY <1>1, <1>6, <2>1, <2>3, <2>4
  <1>7. ASSUME NEW q \in Procs, NEW x \in Places, MoreRefs(f, q, x), file'[f].ref = file[f].ref + 1
        PROVE  file'[f].ref = Cardinality(Refs(f)')
    <2>1. Refs(f)' = Refs(f) \cup {<<q, x>>}
      BY <1>2, <1>3, <1>4, <1>7 DEF MoreRefs
    <2>2. <<q, x>> \notin Refs(f)
      BY <1>2, <1>7 DEF MoreRefs
    <2>3. Cardinality(Refs(f) \cup {<<q, x>>}) = Cardinality(Refs(f)) + 1
      BY <1>1, <2>2, FS_AddElement
    <2> QED
      BY <1>1, <1>7, <2>1, <2>3
  <1>8. ASSUME NEW x \in Places, FewerRefs(f, p, x), file'[f].ref = file[f].ref - 1
        PROVE  file'[f].ref = Cardinality(Refs(f)')
    <2>1. Refs(f)' = Refs(f) \ {<<p, x>>}
      BY <1>2, <1>3, <1>4, <1>8 DEF FewerRefs
    <2>2. <<p, x>> \in Refs(f)
      BY <1>2, <1>8 DEF FewerRefs
    <2>3. Cardinality(Refs(f) \ {<<p, x>>}) = Cardinality(Refs(f)) - 1
      BY <1>1, <2>2, FS_RemoveElement
    <2> QED
      BY <1>1, <1>8, <2>1, <2>3
  <1> QED
    BY <1>5, <1>6, <1>7, <1>8 DEF Counted
-----------------------------------------------------------------------------
(* A step is one of the processes A: a process, or a process and its child. *)

\* The other processes stay where they are, with what they have.
Only(A) ==
  \A q \in Procs : q \notin A =>
    pc'[q] = pc[q] /\ loc'[q] = loc[q] /\ ofile'[q] = ofile[q] /\ cwd'[q] = cwd[q]

\* Process q relies on what the file f is.
Relies(q, f) ==
  \/ pc[q] \in Fresh /\ loc[q].f = f
  \/ pc[q] \in {"pipe_init", "pipe_fds"} /\ loc[q].g = f
  \/ pc[q] = "drop" /\ loc[q].g # 0 /\ loc[q].f = f
  \/ pc[q] = "clear" /\ loc[q].f = f
  \/ pc[q] \in Taking /\ Target(q) = f
NotTheirs(A, f) == \A q \in Procs : q \notin A => ~Relies(q, f)

\* No other process relies on a file to which this one has a reference.
LEMMA OwnFile ==
  ASSUME FileInv, broken = "no", NEW p \in Procs, NEW x \in Places, NEW f \in Files, IsRef(p, x, f)
  PROVE  NotTheirs({p}, f)
  <1> SUFFICES ASSUME NEW q \in Procs, q # p, Relies(q, f)
               PROVE  FALSE
    BY DEF NotTheirs
  <1>1. LocalOK(q) /\ FileOK(q) /\ TakeOK /\ TablesTyped
    BY DEF FileInv
  <1>2. /\ file[f].ref \in Nat /\ file[f].ref >= 1
        /\ \A y \in Places : IsRef(q, y, f) => file[f].ref # 1
    BY CountIs DEF FileInv
  <1>3. -1 \in Places /\ -2 \in Places /\ Fds \subseteq Places
    BY FileAssumption DEF Places, Fds
  <1>4. CASE pc[q] \in Fresh \ {"open_init"} /\ loc[q].f = f
    <2>1. IsRef(q, -1, f)
      BY <1>4 DEF IsRef, HandF, Fresh
    <2> QED
      BY <1>1, <1>2, <1>3, <1>4, <2>1 DEF FileOK
  <1>5. CASE pc[q] = "open_init" /\ loc[q].f = f
    <2>1. PICK fd \in Fds : ofile[q][fd] = f
      BY <1>1, <1>5 DEF LocalOK
    <2>2. IsRef(q, fd, f)
      BY <1>5, <2>1 DEF IsRef, Owes
    <2> QED
      BY <1>1, <1>2, <1>3, <1>5, <2>2 DEF FileOK, Fresh
  <1>6. CASE pc[q] \in {"pipe_init", "pipe_fds"} /\ loc[q].g = f
    <2>1. IsRef(q, -2, f)
      BY <1>6 DEF IsRef, HandG
    <2> QED
      BY <1>1, <1>2, <1>3, <1>6, <2>1 DEF FileOK
  <1>7. CASE pc[q] = "drop" /\ loc[q].g # 0 /\ loc[q].f = f
    <2>1. IsRef(q, -1, f)
      BY <1>1, <1>7 DEF IsRef, HandF, LocalOK
    <2> QED
      BY <1>1, <1>2, <1>3, <1>7, <2>1 DEF FileOK
  <1>8. CASE pc[q] = "clear" /\ loc[q].f = f
    BY <1>1, <1>2, <1>8 DEF FileOK
  <1>9. CASE pc[q] \in Taking /\ Target(q) = f
    BY <1>1, <1>2, <1>9 DEF TakeOK
  <1> QED
    BY <1>4, <1>5, <1>6, <1>7, <1>8, <1>9 DEF Relies

\* What a step of A may do to file f.
Touched(A, f) ==
  \/ file'[f] = file[f]
  \/ /\ NotTheirs(A, f)
     /\ file'[f].type = "none" => file[f].type = "none" \/ file[f].ref = 0
     /\ file'[f].type = "inode" => file'[f].ip \in Inodes
     /\ file'[f].type = "pipe" => file'[f].pipe \in Pages
     /\ file'[f].ref = 0 /\ file'[f].type # "none" => \E a \in A : pc'[a] = "clear" /\ loc'[a].f = f

\* The references of other processes are not affected.
LEMMA OthersRefs ==
  ASSUME NEW A, Only(A), NEW q \in Procs, q \notin A, NEW x, NEW f
  PROVE  IsRef(q, x, f)' <=> IsRef(q, x, f)
  BY DEF Only, IsRef, Owes, OwedFd, HandF, HandG

\* What other processes know stays true.
LEMMA OthersKeep ==
  ASSUME FileInv, broken = "no", NEW A \in SUBSET Procs, Only(A), \A f \in Files : Touched(A, f),
         stale \subseteq stale', NEW q \in Procs, q \notin A
  PROVE  LocalOK(q)' /\ FileOK(q)'
  <1>1. /\ LocalOK(q) /\ FileOK(q)
        /\ pc'[q] = pc[q] /\ loc'[q] = loc[q] /\ ofile'[q] = ofile[q] /\ cwd'[q] = cwd[q]
    BY DEF FileInv, Only
  <1>2. LocalOK(q)'
    BY <1>1 DEF LocalOK
  <1>3. \A f \in Files : Relies(q, f) => file'[f] = file[f]
    BY DEF Touched, NotTheirs
  <1>4. pc[q] \in Fresh => loc[q].f \in Files /\ file'[loc[q].f] = file[loc[q].f]
    BY <1>1, <1>3 DEF LocalOK, Relies
  <1>5. pc[q] \in {"pipe_init", "pipe_fds"} => loc[q].g \in Files /\ file'[loc[q].g] = file[loc[q].g]
    BY <1>1, <1>3 DEF LocalOK, Relies
  <1>6. pc[q] = "clear" \/ (pc[q] = "drop" /\ loc[q].g # 0) => loc[q].f \in Files /\ file'[loc[q].f] = file[loc[q].f]
    BY <1>1, <1>3 DEF LocalOK, Relies
  <1>7. FileOK(q)'
    BY <1>1, <1>4, <1>5, <1>6 DEF FileOK, Fresh
  <1> QED
    BY <1>2, <1>7

\* The file filealloc is to take is one.
LEMMA TargetIs ==
  ASSUME FileInv, NEW q \in Procs, pc[q] \in Taking
  PROVE  Target(q) \in Files
  BY DEF FileInv, LocalOK, Taking, Target, Fresh

\* filealloc, fileclose and the types of files, after a step of A that is not the search.
LEMMA FilesKeep ==
  ASSUME FileInv, broken = "no", NEW A \in SUBSET Procs, Only(A), \A f \in Files : Touched(A, f),
         \A a \in A : pc'[a] \notin Taking,
         \A a \in A : pc'[a] = "clear" => loc'[a].f \in Files /\ NotTheirs(A, loc'[a].f),
         \A a, b \in A : pc'[a] = "clear" /\ pc'[b] = "clear" => a = b,
         \A a \in A : pc[a] = "clear" => file'[loc[a].f].type = "none",
         \A a \in A, fd \in Fds : \A f \in Files : IsRef(a, fd, f)' =>
           file'[f].type # "none" \/ (pc'[a] = "open_init" /\ loc'[a].f = f)
  PROVE  TakeOK' /\ TypesOK'
  <1>1. TakeOK'
    <2>1. ASSUME NEW p \in Procs, pc'[p] \in Taking
          PROVE  /\ file'[Target(p)'].ref = 0 /\ file'[Target(p)'].type = "none"
                 /\ \A q \in Procs : pc'[q] = "clear" => loc'[q].f # Target(p)'
                 /\ \A q \in Procs : pc'[q] \in Taking => q = p
      <3>1. p \notin A /\ pc[p] \in Taking /\ Target(p)' = Target(p) /\ Target(p) \in Files
        BY <2>1, TargetIs DEF Only, Target
      <3>2. Relies(p, Target(p))
        BY <3>1 DEF Relies
      <3>3. file'[Target(p)] = file[Target(p)]
        BY <3>1, <3>2 DEF Touched, NotTheirs
      <3>4. file[Target(p)].ref = 0 /\ file[Target(p)].type = "none"
        BY <3>1 DEF FileInv, TakeOK
      <3>5. ASSUME NEW q \in Procs, pc'[q] = "clear"
            PROVE  loc'[q].f # Target(p)
        <4>1. CASE q \in A
          BY <3>1, <3>2, <3>5, <4>1 DEF NotTheirs
        <4>2. CASE q \notin A
          BY <3>1, <3>5, <4>2 DEF Only, FileInv, TakeOK
        <4> QED
          BY <4>1, <4>2
      <3>6. ASSUME NEW q \in Procs, pc'[q] \in Taking
            PROVE  q = p
        BY <3>1, <3>6 DEF Only, FileInv, TakeOK
      <3> QED
        BY <3>1, <3>3, <3>4, <3>5, <3>6
    <2>2. ASSUME NEW p \in Procs, NEW q \in Procs, pc'[p] = "clear", pc'[q] = "clear", loc'[p].f = loc'[q].f
          PROVE  p = q
      <3>1. CASE p \in A /\ q \in A
        BY <2>2, <3>1
      <3>2. CASE p \in A /\ q \notin A
        BY <2>2, <3>2 DEF Only, NotTheirs, Relies
      <3>3. CASE p \notin A /\ q \in A
        BY <2>2, <3>3 DEF Only, NotTheirs, Relies
      <3>4. CASE p \notin A /\ q \notin A
        BY <2>2, <3>4 DEF Only, FileInv, TakeOK
      <3> QED
        BY <3>1, <3>2, <3>3, <3>4
    <2> QED
      BY <2>1, <2>2 DEF TakeOK
  <1>2. ASSUME NEW f \in Files, file'[f].ref = 0, file'[f].type # "none"
        PROVE  \E p \in Procs : pc'[p] = "clear" /\ loc'[p].f = f
    <2>1. CASE file'[f] = file[f]
      <3>1. PICK p \in Procs : pc[p] = "clear" /\ loc[p].f = f
        BY <1>2, <2>1 DEF FileInv, TypesOK
      <3>2. p \notin A
        BY <1>2, <3>1
      <3> QED
        BY <3>1, <3>2 DEF Only
    <2> QED
      BY <1>2, <2>1 DEF Touched
  <1>3. ASSUME NEW q \in Procs, NEW fd \in Fds, NEW f \in Files, IsRef(q, fd, f)'
        PROVE  file'[f].type # "none" \/ (pc'[q] = "open_init" /\ loc'[q].f = f)
    <2>1. CASE q \notin A
      <3>1. IsRef(q, fd, f)
        BY <1>3, <2>1, OthersRefs
      <3>2. fd \in Places
        BY FileAssumption DEF Fds, Places
      <3>3. file[f].ref # 0
        BY <3>1, <3>2, CountIs DEF FileInv
      <3>4. file[f].type # "none" \/ (pc[q] = "open_init" /\ loc[q].f = f)
        BY <3>1 DEF FileInv, TypesOK
      <3>5. file[f].type # "none" => file'[f].type # "none"
        BY <3>3 DEF Touched
      <3> QED
        BY <2>1, <3>4, <3>5 DEF Only
    <2> QED
      BY <1>3, <2>1
  <1>4. ASSUME NEW f \in Files
        PROVE  /\ file'[f].type = "inode" => file'[f].ip \in Inodes
               /\ file'[f].type = "pipe" => file'[f].pipe \in Pages
    BY DEF FileInv, TypesOK, Touched
  <1>5. TypesOK'
    BY <1>2, <1>3, <1>4 DEF TypesOK
  <1> QED
    BY <1>1, <1>5

\* The same for a step of p alone.
LEMMA FilesOne ==
  ASSUME FileInv, broken = "no", NEW p \in Procs, Only({p}), \A f \in Files : Touched({p}, f),
         pc'[p] \notin Taking,
         pc'[p] = "clear" => loc'[p].f \in Files /\ NotTheirs({p}, loc'[p].f),
         pc[p] = "clear" => file'[loc[p].f].type = "none",
         \A fd \in Fds : \A f \in Files : IsRef(p, fd, f)' =>
           file'[f].type # "none" \/ (pc'[p] = "open_init" /\ loc'[p].f = f)
  PROVE  TakeOK' /\ TypesOK'
  <1>1. {p} \in SUBSET Procs /\ \A a \in {p} : a = p
    OBVIOUS
  <1>2. \A a \in {p} : pc'[a] \notin Taking
    BY <1>1
  <1>3. \A a \in {p} : pc'[a] = "clear" => loc'[a].f \in Files /\ NotTheirs({p}, loc'[a].f)
    BY <1>1
  <1>4. \A a, b \in {p} : pc'[a] = "clear" /\ pc'[b] = "clear" => a = b
    BY <1>1
  <1>5. \A a \in {p} : pc[a] = "clear" => file'[loc[a].f].type = "none"
    BY <1>1
  <1>6. \A a \in {p}, fd \in Fds : \A f \in Files : IsRef(a, fd, f)' =>
           file'[f].type # "none" \/ (pc'[a] = "open_init" /\ loc'[a].f = f)
    BY <1>1
  <1> QED
    BY <1>1, <1>2, <1>3, <1>4, <1>5, <1>6, FilesKeep

-----------------------------------------------------------------------------
(* Inodes: who uses one. *)

FilesOn(i) == {f \in Files : file[f].ref > 0 /\ file[f].type = "inode" /\ file[f].ip = i}
DirsOf(i) == {p \in Procs : cwd[p] = i /\ pc[p] # "chdir_set"}
CallsOn(i) == {p \in Procs : loc[p].ip = i /\ pc[p] \in IpPcs}

\* A set of users has at most d members more than before.
Change(S, T, d) ==
  \/ d = 0 /\ T \subseteq S
  \/ d = 1 /\ \E x : T \subseteq S \cup {x}
  \/ d = -1 /\ \E x \in S : T \subseteq S \ {x}

\* Users come and go one at a time.
LEMMA SizeChange ==
  ASSUME NEW S, NEW T, NEW U, IsFiniteSet(U), S \subseteq U, T \subseteq U,
         NEW d \in {-1, 0, 1}, Change(S, T, d)
  PROVE  /\ Cardinality(S) \in Int /\ Cardinality(T) \in Int
         /\ Cardinality(T) <= Cardinality(S) + d
  <1>1. IsFiniteSet(S) /\ IsFiniteSet(T)
    BY FS_Subset
  <1>2. Cardinality(S) \in Nat /\ Cardinality(T) \in Nat
    BY <1>1, FS_CardinalityType
  <1>3. T \subseteq S => Cardinality(T) <= Cardinality(S)
    BY <1>1, FS_Subset
  <1>4. ASSUME NEW x, T \subseteq S \cup {x}
        PROVE  Cardinality(T) <= Cardinality(S) + 1
    <2>1. PICK V : V = S \cup {x}
      OBVIOUS
    <2>2. IsFiniteSet(V) /\ (Cardinality(V) = Cardinality(S) \/ Cardinality(V) = Cardinality(S) + 1)
      BY <1>1, <2>1, FS_AddElement
    <2>3. Cardinality(T) <= Cardinality(V)
      BY <1>4, <2>1, <2>2, FS_Subset
    <2> QED
      BY <1>2, <2>2, <2>3
  <1>5. ASSUME NEW x \in S, T \subseteq S \ {x}
        PROVE  Cardinality(T) <= Cardinality(S) - 1
    <2>1. PICK V : V = S \ {x}
      OBVIOUS
    <2>2. IsFiniteSet(V) /\ Cardinality(V) = Cardinality(S) - 1
      BY <1>1, <2>1, FS_RemoveElement
    <2>3. Cardinality(T) <= Cardinality(V)
      BY <1>5, <2>1, <2>2, FS_Subset
    <2> QED
      BY <1>2, <2>2, <2>3
  <1> QED
    BY <1>2, <1>3, <1>4, <1>5 DEF Change

\* As many references to an inode as there are users, after the step too.
LEMMA UsersKeep ==
  ASSUME NEW i \in Inodes, iref[i] >= InodeUsers(i), iref[i] \in Int, iref'[i] \in Int,
         NEW df \in {-1, 0, 1}, NEW dc \in {-1, 0, 1}, NEW dl \in {-1, 0, 1},
         Change(FilesOn(i), FilesOn(i)', df), Change(DirsOf(i), DirsOf(i)', dc),
         Change(CallsOn(i), CallsOn(i)', dl), iref'[i] >= iref[i] + df + dc + dl
  PROVE  iref'[i] >= InodeUsers(i)'
  <1>1. IsFiniteSet(Files) /\ IsFiniteSet(Procs)
    <2>1. 1 \in Int /\ NFILE \in Int /\ NPROC \in Int
      BY FileAssumption
    <2> QED
      BY <2>1, FS_Interval DEF Files, Procs
  <1>2. /\ FilesOn(i) \subseteq Files /\ FilesOn(i)' \subseteq Files
        /\ DirsOf(i) \subseteq Procs /\ DirsOf(i)' \subseteq Procs
        /\ CallsOn(i) \subseteq Procs /\ CallsOn(i)' \subseteq Procs
    BY DEF FilesOn, DirsOf, CallsOn
  <1>3. PICK A, B : A = FilesOn(i) /\ B = FilesOn(i)'
    OBVIOUS
  <1>4. Cardinality(A) \in Int /\ Cardinality(B) \in Int /\ Cardinality(B) <= Cardinality(A) + df
    BY <1>1, <1>2, <1>3, SizeChange
  <1>5. PICK C, D : C = DirsOf(i) /\ D = DirsOf(i)'
    OBVIOUS
  <1>6. Cardinality(C) \in Int /\ Cardinality(D) \in Int /\ Cardinality(D) <= Cardinality(C) + dc
    BY <1>1, <1>2, <1>5, SizeChange
  <1>7. PICK E, F : E = CallsOn(i) /\ F = CallsOn(i)'
    OBVIOUS
  <1>8. Cardinality(E) \in Int /\ Cardinality(F) \in Int /\ Cardinality(F) <= Cardinality(E) + dl
    BY <1>1, <1>2, <1>7, SizeChange
  <1>9. InodeUsers(i) = Cardinality(A) + Cardinality(C) + Cardinality(E)
    BY <1>3, <1>5, <1>7 DEF InodeUsers, FilesOn, DirsOf, CallsOn, IpPcs
  <1>10. InodeUsers(i)' = Cardinality(B) + Cardinality(D) + Cardinality(F)
    BY <1>3, <1>5, <1>7 DEF InodeUsers, FilesOn, DirsOf, CallsOn, IpPcs
  <1> QED
    BY <1>4, <1>6, <1>8, <1>9, <1>10

\* What a step may do to the users of i and to its count.
UsersMove(i) ==
  \E df, dc, dl \in {-1, 0, 1} :
    /\ Change(FilesOn(i), FilesOn(i)', df) /\ Change(DirsOf(i), DirsOf(i)', dc)
    /\ Change(CallsOn(i), CallsOn(i)', dl) /\ iref'[i] >= iref[i] + df + dc + dl

\* Such steps keep the inodes in use.
LEMMA InodesKeep ==
  ASSUME FileInv, TablesTyped', \A i \in Inodes : UsersMove(i)
  PROVE  InodesInUseAreHeld'
  <1> SUFFICES ASSUME NEW i \in Inodes
               PROVE  iref'[i] >= InodeUsers(i)'
    BY DEF InodesInUseAreHeld
  <1>1. iref[i] \in Int /\ iref'[i] \in Int /\ iref[i] >= InodeUsers(i)
    BY DEF FileInv, TablesTyped, InodesInUseAreHeld
  <1>2. PICK df \in {-1, 0, 1}, dc \in {-1, 0, 1}, dl \in {-1, 0, 1} :
          /\ Change(FilesOn(i), FilesOn(i)', df) /\ Change(DirsOf(i), DirsOf(i)', dc)
          /\ Change(CallsOn(i), CallsOn(i)', dl) /\ iref'[i] >= iref[i] + df + dc + dl
    BY DEF UsersMove
  <1> QED
    BY <1>1, <1>2, UsersKeep

\* A step that takes no user away and adds none.
LEMMA InodesSame ==
  ASSUME FileInv, TablesTyped', iref' = iref, NEW A \in SUBSET Procs, Only(A),
         \A f \in Files : file'[f].ref > 0 /\ file'[f].type = "inode" =>
           file[f].ref > 0 /\ file[f].type = "inode" /\ file'[f].ip = file[f].ip,
         \A a \in A : cwd'[a] = cwd[a] /\ pc[a] # "chdir_set",
         \A a \in A : pc'[a] \in IpPcs => pc[a] \in IpPcs /\ loc'[a].ip = loc[a].ip
  PROVE  InodesInUseAreHeld'
  <1>1. ASSUME NEW i \in Inodes
        PROVE  UsersMove(i)
    <2>1. FilesOn(i)' \subseteq FilesOn(i)
      BY DEF FilesOn
    <2>2. DirsOf(i)' \subseteq DirsOf(i)
      BY DEF DirsOf, Only
    <2>3. CallsOn(i)' \subseteq CallsOn(i)
      BY DEF CallsOn, Only
    <2>4. iref'[i] \in Int /\ iref'[i] >= iref[i] + 0 + 0 + 0
      BY DEF FileInv, TablesTyped
    <2> QED
      BY <2>1, <2>2, <2>3, <2>4 DEF UsersMove, Change
  <1> QED
    BY <1>1, InodesKeep

\* A step on one inode j.
LEMMA InodesBut ==
  ASSUME FileInv, TablesTyped', NEW j \in Inodes, UsersMove(j),
         \A i \in Inodes : i # j =>
           /\ iref'[i] = iref[i] /\ FilesOn(i)' \subseteq FilesOn(i)
           /\ DirsOf(i)' \subseteq DirsOf(i) /\ CallsOn(i)' \subseteq CallsOn(i)
  PROVE  InodesInUseAreHeld'
  <1>1. ASSUME NEW i \in Inodes, i # j
        PROVE  UsersMove(i)
    <2>1. iref'[i] \in Int /\ iref'[i] >= iref[i] + 0 + 0 + 0
      BY <1>1 DEF FileInv, TablesTyped
    <2> QED
      BY <1>1, <2>1 DEF UsersMove, Change
  <1> QED
    BY <1>1, InodesKeep

\* An inode with a user has a reference.
LEMMA UsedInode ==
  ASSUME FileInv, NEW i \in Inodes, FilesOn(i) # {} \/ DirsOf(i) # {} \/ CallsOn(i) # {}
  PROVE  iref[i] \in Nat /\ iref[i] >= 1
  <1>1. IsFiniteSet(Files) /\ IsFiniteSet(Procs)
    <2>1. 1 \in Int /\ NFILE \in Int /\ NPROC \in Int
      BY FileAssumption
    <2> QED
      BY <2>1, FS_Interval DEF Files, Procs
  <1>2. FilesOn(i) \subseteq Files /\ DirsOf(i) \subseteq Procs /\ CallsOn(i) \subseteq Procs
    BY DEF FilesOn, DirsOf, CallsOn
  <1>3. IsFiniteSet(FilesOn(i)) /\ IsFiniteSet(DirsOf(i)) /\ IsFiniteSet(CallsOn(i))
    BY <1>1, <1>2, FS_Subset
  <1>4. PICK A, B, C : A = FilesOn(i) /\ B = DirsOf(i) /\ C = CallsOn(i)
    OBVIOUS
  <1>5. Cardinality(A) \in Nat /\ Cardinality(B) \in Nat /\ Cardinality(C) \in Nat
    BY <1>3, <1>4, FS_CardinalityType
  <1>6. Cardinality(A) # 0 \/ Cardinality(B) # 0 \/ Cardinality(C) # 0
    BY <1>3, <1>4, FS_EmptySet
  <1>7. InodeUsers(i) = Cardinality(A) + Cardinality(B) + Cardinality(C)
    BY <1>4 DEF InodeUsers, FilesOn, DirsOf, CallsOn, IpPcs
  <1>8. iref[i] \in Nat /\ iref[i] >= InodeUsers(i)
    BY DEF FileInv, TablesTyped, InodesInUseAreHeld
  <1> QED
    BY <1>5, <1>6, <1>7, <1>8

-----------------------------------------------------------------------------
(* Pages of pipes. *)

\* A step that leaves a page, its ends and its holders alone.
LEMMA PageSame ==
  ASSUME NEW A \in SUBSET Procs, Only(A), NEW g \in Pages, page'[g] = page[g], PageOK(g),
         \A f \in Files, w \in BOOLEAN : IsEnd(f, g, w)' <=> IsEnd(f, g, w),
         \A a \in A : (Held(a, g)' <=> Held(a, g)) /\ (Held(a, g) => pc[a] # "pipe_fds")
  PROVE  PageOK(g)'
  <1>1. \A p \in Procs : Held(p, g)' <=> Held(p, g)
    BY DEF Only, Held
  <1>2. OneEnd(g)'
    BY DEF PageOK, OneEnd
  <1>3. ASSUME NEW p \in Procs, Held(p, g)'
        PROVE  HeldOK(p, g)'
    <2>1. Held(p, g) /\ HeldOK(p, g)
      BY <1>1, <1>3 DEF PageOK
    <2>2. page'[g] = [alloc |-> TRUE, readopen |-> TRUE, writeopen |-> TRUE]
      BY <2>1 DEF HeldOK
    <2>3. ASSUME NEW f \in Files, NEW w \in BOOLEAN, IsEnd(f, g, w)'
          PROVE  pc'[p] = "pipe_fds" /\ f \in {loc'[p].f, loc'[p].g}
      <3>1. pc[p] = "pipe_fds" /\ f \in {loc[p].f, loc[p].g}
        BY <2>1, <2>3 DEF HeldOK
      <3> QED
        BY <2>1, <3>1 DEF Only
    <2>4. \A q \in Procs : Held(q, g)' => q = p
      BY <1>1, <2>1 DEF HeldOK
    <2> QED
      BY <2>2, <2>3, <2>4 DEF HeldOK
  <1>4. ASSUME \A p \in Procs : ~Held(p, g)'
        PROVE  Agrees(g)'
    <2>1. Agrees(g)
      BY <1>1, <1>4 DEF PageOK
    <2>2. ASSUME NEW w \in BOOLEAN
          PROVE  OpenEnd(g, w)' <=> OpenEnd(g, w)
      BY DEF OpenEnd, IsEnd
    <2>3. (OpenEnd(g, TRUE)' <=> OpenEnd(g, TRUE)) /\ (OpenEnd(g, FALSE)' <=> OpenEnd(g, FALSE))
      BY <2>2
    <2> QED
      BY <2>1, <2>3 DEF Agrees
  <1> QED
    BY <1>2, <1>3, <1>4 DEF PageOK

\* A step that leaves all of them alone.
LEMMA PagesSame ==
  ASSUME FileInv, NEW A \in SUBSET Procs, Only(A), page' = page,
         \A f \in Files, g \in Pages, w \in BOOLEAN : IsEnd(f, g, w)' <=> IsEnd(f, g, w),
         \A a \in A, g \in Pages : Held(a, g)' <=> Held(a, g),
         \A a \in A : Spoiling(a) => Spoiling(a)' /\ loc'[a].pg = loc[a].pg,
         \A a \in A : pc[a] # "pipe_fds"
  PROVE  PagesOK'
  <1> SUFFICES ASSUME NEW g \in Pages, \A p \in Procs : ~(Spoiling(p)' /\ loc'[p].pg = g)
               PROVE  PageOK(g)'
    BY DEF PagesOK
  <1>1. \A p \in Procs : ~(Spoiling(p) /\ loc[p].pg = g)
    BY DEF Only, Spoiling
  <1>2. PageOK(g)
    BY <1>1 DEF FileInv, PagesOK
  <1> QED
    BY <1>2, PageSame

\* A step on one page g.
LEMMA PagesBut ==
  ASSUME FileInv, NEW A \in SUBSET Procs, Only(A), NEW g \in Pages,
         \A h \in Pages : h # g => page'[h] = page[h],
         \A f \in Files, h \in Pages, w \in BOOLEAN : h # g => (IsEnd(f, h, w)' <=> IsEnd(f, h, w)),
         \A a \in A, h \in Pages : h # g => ~Held(a, h) /\ ~Held(a, h)',
         \A a \in A : Spoiling(a) => Spoiling(a)' /\ loc'[a].pg = loc[a].pg,
         PageOK(g) => PageOK(g)' \/ \E p \in Procs : Spoiling(p)' /\ loc'[p].pg = g
  PROVE  PagesOK'
  <1> SUFFICES ASSUME NEW h \in Pages, \A p \in Procs : ~(Spoiling(p)' /\ loc'[p].pg = h)
               PROVE  PageOK(h)'
    BY DEF PagesOK
  <1>1. \A p \in Procs : ~(Spoiling(p) /\ loc[p].pg = h)
    BY DEF Only, Spoiling
  <1>2. PageOK(h)
    BY <1>1 DEF FileInv, PagesOK
  <1>3. CASE h = g
    BY <1>2, <1>3
  <1>4. CASE h # g
    BY <1>2, <1>4, PageSame
  <1> QED
    BY <1>3, <1>4

-----------------------------------------------------------------------------
(* Steps of one process. *)

\* Records of loc.
Locs == [f : 0 .. NFILE, g : 0 .. NFILE, fd : 0 .. NOFILE, new : 0 .. NOFILE, ip : 0 .. NINODE,
         pg : 0 .. NPAGE, child : 0 .. NPROC, ret : {"user", "dup2_set", "exit_clear"}]

\* A nonempty set of descriptors or files has a least member.
LEMMA LeastIs ==
  ASSUME NEW S \in SUBSET Nat, S # {}
  PROVE  Least(S) \in S
  <1> DEFINE R == {ss \in Nat \X Nat : ss[1] < ss[2]}
  <1>1. IsWellFoundedOn(R, Nat)
    BY NatLessThanWellFounded DEF OpToRel
  <1> HIDE DEF R
  <1>2. PICK x \in S : \A y \in S : ~(<<y, x>> \in R)
    BY <1>1, WFMin
  <1>3. \A x1, y1 \in Nat : ~(<<y1, x1>> \in R) => x1 <= y1
    BY DEF R
  <1>4. \A y \in S : x <= y
    BY <1>2, <1>3
  <1> QED
    BY <1>4 DEF Least

\* What p does to its references to f, and to the count.
MyRefs(f, p) ==
  \/ /\ \A z \in Places : IsRef(p, z, f)' <=> IsRef(p, z, f)
     /\ file'[f].ref = file[f].ref
  \/ \E x, y \in Places :
       /\ IsRef(p, x, f) /\ ~IsRef(p, y, f) /\ file'[f].ref = file[f].ref
       /\ \A z \in Places : IsRef(p, z, f)' <=> z = y \/ (IsRef(p, z, f) /\ z # x)
  \/ \E x \in Places :
       /\ ~IsRef(p, x, f) /\ file'[f].ref = file[f].ref + 1
       /\ \A z \in Places : IsRef(p, z, f)' <=> z = x \/ IsRef(p, z, f)
  \/ \E x \in Places :
       /\ IsRef(p, x, f) /\ file'[f].ref = file[f].ref - 1
       /\ \A z \in Places : IsRef(p, z, f)' <=> IsRef(p, z, f) /\ z # x

\* A step of p alone counts what p does to its references.
LEMMA MyRefsCount ==
  ASSUME NEW p \in Procs, Only({p}), NEW f \in Files, MyRefs(f, p)
  PROVE  Counted(f, p)
  <1>1. \A q \in Procs, x \in Places : q # p => (IsRef(q, x, f)' <=> IsRef(q, x, f))
    BY OthersRefs
  <1>2. CASE (\A z \in Places : IsRef(p, z, f)' <=> IsRef(p, z, f)) /\ file'[f].ref = file[f].ref
    BY <1>1, <1>2 DEF Counted, SameRefs
  <1>3. ASSUME NEW x \in Places, NEW y \in Places,
               IsRef(p, x, f), ~IsRef(p, y, f), file'[f].ref = file[f].ref,
               \A z \in Places : IsRef(p, z, f)' <=> z = y \/ (IsRef(p, z, f) /\ z # x)
        PROVE  Counted(f, p)
    <2>1. MovedRef(f, p, x, y)
      BY <1>1, <1>3 DEF MovedRef
    <2> QED
      BY <1>3, <2>1 DEF Counted
  <1>4. ASSUME NEW x \in Places, ~IsRef(p, x, f), file'[f].ref = file[f].ref + 1,
               \A z \in Places : IsRef(p, z, f)' <=> z = x \/ IsRef(p, z, f)
        PROVE  Counted(f, p)
    <2>1. MoreRefs(f, p, x)
      BY <1>1, <1>4 DEF MoreRefs
    <2> QED
      BY <1>4, <2>1 DEF Counted
  <1>5. ASSUME NEW x \in Places, IsRef(p, x, f), file'[f].ref = file[f].ref - 1,
               \A z \in Places : IsRef(p, z, f)' <=> IsRef(p, z, f) /\ z # x
        PROVE  Counted(f, p)
    <2>1. FewerRefs(f, p, x)
      BY <1>1, <1>5 DEF FewerRefs
    <2> QED
      BY <1>5, <2>1 DEF Counted
  <1> QED
    BY <1>2, <1>3, <1>4, <1>5 DEF MyRefs

\* What is to be shown of a step of p alone.
LEMMA OneStep ==
  ASSUME FileInv, broken = "no", NEW p \in Procs, Only({p}), TablesTyped',
         \A f \in Files : Touched({p}, f) /\ MyRefs(f, p),
         stale \subseteq stale', broken' # "panic", TakeOK', TypesOK', PagesOK', InodesInUseAreHeld',
         LocalOK(p)', FileOK(p)', pc[p] # "born", pc'[p] # "fork"
  PROVE  FileInv'
  <1>1. Counts'
    BY MyRefsCount, CountsKeep DEF FileInv
  <1>2. ASSUME NEW q \in Procs, q # p
        PROVE  LocalOK(q)' /\ FileOK(q)'
    <2>1. {p} \in SUBSET Procs /\ q \notin {p}
      BY <1>2
    <2> QED
      BY <2>1, OthersKeep
  <1>3. ASSUME NEW q \in Procs
        PROVE  ForkOK(q)'
    <2>1. CASE q = p
      BY <2>1 DEF ForkOK
    <2>2. CASE q # p /\ pc'[q] = "fork"
      <3>1. pc[q] = "fork" /\ loc'[q] = loc[q] /\ ForkOK(q)
        BY <2>2 DEF FileInv, Only
      <3>2. PICK c \in Procs : c = loc[q].child /\ c # q /\ pc[c] = "born"
        BY <3>1 DEF ForkOK
      <3>3. c # p /\ pc'[c] = "born" /\ ofile'[c] = ofile[c]
        BY <3>2 DEF Only
      <3>4. \A r \in Procs : pc'[r] = "fork" /\ loc'[r].child = c => r = q
        BY <3>1, <3>2 DEF ForkOK, Only
      <3> QED
        BY <3>1, <3>2, <3>3, <3>4 DEF ForkOK
    <2> QED
      BY <2>1, <2>2 DEF ForkOK
  <1>4. \A q \in Procs : LocalOK(q)' /\ ForkOK(q)' /\ FileOK(q)'
    BY <1>2, <1>3
  <1> QED
    BY <1>1, <1>4 DEF FileInv

\* What is to be shown of a step of p that leaves files and pages as they are.
LEMMA PlainStep ==
  ASSUME FileInv, broken = "no", NEW p \in Procs, Only({p}), TablesTyped', InodesInUseAreHeld',
         UNCHANGED <<file, page, stale, broken>>,
         \A f \in Files : MyRefs(f, p),
         LocalOK(p)', FileOK(p)',
         pc[p] \notin {"born", "clear", "pipe_fds"},
         pc'[p] \notin Taking \cup {"fork", "clear"},
         \A fd \in Fds : \A f \in Files : IsRef(p, fd, f)' =>
           file[f].type # "none" \/ (pc'[p] = "open_init" /\ loc'[p].f = f),
         \A g \in Pages : Held(p, g)' <=> Held(p, g),
         loc[p].g = 0 \/ pc[p] # "drop"
  PROVE  FileInv'
  <1>1. {p} \in SUBSET Procs /\ \A f \in Files : Touched({p}, f)
    BY DEF Touched
  <1>2. TakeOK' /\ TypesOK'
    BY <1>1, FilesKeep
  <1>3. PagesOK'
    <2>1. \A f \in Files, g \in Pages, w \in BOOLEAN : IsEnd(f, g, w)' <=> IsEnd(f, g, w)
      BY DEF IsEnd
    <2>2. ~Spoiling(p)
      BY DEF Spoiling
    <2> QED
      BY <1>1, <2>1, <2>2, PagesSame
  <1>4. broken' # "panic" /\ stale \subseteq stale'
    OBVIOUS
  <1> QED
    BY <1>1, <1>2, <1>3, <1>4, OneStep

\* And inodes too.
LEMMA MoveStep ==
  ASSUME FileInv, broken = "no", NEW p \in Procs, Only({p}), TablesTyped',
         UNCHANGED <<file, cwd, iref, page, stale, broken>>,
         \A f \in Files : MyRefs(f, p),
         LocalOK(p)', FileOK(p)',
         pc[p] \notin {"born", "chdir_set", "clear", "pipe_fds"},
         pc'[p] \notin Taking \cup {"fork", "clear"},
         \A fd \in Fds : \A f \in Files : IsRef(p, fd, f)' =>
           file[f].type # "none" \/ (pc'[p] = "open_init" /\ loc'[p].f = f),
         \A g \in Pages : Held(p, g)' <=> Held(p, g),
         loc[p].g = 0 \/ pc[p] # "drop",
         pc'[p] \in IpPcs => pc[p] \in IpPcs /\ loc'[p].ip = loc[p].ip
  PROVE  FileInv'
  <1>1. {p} \in SUBSET Procs
    OBVIOUS
  <1>2. InodesInUseAreHeld'
    BY <1>1, InodesSame
  <1> QED
    BY <1>2, PlainStep

\* What the invariant says of process p.
LEMMA ProcIs ==
  ASSUME FileInv, NEW p \in Procs
  PROVE  /\ LocalOK(p) /\ ForkOK(p) /\ FileOK(p) /\ loc[p] \in Locs /\ pc[p] \in PCs
         /\ ofile[p] \in [Fds -> 0 .. NFILE] /\ cwd[p] \in 0 .. NINODE
  BY DEF FileInv, TablesTyped, Locs

\* Places, and what is not a file.
LEMMA PlacesAre ==
  /\ -1 \in Places /\ -2 \in Places /\ -1 \notin Fds /\ -2 \notin Fds /\ -1 # -2
  /\ Fds \subseteq Places /\ Fds \in SUBSET Nat /\ Files \in SUBSET Nat
  /\ \A z \in Places : z \in Fds \/ z = -1 \/ z = -2
  /\ 0 \notin Files /\ Files \subseteq 0 .. NFILE /\ \A f \in 0 .. NFILE : f # 0 => f \in Files
  /\ 0 \in 0 .. NFILE /\ 0 \in 0 .. NINODE /\ 0 \in 0 .. NPAGE /\ 0 \in 0 .. NPROC /\ 0 \in 0 .. NOFILE
  /\ Fds \subseteq 0 .. NOFILE /\ Inodes \subseteq 0 .. NINODE /\ Pages \subseteq 0 .. NPAGE
  /\ Procs \subseteq 0 .. NPROC
  BY FileAssumption DEF Places, Fds, Files, Inodes, Pages, Procs

\* sys_open stores the file in a descriptor, or finds none.
LEMMA OpenFdStep ==
  ASSUME FileInv, NEW p \in Procs, OpenFd(p)
  PROVE  FileInv'
  <1>1. /\ LocalOK(p) /\ FileOK(p) /\ loc[p] \in Locs /\ pc[p] = "open_fd" /\ broken = "no" /\ TablesTyped
        /\ ofile[p] \in [Fds -> 0 .. NFILE]
    BY ProcIs DEF OpenFd, At, Within, FileInv
  <1>2. /\ loc[p].f \in Files /\ loc[p].g = 0 /\ loc[p].pg = 0 /\ loc[p].ret = "user" /\ loc[p].ip \in Inodes
        /\ cwd[p] \in Inodes /\ file[loc[p].f].ref = 1 /\ file[loc[p].f].type = "none"
    BY <1>1 DEF LocalOK, FileOK, Fresh, PipePcs, IpPcs
  <1>3. UNCHANGED <<file, cwd, iref, page, loc, stale, broken>>
    BY DEF OpenFd
  <1>4. CASE FreeFds(p, 0) # {}
    <2>1. PICK fd \in Fds : ofile[p][fd] = 0 /\ ofile' = [ofile EXCEPT ![p][fd] = loc[p].f] /\ pc' = [pc EXCEPT ![p] = "open_init"]
      <3>1. Least(FreeFds(p, 0)) \in FreeFds(p, 0)
        BY <1>4, LeastIs, PlacesAre DEF FreeFds
      <3> QED
        BY <1>4, <3>1 DEF OpenFd, FreeFds, SetFd, Goto
    <2>2. TablesTyped'
      BY <1>1, <1>2, <1>3, <2>1, PlacesAre DEF TablesTyped, PCs
    <2>3. Only({p}) /\ pc'[p] = "open_init" /\ ofile'[p] = [ofile[p] EXCEPT ![fd] = loc[p].f]
      BY <1>1, <1>3, <2>1 DEF Only, TablesTyped
    <2>4. \A f \in Files : MyRefs(f, p)
      <3> SUFFICES ASSUME NEW f \in Files
                   PROVE  MyRefs(f, p)
        OBVIOUS
      <3>1. CASE f = loc[p].f
        <4>1. IsRef(p, -1, f) /\ ~IsRef(p, fd, f)
          BY <1>1, <1>2, <2>1, <3>1, PlacesAre DEF IsRef, HandF
        <4>2. \A z \in Places : IsRef(p, z, f)' <=> z = fd \/ (IsRef(p, z, f) /\ z # -1)
          BY <1>1, <1>2, <1>3, <2>1, <2>3, <3>1, PlacesAre DEF IsRef, HandF, HandG, Owes
        <4> QED
          BY <1>3, <4>1, <4>2, PlacesAre DEF MyRefs
      <3>2. CASE f # loc[p].f
        <4>1. \A z \in Places : IsRef(p, z, f)' <=> IsRef(p, z, f)
          BY <1>1, <1>2, <1>3, <2>1, <2>3, <3>2, PlacesAre DEF IsRef, HandF, HandG, Owes
        <4> QED
          BY <1>3, <4>1 DEF MyRefs
      <3> QED
        BY <3>1, <3>2
    <2>5. LocalOK(p)'
      BY <1>1, <1>2, <1>3, <2>3 DEF LocalOK, Fresh, PipePcs, IpPcs
    <2>6. FileOK(p)'
      BY <1>2, <1>3, <2>3 DEF FileOK
    <2>7. ASSUME NEW x \in Fds, NEW f \in Files, IsRef(p, x, f)'
          PROVE  file[f].type # "none" \/ (pc'[p] = "open_init" /\ loc'[p].f = f)
      <3>1. CASE IsRef(p, x, f)
        BY <1>1, <3>1 DEF FileInv, TypesOK
      <3>2. CASE f = loc[p].f
        BY <1>3, <2>3, <3>2
      <3> QED
        BY <1>1, <1>2, <1>3, <2>1, <2>3, <2>7, <3>1, <3>2, PlacesAre DEF IsRef, HandF, HandG, Owes
    <2>8. \A g \in Pages : Held(p, g)' <=> Held(p, g)
      BY <1>1, <2>3 DEF Held, PipePcs
    <2> QED
      BY <1>1, <1>2, <1>3, <2>2, <2>3, <2>4, <2>5, <2>6, <2>7, <2>8, MoveStep DEF Taking, IpPcs
  <1>5. CASE FreeFds(p, 0) = {}
    <2>1. ofile' = ofile /\ pc' = [pc EXCEPT ![p] = "drop"]
      BY <1>5 DEF OpenFd, Goto
    <2>2. TablesTyped'
      BY <1>1, <1>3, <2>1 DEF TablesTyped, PCs
    <2>3. Only({p}) /\ pc'[p] = "drop"
      BY <1>1, <1>3, <2>1 DEF Only, TablesTyped
    <2>4. \A f \in Files, z \in Places : IsRef(p, z, f)' <=> IsRef(p, z, f)
      BY <1>1, <1>2, <1>3, <2>1, <2>3, PlacesAre DEF IsRef, HandF, HandG, Owes
    <2>5. \A f \in Files : MyRefs(f, p)
      BY <1>3, <2>4 DEF MyRefs
    <2>6. LocalOK(p)'
      BY <1>1, <1>2, <1>3, <2>1, <2>3 DEF LocalOK, Fresh, PipePcs, IpPcs
    <2>7. FileOK(p)'
      BY <1>2, <1>3, <2>3 DEF FileOK, Fresh
    <2>8. \A x \in Fds : \A f \in Files : IsRef(p, x, f)' => file[f].type # "none"
      BY <1>1, <2>4, PlacesAre DEF FileInv, TypesOK
    <2>9. \A g \in Pages : Held(p, g)' <=> Held(p, g)
      BY <1>1, <2>3 DEF Held, PipePcs
    <2> QED
      BY <1>1, <1>2, <1>3, <2>2, <2>3, <2>5, <2>6, <2>7, <2>8, <2>9, MoveStep DEF Taking, IpPcs
  <1> QED
    BY <1>4, <1>5

\* What a process has that is not in a call.
LEMMA UserIs ==
  ASSUME FileInv, NEW p \in Procs, pc[p] \in {"user", "exit"}
  PROVE  /\ TablesTyped /\ loc[p] = NoLocals /\ NoLocals \in Locs /\ cwd[p] \in Inodes
         /\ ofile[p] \in [Fds -> 0 .. NFILE] /\ ~Owes(p) /\ ~HandF(p) /\ ~HandG(p)
         /\ loc[p].f = 0 /\ loc[p].g = 0 /\ loc[p].fd = 0 /\ loc[p].new = 0 /\ loc[p].ip = 0
         /\ loc[p].pg = 0 /\ loc[p].child = 0 /\ loc[p].ret = "user"
         /\ \A f \in Files, z \in Places : IsRef(p, z, f) <=> z \in Fds /\ ofile[p][z] = f
  <1>1. TablesTyped /\ loc[p] = NoLocals /\ cwd[p] \in Inodes /\ ofile[p] \in [Fds -> 0 .. NFILE]
    BY ProcIs DEF LocalOK, FileInv
  <1>2. NoLocals \in Locs
    BY PlacesAre DEF NoLocals, Locs
  <1>3. ~Owes(p) /\ ~HandF(p) /\ ~HandG(p)
    BY DEF Owes, HandF, HandG
  <1>4. \A f \in Files, z \in Places : IsRef(p, z, f) <=> z \in Fds /\ ofile[p][z] = f
    BY <1>3, PlacesAre DEF IsRef
  <1> QED
    BY <1>1, <1>2, <1>3, <1>4 DEF NoLocals

\* close takes the file off the descriptor.
LEMMA CloseStep ==
  ASSUME FileInv, NEW p \in Procs, NEW fd \in Fds, Close(p, fd)
  PROVE  FileInv'
  <1>1. pc[p] = "user" /\ broken = "no" /\ ofile[p][fd] # 0
    BY DEF Close, At, Within
  <1>2. /\ TablesTyped /\ loc[p] \in Locs /\ cwd[p] \in Inodes /\ ofile[p] \in [Fds -> 0 .. NFILE]
        /\ loc[p].g = 0 /\ loc[p].pg = 0 /\ loc[p].ret = "user"
        /\ \A f \in Files, z \in Places : IsRef(p, z, f) <=> z \in Fds /\ ofile[p][z] = f
    BY <1>1, UserIs
  <1>3. UNCHANGED <<file, cwd, iref, page, stale, broken>>
    BY DEF Close
  <1>4. PICK e \in Files : e = ofile[p][fd]
    BY <1>1, <1>2, PlacesAre
  <1>5. PICK l : l = [loc[p] EXCEPT !.f = e]
    OBVIOUS
  <1>6. l \in Locs /\ l.f = e /\ l.g = 0 /\ l.pg = 0 /\ l.ret = "user"
    BY <1>2, <1>4, <1>5, PlacesAre DEF Locs
  <1>7. /\ loc' = [loc EXCEPT ![p] = l] /\ pc' = [pc EXCEPT ![p] = "drop"]
        /\ ofile' = [ofile EXCEPT ![p][fd] = 0]
    BY <1>4, <1>5 DEF Close, SetFd, Goto
  <1>8. TablesTyped'
    BY <1>2, <1>3, <1>6, <1>7, PlacesAre DEF TablesTyped, PCs, Locs
  <1>9. Only({p}) /\ pc'[p] = "drop" /\ ofile'[p] = [ofile[p] EXCEPT ![fd] = 0] /\ loc'[p] = l /\ cwd'[p] = cwd[p]
    BY <1>2, <1>3, <1>7 DEF Only, TablesTyped
  <1>10. \A f \in Files, z \in Places : IsRef(p, z, f)' <=> (z = -1 /\ f = e) \/ (z \in Fds /\ z # fd /\ ofile[p][z] = f)
    BY <1>2, <1>6, <1>9, PlacesAre DEF IsRef, HandF, HandG, Owes
  <1>11. ASSUME NEW f \in Files
         PROVE  MyRefs(f, p)
    <2>1. CASE f = e
      <3>1. \A z \in Places : IsRef(p, z, f)' <=> z = -1 \/ (IsRef(p, z, f) /\ z # fd)
        BY <1>2, <1>10, <2>1, PlacesAre
      <3>2. IsRef(p, fd, f) /\ ~IsRef(p, -1, f)
        BY <1>2, <1>4, <2>1, PlacesAre
      <3> QED
        BY <1>3, <3>1, <3>2, PlacesAre DEF MyRefs
    <2>2. CASE f # e
      <3>1. \A z \in Places : IsRef(p, z, f)' <=> IsRef(p, z, f)
        BY <1>2, <1>4, <1>10, <2>2
      <3> QED
        BY <1>3, <3>1 DEF MyRefs
    <2> QED
      BY <2>1, <2>2
  <1>12. LocalOK(p)'
    BY <1>2, <1>6, <1>9 DEF LocalOK, Fresh, PipePcs, IpPcs
  <1>13. FileOK(p)'
    BY <1>6, <1>9 DEF FileOK, Fresh
  <1>14. \A x \in Fds : \A f \in Files : IsRef(p, x, f)' => file[f].type # "none"
    BY <1>1, <1>2, <1>10, PlacesAre DEF FileInv, TypesOK
  <1>15. \A g \in Pages : Held(p, g)' <=> Held(p, g)
    BY <1>1, <1>9 DEF Held, PipePcs
  <1> QED
    BY <1>1, <1>2, <1>3, <1>8, <1>9, <1>11, <1>12, <1>13, <1>14, <1>15, MoveStep DEF Taking, IpPcs

\* dup and fcntl store the file in a second descriptor.
LEMMA DupStep ==
  ASSUME FileInv, NEW p \in Procs, NEW old \in Fds, NEW from \in Fds, Dup(p, old, from)
  PROVE  FileInv'
  <1>1. pc[p] = "user" /\ broken = "no" /\ ofile[p][old] # 0
    BY DEF Dup, At, Within
  <1>2. /\ TablesTyped /\ loc[p] \in Locs /\ cwd[p] \in Inodes /\ ofile[p] \in [Fds -> 0 .. NFILE]
        /\ loc[p].g = 0 /\ loc[p].pg = 0 /\ loc[p].ret = "user"
        /\ \A f \in Files, z \in Places : IsRef(p, z, f) <=> z \in Fds /\ ofile[p][z] = f
    BY <1>1, UserIs
  <1>3. UNCHANGED <<file, cwd, iref, page, stale, broken>>
    BY DEF Dup
  <1>4. PICK e \in Files : e = ofile[p][old]
    BY <1>1, <1>2, PlacesAre
  <1>5. PICK fd \in Fds : fd = Least(FreeFds(p, from)) /\ ofile[p][fd] = 0
    <2>1. FreeFds(p, from) \in SUBSET Nat /\ FreeFds(p, from) # {}
      BY PlacesAre DEF Dup, FreeFds
    <2>2. Least(FreeFds(p, from)) \in FreeFds(p, from)
      BY <2>1, LeastIs
    <2> QED
      BY <2>2 DEF FreeFds
  <1>6. PICK l : l = [[loc[p] EXCEPT !.f = e] EXCEPT !.fd = fd]
    OBVIOUS
  <1>7. l \in Locs /\ l.f = e /\ l.fd = fd /\ l.g = 0 /\ l.pg = 0 /\ l.ret = "user"
    BY <1>2, <1>4, <1>5, <1>6, PlacesAre DEF Locs
  <1>8. /\ loc' = [loc EXCEPT ![p] = l] /\ pc' = [pc EXCEPT ![p] = "dup_ref"]
        /\ ofile' = [ofile EXCEPT ![p][fd] = e]
    BY <1>2, <1>4, <1>5, <1>6 DEF Dup, SetFd, Goto, TablesTyped
  <1>9. TablesTyped'
    BY <1>2, <1>3, <1>7, <1>8, PlacesAre DEF TablesTyped, PCs, Locs
  <1>10. Only({p}) /\ pc'[p] = "dup_ref" /\ ofile'[p] = [ofile[p] EXCEPT ![fd] = e] /\ loc'[p] = l /\ cwd'[p] = cwd[p]
    BY <1>2, <1>3, <1>8 DEF Only, TablesTyped
  <1>11. \A f \in Files, z \in Places : IsRef(p, z, f)' <=> IsRef(p, z, f)
    BY <1>2, <1>5, <1>7, <1>10, PlacesAre DEF IsRef, HandF, HandG, Owes, OwedFd
  <1>12. \A f \in Files : MyRefs(f, p)
    BY <1>3, <1>11 DEF MyRefs
  <1>13. LocalOK(p)'
    <2>1. old # fd /\ ofile'[p][old] = e /\ ofile'[p][fd] = e
      BY <1>1, <1>2, <1>4, <1>5, <1>10
    <2> QED
      BY <1>2, <1>7, <1>10, <2>1 DEF LocalOK, Fresh, PipePcs, IpPcs
  <1>14. FileOK(p)'
    BY <1>7, <1>10 DEF FileOK, Fresh
  <1>15. \A x \in Fds : \A f \in Files : IsRef(p, x, f)' => file[f].type # "none"
    BY <1>1, <1>11, PlacesAre DEF FileInv, TypesOK
  <1>16. \A g \in Pages : Held(p, g)' <=> Held(p, g)
    BY <1>1, <1>10 DEF Held, PipePcs
  <1> QED
    BY <1>1, <1>2, <1>3, <1>9, <1>10, <1>12, <1>13, <1>14, <1>15, <1>16, MoveStep DEF Taking, IpPcs

\* dup2 begins.
LEMMA Dup2Step ==
  ASSUME FileInv, NEW p \in Procs, NEW old \in Fds, NEW new \in Fds, Dup2(p, old, new)
  PROVE  FileInv'
  <1>1. pc[p] = "user" /\ broken = "no" /\ ofile[p][old] # 0 /\ old # new
    BY DEF Dup2, At, Within
  <1>2. /\ TablesTyped /\ loc[p] \in Locs /\ cwd[p] \in Inodes /\ ofile[p] \in [Fds -> 0 .. NFILE]
        /\ loc[p].g = 0 /\ loc[p].pg = 0 /\ loc[p].ret = "user"
        /\ \A f \in Files, z \in Places : IsRef(p, z, f) <=> z \in Fds /\ ofile[p][z] = f
    BY <1>1, UserIs
  <1>3. UNCHANGED <<file, ofile, cwd, iref, page, stale, broken>>
    BY DEF Dup2
  <1>4. PICK l : l = [[[[loc[p] EXCEPT !.fd = old] EXCEPT !.new = new] EXCEPT !.f = ofile[p][new]] EXCEPT !.ret = "dup2_set"]
    OBVIOUS
  <1>5. l \in Locs /\ l.f = ofile[p][new] /\ l.fd = old /\ l.new = new /\ l.g = 0 /\ l.pg = 0 /\ l.ret = "dup2_set"
    BY <1>2, <1>4, PlacesAre DEF Locs
  <1>6. PICK s \in {"drop", "dup2_set"} : s = IF ofile[p][new] # 0 THEN "drop" ELSE "dup2_set"
    OBVIOUS
  <1>7. loc' = [loc EXCEPT ![p] = l] /\ pc' = [pc EXCEPT ![p] = s]
    BY <1>2, <1>4, <1>6 DEF Dup2, Goto, TablesTyped
  <1>8. TablesTyped'
    BY <1>2, <1>3, <1>5, <1>7, PlacesAre DEF TablesTyped, PCs, Locs
  <1>9. Only({p}) /\ pc'[p] = s /\ ofile'[p] = ofile[p] /\ loc'[p] = l /\ cwd'[p] = cwd[p]
    BY <1>2, <1>3, <1>7 DEF Only, TablesTyped
  <1>10. \A f \in Files, z \in Places : IsRef(p, z, f)' <=> IsRef(p, z, f)
    BY <1>2, <1>5, <1>6, <1>9, PlacesAre DEF IsRef, HandF, HandG, Owes, OwedFd
  <1>11. \A f \in Files : MyRefs(f, p)
    BY <1>3, <1>10 DEF MyRefs
  <1>12. LocalOK(p)'
    BY <1>1, <1>2, <1>5, <1>6, <1>9, PlacesAre DEF LocalOK, Fresh, PipePcs, IpPcs
  <1>13. FileOK(p)'
    BY <1>5, <1>9 DEF FileOK, Fresh
  <1>14. \A x \in Fds : \A f \in Files : IsRef(p, x, f)' => file[f].type # "none"
    BY <1>1, <1>10, PlacesAre DEF FileInv, TypesOK
  <1>15. \A g \in Pages : Held(p, g)' <=> Held(p, g)
    BY <1>1, <1>9 DEF Held, PipePcs
  <1> QED
    BY <1>1, <1>2, <1>3, <1>8, <1>9, <1>11, <1>12, <1>13, <1>14, <1>15, MoveStep DEF Taking, IpPcs

\* dup2 stores the file in the descriptor.
LEMMA Dup2SetStep ==
  ASSUME FileInv, NEW p \in Procs, Dup2Set(p)
  PROVE  FileInv'
  <1>1. /\ LocalOK(p) /\ loc[p] \in Locs /\ pc[p] = "dup2_set" /\ broken = "no" /\ TablesTyped
        /\ ofile[p] \in [Fds -> 0 .. NFILE]
    BY ProcIs DEF Dup2Set, At, Within, FileInv
  <1>2. /\ loc[p].ret = "dup2_set" /\ loc[p].fd \in Fds /\ loc[p].new \in Fds /\ loc[p].fd # loc[p].new
        /\ ofile[p][loc[p].fd] # 0 /\ ofile[p][loc[p].new] = loc[p].f /\ cwd[p] \in Inodes /\ loc[p].g = 0
    BY <1>1 DEF LocalOK
  <1>3. UNCHANGED <<file, cwd, iref, page, stale, broken>>
    BY DEF Dup2Set
  <1>4. PICK e \in Files : e = ofile[p][loc[p].fd]
    BY <1>1, <1>2, PlacesAre
  <1>5. PICK old \in Fds, fd \in Fds : old = loc[p].fd /\ fd = loc[p].new
    BY <1>2
  <1>6. PICK l : l = [[NoLocals EXCEPT !.f = e] EXCEPT !.fd = fd]
    OBVIOUS
  <1>7. l \in Locs /\ l.f = e /\ l.fd = fd /\ l.g = 0 /\ l.pg = 0 /\ l.ret = "user"
    BY <1>4, <1>5, <1>6, PlacesAre DEF Locs, NoLocals
  <1>8. /\ loc' = [loc EXCEPT ![p] = l] /\ pc' = [pc EXCEPT ![p] = "dup_ref"]
        /\ ofile' = [ofile EXCEPT ![p][fd] = e]
    BY <1>4, <1>5, <1>6 DEF Dup2Set, SetFd, Goto, NoLocals
  <1>9. TablesTyped'
    BY <1>1, <1>3, <1>7, <1>8, PlacesAre DEF TablesTyped, PCs, Locs
  <1>10. Only({p}) /\ pc'[p] = "dup_ref" /\ ofile'[p] = [ofile[p] EXCEPT ![fd] = e] /\ loc'[p] = l /\ cwd'[p] = cwd[p]
    BY <1>1, <1>3, <1>8 DEF Only, TablesTyped
  <1>11. \A f \in Files, z \in Places : IsRef(p, z, f) <=> z \in Fds /\ z # fd /\ ofile[p][z] = f
    BY <1>1, <1>2, <1>5, PlacesAre DEF IsRef, HandF, HandG, Owes, OwedFd
  <1>12. \A f \in Files, z \in Places : IsRef(p, z, f)' <=> z \in Fds /\ z # fd /\ ofile[p][z] = f
    BY <1>1, <1>5, <1>7, <1>10, PlacesAre DEF IsRef, HandF, HandG, Owes, OwedFd
  <1>13. \A f \in Files : MyRefs(f, p)
    BY <1>3, <1>11, <1>12 DEF MyRefs
  <1>14. LocalOK(p)'
    <2>1. old # fd /\ ofile'[p][old] = e /\ ofile'[p][fd] = e
      BY <1>1, <1>2, <1>4, <1>5, <1>10
    <2> QED
      BY <1>2, <1>7, <1>10, <2>1 DEF LocalOK, Fresh, PipePcs, IpPcs
  <1>15. FileOK(p)'
    BY <1>7, <1>10 DEF FileOK, Fresh
  <1>16. \A x \in Fds : \A f \in Files : IsRef(p, x, f)' => file[f].type # "none"
    BY <1>1, <1>11, <1>12, PlacesAre DEF FileInv, TypesOK
  <1>17. \A g \in Pages : Held(p, g)' <=> Held(p, g)
    BY <1>1, <1>10 DEF Held, PipePcs
  <1> QED
    BY <1>1, <1>2, <1>3, <1>9, <1>10, <1>13, <1>14, <1>15, <1>16, <1>17, MoveStep DEF Taking, IpPcs

\* exit begins.
LEMMA ExitStep ==
  ASSUME FileInv, NEW p \in Procs, Exit(p)
  PROVE  FileInv'
  <1>1. pc[p] = "user" /\ broken = "no"
    BY DEF Exit, At, Within
  <1>2. /\ TablesTyped /\ loc[p] \in Locs /\ loc[p] = NoLocals /\ cwd[p] \in Inodes /\ ofile[p] \in [Fds -> 0 .. NFILE]
        /\ loc[p].g = 0 /\ loc[p].pg = 0 /\ loc[p].ret = "user"
        /\ \A f \in Files, z \in Places : IsRef(p, z, f) <=> z \in Fds /\ ofile[p][z] = f
    BY <1>1, UserIs
  <1>3. UNCHANGED <<file, ofile, cwd, iref, page, loc, stale, broken>> /\ pc' = [pc EXCEPT ![p] = "exit"]
    BY DEF Exit, Goto
  <1>4. TablesTyped'
    BY <1>2, <1>3 DEF TablesTyped, PCs
  <1>5. Only({p}) /\ pc'[p] = "exit"
    BY <1>2, <1>3 DEF Only, TablesTyped
  <1>6. \A f \in Files, z \in Places : IsRef(p, z, f)' <=> IsRef(p, z, f)
    BY <1>2, <1>3, <1>5, PlacesAre DEF IsRef, HandF, HandG, Owes, OwedFd
  <1>7. \A f \in Files : MyRefs(f, p)
    BY <1>3, <1>6 DEF MyRefs
  <1>8. LocalOK(p)'
    BY <1>2, <1>3, <1>5 DEF LocalOK, Fresh, PipePcs, IpPcs
  <1>9. FileOK(p)'
    BY <1>5 DEF FileOK, Fresh
  <1>10. \A x \in Fds : \A f \in Files : IsRef(p, x, f)' => file[f].type # "none"
    BY <1>1, <1>6, PlacesAre DEF FileInv, TypesOK
  <1>11. \A g \in Pages : Held(p, g)' <=> Held(p, g)
    BY <1>1, <1>5 DEF Held, PipePcs
  <1> QED
    BY <1>1, <1>2, <1>3, <1>4, <1>5, <1>7, <1>8, <1>9, <1>10, <1>11, MoveStep DEF Taking, IpPcs

\* exit is about to close a descriptor.
LEMMA ExitCloseStep ==
  ASSUME FileInv, NEW p \in Procs, ExitClose(p)
  PROVE  FileInv'
  <1>1. pc[p] = "exit" /\ broken = "no"
    BY DEF ExitClose, At, Within
  <1>2. /\ TablesTyped /\ loc[p] \in Locs /\ cwd[p] \in Inodes /\ ofile[p] \in [Fds -> 0 .. NFILE]
        /\ loc[p].g = 0 /\ loc[p].pg = 0 /\ loc[p].ret = "user"
        /\ \A f \in Files, z \in Places : IsRef(p, z, f) <=> z \in Fds /\ ofile[p][z] = f
    BY <1>1, UserIs
  <1>3. UNCHANGED <<file, ofile, cwd, iref, page, stale, broken>>
    BY DEF ExitClose
  <1>4. PICK fd \in Fds : fd = Least(OpenFds(p)) /\ ofile[p][fd] # 0
    <2>1. OpenFds(p) \in SUBSET Nat /\ OpenFds(p) # {}
      BY PlacesAre DEF ExitClose, OpenFds
    <2>2. Least(OpenFds(p)) \in OpenFds(p)
      BY <2>1, LeastIs
    <2> QED
      BY <2>2 DEF OpenFds
  <1>5. PICK e \in Files : e = ofile[p][fd]
    BY <1>2, <1>4, PlacesAre
  <1>6. PICK l : l = [[[loc[p] EXCEPT !.fd = fd] EXCEPT !.f = e] EXCEPT !.ret = "exit_clear"]
    OBVIOUS
  <1>7. l \in Locs /\ l.f = e /\ l.fd = fd /\ l.g = 0 /\ l.pg = 0 /\ l.ret = "exit_clear"
    BY <1>2, <1>6, PlacesAre DEF Locs
  <1>8. loc' = [loc EXCEPT ![p] = l] /\ pc' = [pc EXCEPT ![p] = "drop"]
    BY <1>2, <1>4, <1>5, <1>6 DEF ExitClose, Goto, TablesTyped
  <1>9. TablesTyped'
    BY <1>2, <1>3, <1>7, <1>8, PlacesAre DEF TablesTyped, PCs, Locs
  <1>10. Only({p}) /\ pc'[p] = "drop" /\ ofile'[p] = ofile[p] /\ loc'[p] = l /\ cwd'[p] = cwd[p]
    BY <1>2, <1>3, <1>8 DEF Only, TablesTyped
  <1>11. \A f \in Files, z \in Places : IsRef(p, z, f)' <=> IsRef(p, z, f)
    BY <1>2, <1>7, <1>10, PlacesAre DEF IsRef, HandF, HandG, Owes, OwedFd
  <1>12. \A f \in Files : MyRefs(f, p)
    BY <1>3, <1>11 DEF MyRefs
  <1>13. LocalOK(p)'
    BY <1>2, <1>5, <1>7, <1>10 DEF LocalOK, Fresh, PipePcs, IpPcs
  <1>14. FileOK(p)'
    BY <1>7, <1>10 DEF FileOK, Fresh
  <1>15. \A x \in Fds : \A f \in Files : IsRef(p, x, f)' => file[f].type # "none"
    BY <1>1, <1>11, PlacesAre DEF FileInv, TypesOK
  <1>16. \A g \in Pages : Held(p, g)' <=> Held(p, g)
    BY <1>1, <1>10 DEF Held, PipePcs
  <1> QED
    BY <1>1, <1>2, <1>3, <1>9, <1>10, <1>12, <1>13, <1>14, <1>15, <1>16, MoveStep DEF Taking, IpPcs

\* exit clears the descriptor.
LEMMA ExitClearStep ==
  ASSUME FileInv, NEW p \in Procs, ExitClear(p)
  PROVE  FileInv'
  <1>1. /\ LocalOK(p) /\ loc[p] \in Locs /\ pc[p] = "exit_clear" /\ broken = "no" /\ TablesTyped
        /\ ofile[p] \in [Fds -> 0 .. NFILE]
    BY ProcIs DEF ExitClear, At, Within, FileInv
  <1>2. loc[p].ret = "exit_clear" /\ loc[p].fd \in Fds /\ cwd[p] \in Inodes /\ loc[p].g = 0
    BY <1>1 DEF LocalOK
  <1>3. UNCHANGED <<file, cwd, iref, page, stale, broken>>
    BY DEF ExitClear
  <1>4. PICK fd \in Fds : fd = loc[p].fd
    BY <1>2
  <1>5. /\ NoLocals \in Locs /\ NoLocals.f = 0 /\ NoLocals.g = 0 /\ NoLocals.pg = 0 /\ NoLocals.ret = "user"
    BY PlacesAre DEF NoLocals, Locs
  <1>6. /\ loc' = [loc EXCEPT ![p] = NoLocals] /\ pc' = [pc EXCEPT ![p] = "exit"]
        /\ ofile' = [ofile EXCEPT ![p][fd] = 0]
    BY <1>4 DEF ExitClear, SetFd, Goto
  <1>7. TablesTyped'
    BY <1>1, <1>3, <1>5, <1>6, PlacesAre DEF TablesTyped, PCs, Locs
  <1>8. Only({p}) /\ pc'[p] = "exit" /\ ofile'[p] = [ofile[p] EXCEPT ![fd] = 0] /\ loc'[p] = NoLocals /\ cwd'[p] = cwd[p]
    BY <1>1, <1>3, <1>6 DEF Only, TablesTyped
  <1>9. \A f \in Files, z \in Places : IsRef(p, z, f) <=> z \in Fds /\ z # fd /\ ofile[p][z] = f
    BY <1>1, <1>2, <1>4, PlacesAre DEF IsRef, HandF, HandG, Owes, OwedFd
  <1>10. \A f \in Files, z \in Places : IsRef(p, z, f)' <=> z \in Fds /\ z # fd /\ ofile[p][z] = f
    BY <1>1, <1>5, <1>8, PlacesAre DEF IsRef, HandF, HandG, Owes, OwedFd
  <1>11. \A f \in Files : MyRefs(f, p)
    BY <1>3, <1>9, <1>10 DEF MyRefs
  <1>12. LocalOK(p)'
    BY <1>2, <1>5, <1>8 DEF LocalOK, Fresh, PipePcs, IpPcs
  <1>13. FileOK(p)'
    BY <1>8 DEF FileOK, Fresh
  <1>14. \A x \in Fds : \A f \in Files : IsRef(p, x, f)' => file[f].type # "none"
    BY <1>1, <1>9, <1>10, PlacesAre DEF FileInv, TypesOK
  <1>15. \A g \in Pages : Held(p, g)' <=> Held(p, g)
    BY <1>1, <1>8 DEF Held, PipePcs
  <1> QED
    BY <1>1, <1>2, <1>3, <1>7, <1>8, <1>11, <1>12, <1>13, <1>14, <1>15, MoveStep DEF Taking, IpPcs

\* filealloc has found a file.
LEMMA FileTestStep ==
  ASSUME Serial, FileInv, NEW p \in Procs, FileTest(p)
  PROVE  FileInv'
  <1>1. /\ LocalOK(p) /\ FileOK(p) /\ loc[p] \in Locs /\ pc[p] \in Testing /\ broken = "no" /\ TablesTyped
        /\ ofile[p] \in [Fds -> 0 .. NFILE]
    BY ProcIs DEF FileTest, Within, FileInv
  <1>2. /\ loc[p].g = 0 /\ loc[p].ret = "user" /\ cwd[p] \in Inodes
        /\ pc[p] = "open_test" => loc[p].pg = 0 /\ loc[p].ip \in Inodes
        /\ pc[p] # "open_test" => loc[p].pg \in Pages
        /\ pc[p] = "wf_test" => loc[p].f \in Files /\ file[loc[p].f].ref = 1 /\ file[loc[p].f].type = "none"
    BY <1>1 DEF LocalOK, FileOK, Fresh, PipePcs, IpPcs, Testing
  <1>3. UNCHANGED <<file, ofile, cwd, iref, page, stale, broken>> /\ \A q \in Procs : ~InWindow(q)
    BY DEF FileTest
  <1>4. PICK e \in Files : e = Least(Unused) /\ file[e].ref = 0
    <2>1. Unused \in SUBSET Nat /\ Unused # {}
      BY PlacesAre DEF FileTest, Unused
    <2>2. Least(Unused) \in Unused
      BY <2>1, LeastIs
    <2> QED
      BY <2>2 DEF Unused
  <1>5. file[e].type = "none"
    BY <1>3, <1>4 DEF FileInv, TypesOK, InWindow
  <1>6. PICK l, s : /\ l \in Locs /\ s \in Taking /\ l.ret = "user" /\ l.pg = loc[p].pg /\ l.ip = loc[p].ip
                    /\ loc' = [loc EXCEPT ![p] = l] /\ pc' = [pc EXCEPT ![p] = s]
                    /\ \/ pc[p] = "wf_test" /\ s = "wf_take" /\ l.f = loc[p].f /\ l.g = e
                       \/ pc[p] = "rf_test" /\ s = "rf_take" /\ l.f = e /\ l.g = 0
                       \/ pc[p] = "open_test" /\ s = "open_take" /\ l.f = e /\ l.g = 0
    <2>1. CASE pc[p] = "wf_test"
      <3>1. PICK l : l = [loc[p] EXCEPT !.g = e]
        OBVIOUS
      <3>2. /\ l \in Locs /\ l.ret = "user" /\ l.pg = loc[p].pg /\ l.ip = loc[p].ip /\ l.f = loc[p].f /\ l.g = e
        BY <1>1, <1>2, <3>1, PlacesAre DEF Locs
      <3>3. loc' = [loc EXCEPT ![p] = l] /\ pc' = [pc EXCEPT ![p] = "wf_take"]
        BY <1>1, <1>4, <2>1, <3>1 DEF FileTest, At, Within, Goto
      <3> QED
        BY <2>1, <3>2, <3>3 DEF Taking
    <2>2. CASE pc[p] # "wf_test"
      <3>1. PICK l : l = [loc[p] EXCEPT !.f = e]
        OBVIOUS
      <3>2. /\ l \in Locs /\ l.ret = "user" /\ l.pg = loc[p].pg /\ l.ip = loc[p].ip /\ l.f = e /\ l.g = 0
        BY <1>1, <1>2, <3>1, PlacesAre DEF Locs
      <3>3. /\ loc' = [loc EXCEPT ![p] = l]
            /\ pc' = [pc EXCEPT ![p] = IF pc[p] = "rf_test" THEN "rf_take" ELSE "open_take"]
        BY <1>1, <1>4, <2>2, <3>1 DEF FileTest, At, Within, Goto
      <3>4. pc[p] = "rf_test" \/ pc[p] = "open_test"
        BY <1>1, <2>2 DEF Testing
      <3> QED
        BY <3>2, <3>3, <3>4 DEF Taking
    <2> QED
      BY <2>1, <2>2
  <1>7. TablesTyped'
    BY <1>1, <1>3, <1>6 DEF TablesTyped, PCs, Locs, Taking
  <1>8. Only({p}) /\ pc'[p] = s /\ loc'[p] = l
    BY <1>1, <1>3, <1>6 DEF Only, TablesTyped
  <1>9. \A f \in Files, z \in Places : IsRef(p, z, f)' <=> IsRef(p, z, f)
    BY <1>1, <1>2, <1>3, <1>6, <1>8, PlacesAre DEF IsRef, HandF, HandG, Owes, OwedFd
  <1>10. \A f \in Files : MyRefs(f, p) /\ Touched({p}, f)
    BY <1>3, <1>9 DEF MyRefs, Touched
  <1>11. LocalOK(p)'
    BY <1>2, <1>3, <1>4, <1>6, <1>8 DEF LocalOK, Fresh, PipePcs, IpPcs, Taking
  <1>12. FileOK(p)'
    BY <1>2, <1>3, <1>6, <1>8 DEF FileOK, Fresh, Taking
  <1>13. Target(p)' = e
    BY <1>6, <1>8 DEF Target, Taking
  <1>14. TakeOK'
    <2>1. \A q \in Procs : q # p => pc'[q] \notin Taking \cup {"clear"}
      BY <1>3, <1>8 DEF Only, InWindow
    <2>2. pc'[p] \in Taking /\ pc'[p] # "clear"
      BY <1>6, <1>8 DEF Taking
    <2> QED
      BY <1>3, <1>4, <1>5, <1>13, <2>1, <2>2 DEF TakeOK
  <1>15. TypesOK'
    <2>1. \A f \in Files : ~(file[f].ref = 0 /\ file[f].type # "none")
      BY <1>3 DEF FileInv, TypesOK, InWindow
    <2>2. ASSUME NEW q \in Procs, NEW fd \in Fds, NEW f \in Files, IsRef(q, fd, f)'
          PROVE  file[f].type # "none" \/ (pc'[q] = "open_init" /\ loc'[q].f = f)
      <3>1. IsRef(q, fd, f)
        BY <1>8, <1>9, <2>2, OthersRefs, PlacesAre
      <3>2. file[f].type # "none" \/ (pc[q] = "open_init" /\ loc[q].f = f)
        BY <3>1 DEF FileInv, TypesOK
      <3> QED
        BY <1>1, <1>8, <3>2 DEF Only, Testing
    <2> QED
      BY <1>3, <2>1, <2>2 DEF FileInv, TypesOK
  <1>16. PagesOK'
    <2>1. \A f \in Files, g \in Pages, w \in BOOLEAN : IsEnd(f, g, w)' <=> IsEnd(f, g, w)
      BY <1>3 DEF IsEnd
    <2>2. ~Spoiling(p) /\ pc[p] # "pipe_fds"
      BY <1>1 DEF Spoiling, Testing
    <2>3. \A g \in Pages : Held(p, g)' <=> Held(p, g)
      BY <1>6, <1>8 DEF Held, PipePcs
    <2> QED
      BY <1>3, <1>8, <2>1, <2>2, <2>3, PagesSame
  <1>17. InodesInUseAreHeld'
    <2>1. pc[p] # "chdir_set" /\ cwd'[p] = cwd[p]
      BY <1>1, <1>3 DEF Testing
    <2>2. pc'[p] \in IpPcs => pc[p] \in IpPcs /\ loc'[p].ip = loc[p].ip
      BY <1>6, <1>8 DEF IpPcs
    <2> QED
      BY <1>3, <1>7, <1>8, <2>1, <2>2, InodesSame
  <1>18. pc[p] # "born" /\ pc'[p] # "fork" /\ broken' # "panic" /\ stale \subseteq stale'
    BY <1>1, <1>3, <1>6, <1>8 DEF Testing, Taking
  <1> QED
    BY <1>1, <1>7, <1>8, <1>10, <1>11, <1>12, <1>14, <1>15, <1>16, <1>17, <1>18, OneStep

-----------------------------------------------------------------------------
(* fileclose. *)

\* The places where a process in fileclose has references.
LEMMA CloseIs ==
  ASSUME FileInv, broken = "no", NEW p \in Procs, pc[p] \in {"drop", "clear"}
  PROVE  /\ TablesTyped /\ loc[p] \in Locs /\ ofile[p] \in [Fds -> 0 .. NFILE] /\ cwd[p] \in Inodes
         /\ loc[p].f \in Files /\ loc[p].ret \in {"user", "dup2_set", "exit_clear"}
         /\ loc[p].ret # "user" =>
              OwedFd(p) \in Fds /\ ofile[p][OwedFd(p)] = loc[p].f /\ loc[p].g = 0 /\ loc[p].pg = 0
         /\ pc[p] = "clear" => loc[p].g = 0 /\ file[loc[p].f].ref = 0
         /\ pc[p] = "clear" => \A f \in Files, z \in Places :
              IsRef(p, z, f) <=> z \in Fds /\ ofile[p][z] = f /\ ~(loc[p].ret # "user" /\ z = OwedFd(p))
         /\ pc[p] = "drop" => \A f \in Files, z \in Places :
              IsRef(p, z, f) <=> \/ z \in Fds /\ ofile[p][z] = f
                                 \/ z = -1 /\ loc[p].ret = "user" /\ loc[p].f = f
                                 \/ z = -2 /\ loc[p].g = f
  <1>1. /\ TablesTyped /\ loc[p] \in Locs /\ ofile[p] \in [Fds -> 0 .. NFILE] /\ LocalOK(p) /\ FileOK(p)
    BY ProcIs DEF FileInv
  <1>2. cwd[p] \in Inodes /\ loc[p].f \in Files
    BY <1>1 DEF LocalOK
  <1>3. loc[p].ret \in {"user", "dup2_set", "exit_clear"}
    BY <1>1 DEF Locs
  <1>4. loc[p].ret # "user" =>
              OwedFd(p) \in Fds /\ ofile[p][OwedFd(p)] = loc[p].f /\ loc[p].g = 0 /\ loc[p].pg = 0
    BY <1>1, <1>3 DEF LocalOK, OwedFd
  <1>5. pc[p] = "clear" => loc[p].g = 0 /\ file[loc[p].f].ref = 0
    BY <1>1 DEF FileOK
  <1>6. pc[p] = "clear" => \A f \in Files, z \in Places :
              IsRef(p, z, f) <=> z \in Fds /\ ofile[p][z] = f /\ ~(loc[p].ret # "user" /\ z = OwedFd(p))
    BY <1>3, <1>5, PlacesAre DEF IsRef, HandF, HandG, Owes
  <1>7. pc[p] = "drop" => \A f \in Files, z \in Places :
              IsRef(p, z, f) <=> \/ z \in Fds /\ ofile[p][z] = f
                                 \/ z = -1 /\ loc[p].ret = "user" /\ loc[p].f = f
                                 \/ z = -2 /\ loc[p].g = f
    BY PlacesAre DEF IsRef, HandF, HandG, Owes
  <1> QED
    BY <1>1, <1>2, <1>3, <1>4, <1>5, <1>6, <1>7

\* fileclose has a reference to the file it closes, where it drops the count.
LEMMA DropIs ==
  ASSUME FileInv, broken = "no", NEW p \in Procs, pc[p] = "drop"
  PROVE  \E x \in Places :
           /\ x = IF loc[p].ret = "user" THEN -1 ELSE OwedFd(p)
           /\ IsRef(p, x, loc[p].f) /\ NotTheirs({p}, loc[p].f)
           /\ file[loc[p].f].ref \in Nat /\ file[loc[p].f].ref >= 1
  <1>1. PICK x \in Places : (x = IF loc[p].ret = "user" THEN -1 ELSE OwedFd(p)) /\ IsRef(p, x, loc[p].f)
    <2>1. CASE loc[p].ret = "user"
      BY <2>1, CloseIs, PlacesAre
    <2>2. CASE loc[p].ret # "user"
      <3>1. OwedFd(p) \in Fds /\ OwedFd(p) \in Places /\ ofile[p][OwedFd(p)] = loc[p].f /\ loc[p].f \in Files
        BY <2>2, CloseIs, PlacesAre
      <3>2. IsRef(p, OwedFd(p), loc[p].f)
        BY <3>1, CloseIs
      <3> QED
        BY <2>2, <3>1, <3>2
    <2> QED
      BY <2>1, <2>2
  <1>2. loc[p].f \in Files
    BY CloseIs
  <1>3. NotTheirs({p}, loc[p].f)
    BY <1>1, <1>2, OwnFile
  <1>4. file[loc[p].f].ref \in Nat /\ file[loc[p].f].ref >= 1
    BY <1>1, <1>2, CountIs DEF FileInv
  <1> QED
    BY <1>1, <1>3, <1>4

\* fileclose returns to its caller.
LEMMA ResumeIs ==
  ASSUME FileInv, broken = "no", NEW p \in Procs, pc[p] \in {"drop", "clear"}, Resume(p),
         ofile' = ofile, cwd' = cwd
  PROVE  /\ Only({p}) /\ LocalOK(p)' /\ FileOK(p)' /\ pc'[p] \in {"user", "dup2_set", "exit_clear"}
         /\ pc' \in [Procs -> PCs] /\ loc' \in [Procs -> Locs]
         /\ \A f \in Files, z \in Places :
              IsRef(p, z, f)' <=> z \in Fds /\ ofile[p][z] = f /\ ~(loc[p].ret # "user" /\ z = OwedFd(p))
  <1>1. TablesTyped /\ loc[p] \in Locs /\ loc[p].ret \in {"user", "dup2_set", "exit_clear"} /\ cwd[p] \in Inodes
        /\ loc \in [Procs -> Locs] /\ LocalOK(p)
        /\ (loc[p].ret # "user" =>
              OwedFd(p) \in Fds /\ ofile[p][OwedFd(p)] = loc[p].f /\ loc[p].g = 0 /\ loc[p].pg = 0)
    BY CloseIs DEF FileInv, TablesTyped, Locs
  <1>2. PICK l : l = IF loc[p].ret = "user" THEN NoLocals ELSE loc[p]
    OBVIOUS
  <1>3. NoLocals \in Locs /\ NoLocals.f = 0 /\ NoLocals.g = 0 /\ NoLocals.pg = 0 /\ NoLocals.ret = "user"
    BY PlacesAre DEF NoLocals, Locs
  <1>4. l \in Locs /\ l.ret = loc[p].ret /\ l.g = 0 /\ l.pg = 0
    BY <1>1, <1>2, <1>3
  <1>5. loc' = [loc EXCEPT ![p] = l] /\ pc' = [pc EXCEPT ![p] = loc[p].ret]
    BY <1>1, <1>2 DEF Resume, Goto
  <1>6. /\ pc' \in [Procs -> PCs] /\ loc' \in [Procs -> Locs]
    BY <1>1, <1>4, <1>5 DEF TablesTyped, PCs
  <1>7. Only({p}) /\ pc'[p] = loc[p].ret /\ loc'[p] = l /\ ofile'[p] = ofile[p] /\ cwd'[p] = cwd[p]
    BY <1>1, <1>5 DEF Only, TablesTyped
  <1>8. LocalOK(p)'
    <2>1. CASE loc[p].ret = "user"
      BY <1>1, <1>2, <1>3, <1>7, <2>1 DEF LocalOK, Fresh, PipePcs, IpPcs
    <2>2. CASE loc[p].ret # "user"
      BY <1>1, <1>2, <1>7, <2>2 DEF LocalOK, Fresh, PipePcs, IpPcs
    <2> QED
      BY <2>1, <2>2
  <1>9. FileOK(p)'
    BY <1>1, <1>7 DEF FileOK, Fresh
  <1>10. \A f \in Files, z \in Places :
              IsRef(p, z, f)' <=> z \in Fds /\ ofile[p][z] = f /\ ~(loc[p].ret # "user" /\ z = OwedFd(p))
    <2>1. CASE loc[p].ret = "user"
      BY <1>2, <1>3, <1>7, <2>1, PlacesAre DEF IsRef, HandF, HandG, Owes
    <2>2. CASE loc[p].ret # "user"
      BY <1>1, <1>2, <1>7, <2>2, PlacesAre DEF IsRef, HandF, HandG, Owes, OwedFd
    <2> QED
      BY <2>1, <2>2
  <1> QED
    BY <1>1, <1>6, <1>7, <1>8, <1>9, <1>10

\* fileclose drops the count, and others still use the file.
LEMMA CloseDropStep ==
  ASSUME FileInv, NEW p \in Procs, AtomicDrop(p)
  PROVE  FileInv'
  <1>1. pc[p] = "drop" /\ broken = "no"
    BY DEF AtomicDrop, At, Within
  <1>2. PICK e \in Files : e = loc[p].f
    BY <1>1, CloseIs
  <1>3. PICK x \in Places :
          /\ x = IF loc[p].ret = "user" THEN -1 ELSE OwedFd(p)
          /\ IsRef(p, x, e) /\ NotTheirs({p}, e) /\ file[e].ref \in Nat /\ file[e].ref >= 1
    BY <1>1, <1>2, DropIs
  <1>4. UNCHANGED <<ofile, cwd, iref, page, stale, broken>> /\ Resume(p) /\ file[e].ref > 1
    BY <1>2 DEF AtomicDrop
  <1>5. /\ Only({p}) /\ LocalOK(p)' /\ FileOK(p)' /\ pc'[p] \in {"user", "dup2_set", "exit_clear"}
        /\ pc' \in [Procs -> PCs] /\ loc' \in [Procs -> Locs]
        /\ \A f \in Files, z \in Places :
             IsRef(p, z, f)' <=> z \in Fds /\ ofile[p][z] = f /\ ~(loc[p].ret # "user" /\ z = OwedFd(p))
    BY <1>1, <1>4, ResumeIs
  <1>6. /\ TablesTyped /\ FileOK(p) /\ (loc[p].ret # "user" => OwedFd(p) \in Fds /\ ofile[p][OwedFd(p)] = e)
        /\ \A f \in Files, z \in Places :
              IsRef(p, z, f) <=> \/ z \in Fds /\ ofile[p][z] = f
                                 \/ z = -1 /\ loc[p].ret = "user" /\ e = f
                                 \/ z = -2 /\ loc[p].g = f
    BY <1>1, <1>2, CloseIs, ProcIs
  <1>7. loc[p].g = 0
    BY <1>1, <1>2, <1>4, <1>6 DEF FileOK
  <1>8. PICK r : r = [file[e] EXCEPT !.ref = @ - 1]
    OBVIOUS
  <1>9. /\ file' = [file EXCEPT ![e] = r] /\ r.ref = file[e].ref - 1 /\ r.ref > 0 /\ r.ref \in Nat
        /\ r.type = file[e].type /\ r.ip = file[e].ip /\ r.pipe = file[e].pipe /\ r.writable = file[e].writable
        /\ r \in [ref : Nat, type : FileTypes, ip : 0 .. NINODE, pipe : 0 .. NPAGE, writable : BOOLEAN]
    <2>1. file[e] \in [ref : Nat, type : FileTypes, ip : 0 .. NINODE, pipe : 0 .. NPAGE, writable : BOOLEAN]
      BY <1>6 DEF TablesTyped
    <2>2. file[e].ref - 1 \in Nat /\ file[e].ref - 1 > 0
      BY <1>3, <1>4
    <2>3. file' = [file EXCEPT ![e] = r]
      BY <1>2, <1>8 DEF AtomicDrop
    <2> QED
      BY <1>8, <2>1, <2>2, <2>3
  <1>10. /\ file'[e] = r /\ (\A f \in Files : f # e => file'[f] = file[f])
    BY <1>6, <1>9 DEF TablesTyped
  <1>11. TablesTyped'
    BY <1>4, <1>5, <1>6, <1>9 DEF TablesTyped, Locs
  <1>12. ASSUME NEW f \in Files
         PROVE  MyRefs(f, p)
    <2>1. CASE f = e
      <3>1. \A z \in Places : IsRef(p, z, f)' <=> IsRef(p, z, f) /\ z # x
        BY <1>3, <1>5, <1>6, <1>7, <2>1, PlacesAre
      <3> QED
        BY <1>3, <1>9, <1>10, <2>1, <3>1 DEF MyRefs
    <2>2. CASE f # e
      <3>1. \A z \in Places : IsRef(p, z, f)' <=> IsRef(p, z, f)
        BY <1>5, <1>6, <1>7, <2>2, PlacesAre
      <3> QED
        BY <1>10, <2>2, <3>1 DEF MyRefs
    <2> QED
      BY <2>1, <2>2
  <1>13. ASSUME NEW f \in Files
         PROVE  Touched({p}, f)
    <2>1. CASE f = e
      BY <1>3, <1>9, <1>10, <2>1 DEF Touched, FileInv, TypesOK
    <2>2. CASE f # e
      BY <1>10, <2>2 DEF Touched
    <2> QED
      BY <2>1, <2>2
  <1>14. \A fd \in Fds : \A f \in Files : IsRef(p, fd, f)' => file'[f].type # "none"
    <2>1. \A fd \in Fds : \A f \in Files : IsRef(p, fd, f)' => IsRef(p, fd, f)
      BY <1>5, <1>6, PlacesAre
    <2>2. \A fd \in Fds : \A f \in Files : IsRef(p, fd, f)' => file[f].type # "none"
      BY <1>1, <2>1 DEF FileInv, TypesOK
    <2> QED
      BY <1>9, <1>10, <2>2
  <1>15. TakeOK' /\ TypesOK'
    <2>1. pc'[p] \notin Taking /\ pc'[p] # "clear" /\ pc[p] # "clear" /\ Only({p})
      BY <1>1, <1>5 DEF Taking
    <2>2. \A f \in Files : Touched({p}, f)
      BY <1>13
    <2> QED
      BY <1>1, <1>14, <2>1, <2>2, FilesOne
  <1>16. PagesOK'
    <2>1. \A f \in Files, g \in Pages, w \in BOOLEAN : IsEnd(f, g, w)' <=> IsEnd(f, g, w)
      BY <1>3, <1>9, <1>10 DEF IsEnd
    <2>2. \A g \in Pages : Held(p, g)' <=> Held(p, g)
      BY <1>1, <1>5 DEF Held, PipePcs
    <2>3. ~Spoiling(p) /\ {p} \in SUBSET Procs
      BY <1>7 DEF Spoiling
    <2> QED
      BY <1>1, <1>4, <1>5, <2>1, <2>2, <2>3, PagesSame
  <1>17. InodesInUseAreHeld'
    <2>1. {p} \in SUBSET Procs /\ pc[p] # "chdir_set" /\ cwd'[p] = cwd[p] /\ pc'[p] \notin IpPcs
      BY <1>1, <1>4, <1>5 DEF IpPcs
    <2>2. \A f \in Files : file'[f].ref > 0 /\ file'[f].type = "inode" =>
           file[f].ref > 0 /\ file[f].type = "inode" /\ file'[f].ip = file[f].ip
      BY <1>3, <1>9, <1>10
    <2> QED
      BY <1>4, <1>5, <1>11, <2>1, <2>2, InodesSame
  <1>18. pc[p] # "born" /\ pc'[p] # "fork" /\ broken' # "panic" /\ stale \subseteq stale'
    BY <1>1, <1>4, <1>5
  <1> QED
    BY <1>1, <1>5, <1>11, <1>12, <1>13, <1>15, <1>16, <1>17, <1>18, OneStep

\* fileclose clears the file it has closed for the last time.
LEMMA CloseClearStep ==
  ASSUME FileInv, NEW p \in Procs, CloseClear(p)
  PROVE  FileInv'
  <1>1. pc[p] = "clear" /\ broken = "no"
    BY DEF CloseClear, At, Within
  <1>2. PICK e \in Files : e = loc[p].f
    BY <1>1, CloseIs
  <1>3. UNCHANGED <<ofile, cwd, iref, page, stale, broken>> /\ Resume(p)
    BY DEF CloseClear
  <1>4. /\ Only({p}) /\ LocalOK(p)' /\ FileOK(p)' /\ pc'[p] \in {"user", "dup2_set", "exit_clear"}
        /\ pc' \in [Procs -> PCs] /\ loc' \in [Procs -> Locs]
        /\ \A f \in Files, z \in Places :
             IsRef(p, z, f)' <=> z \in Fds /\ ofile[p][z] = f /\ ~(loc[p].ret # "user" /\ z = OwedFd(p))
    BY <1>1, <1>3, ResumeIs
  <1>5. /\ TablesTyped /\ loc[p].g = 0 /\ file[e].ref = 0
        /\ \A f \in Files, z \in Places :
              IsRef(p, z, f) <=> z \in Fds /\ ofile[p][z] = f /\ ~(loc[p].ret # "user" /\ z = OwedFd(p))
    BY <1>1, <1>2, CloseIs
  <1>6. NotTheirs({p}, e)
    <2> SUFFICES ASSUME NEW q \in Procs, q # p, Relies(q, e)
                 PROVE  FALSE
      BY DEF NotTheirs
    <2>1. FileOK(q) /\ TakeOK
      BY DEF FileInv
    <2> QED
      BY <1>1, <1>2, <1>5, <2>1 DEF Relies, FileOK, TakeOK
  <1>7. PICK r : r = [NoFile EXCEPT !.ref = 0]
    OBVIOUS
  <1>8. /\ file' = [file EXCEPT ![e] = r] /\ r.ref = 0 /\ r.type = "none"
        /\ r \in [ref : Nat, type : FileTypes, ip : 0 .. NINODE, pipe : 0 .. NPAGE, writable : BOOLEAN]
    BY <1>2, <1>5, <1>7, PlacesAre DEF CloseClear, NoFile, FileTypes
  <1>9. /\ file'[e] = r /\ (\A f \in Files : f # e => file'[f] = file[f])
    BY <1>5, <1>8 DEF TablesTyped
  <1>10. TablesTyped'
    BY <1>3, <1>4, <1>5, <1>8 DEF TablesTyped, Locs
  <1>11. ASSUME NEW f \in Files
         PROVE  MyRefs(f, p)
    BY <1>4, <1>5, <1>8, <1>9 DEF MyRefs
  <1>12. ASSUME NEW f \in Files
         PROVE  Touched({p}, f)
    BY <1>5, <1>6, <1>8, <1>9 DEF Touched
  <1>13. \A fd \in Fds : \A f \in Files : IsRef(p, fd, f)' => file'[f].type # "none"
    <2>1. \A fd \in Fds : \A f \in Files : IsRef(p, fd, f)' => IsRef(p, fd, f) /\ fd \in Places
      BY <1>4, <1>5, PlacesAre
    <2>2. \A fd \in Fds : \A f \in Files : IsRef(p, fd, f)' => f # e
      BY <1>5, <2>1, CountIs DEF FileInv
    <2>3. \A fd \in Fds : \A f \in Files : IsRef(p, fd, f)' => file[f].type # "none"
      BY <1>1, <2>1 DEF FileInv, TypesOK
    <2> QED
      BY <1>9, <2>2, <2>3
  <1>14. TakeOK' /\ TypesOK'
    <2>1. pc'[p] \notin Taking /\ pc'[p] # "clear" /\ file'[loc[p].f].type = "none" /\ Only({p})
      BY <1>2, <1>4, <1>8, <1>9 DEF Taking
    <2>2. \A f \in Files : Touched({p}, f)
      BY <1>12
    <2> QED
      BY <1>1, <1>13, <2>1, <2>2, FilesOne
  <1>15. PagesOK'
    <2>1. \A f \in Files, g \in Pages, w \in BOOLEAN : IsEnd(f, g, w)' <=> IsEnd(f, g, w)
      BY <1>5, <1>8, <1>9 DEF IsEnd
    <2>2. \A g \in Pages : Held(p, g)' <=> Held(p, g)
      BY <1>1, <1>4 DEF Held, PipePcs
    <2>3. ~Spoiling(p) /\ {p} \in SUBSET Procs
      BY <1>5 DEF Spoiling
    <2> QED
      BY <1>1, <1>3, <1>4, <2>1, <2>2, <2>3, PagesSame
  <1>16. InodesInUseAreHeld'
    <2>1. {p} \in SUBSET Procs /\ pc[p] # "chdir_set" /\ cwd'[p] = cwd[p] /\ pc'[p] \notin IpPcs
      BY <1>1, <1>3, <1>4 DEF IpPcs
    <2>2. \A f \in Files : file'[f].ref > 0 /\ file'[f].type = "inode" =>
           file[f].ref > 0 /\ file[f].type = "inode" /\ file'[f].ip = file[f].ip
      BY <1>8, <1>9
    <2> QED
      BY <1>3, <1>4, <1>10, <2>1, <2>2, InodesSame
  <1>17. pc[p] # "born" /\ pc'[p] # "fork" /\ broken' # "panic" /\ stale \subseteq stale'
    BY <1>1, <1>3, <1>4
  <1> QED
    BY <1>1, <1>4, <1>10, <1>11, <1>12, <1>14, <1>15, <1>16, <1>17, OneStep

\* pipeclose by the last file of an end: the flags agree with the files that are left.
LEMMA PipecloseIs ==
  ASSUME TablesTyped, NEW h \in Pages, NEW w \in BOOLEAN, PageOK(h), \A q \in Procs : ~Held(q, h) /\ ~Held(q, h)',
         NEW e \in Files, IsEnd(e, h, w), page'[h] = Pipeclose(h, w),
         \A f \in Files, v \in BOOLEAN : IsEnd(f, h, v)' <=> IsEnd(f, h, v) /\ f # e
  PROVE  PageOK(h)'
  <1>1. OneEnd(h) /\ Agrees(h)
    BY DEF PageOK
  <1>2. OneEnd(h)'
    BY <1>1 DEF OneEnd
  <1>3. \A v \in BOOLEAN : OpenEnd(h, v) <=> \E f \in Files : IsEnd(f, h, v)
    BY DEF OpenEnd, IsEnd
  <1>4. \A v \in BOOLEAN : OpenEnd(h, v)' <=> \E f \in Files : IsEnd(f, h, v)'
    BY DEF OpenEnd, IsEnd
  <1>5. OpenEnd(h, w) /\ ~OpenEnd(h, w)'
    BY <1>1, <1>3, <1>4 DEF OneEnd
  <1>6. \A v \in BOOLEAN : v # w => (OpenEnd(h, v)' <=> OpenEnd(h, v))
    <2>1. \A v \in BOOLEAN : v # w => ~IsEnd(e, h, v)
      BY DEF IsEnd
    <2> QED
      BY <1>3, <1>4, <2>1
  <1>7. PICK rd \in BOOLEAN, wr \in BOOLEAN : rd = page[h].readopen /\ wr = page[h].writeopen
    BY DEF TablesTyped
  <1>8. page[h] \in [alloc : BOOLEAN, readopen : BOOLEAN, writeopen : BOOLEAN]
    BY DEF TablesTyped
  <1>9. CASE w = TRUE
    <2>1. wr = TRUE /\ (rd <=> OpenEnd(h, FALSE)) /\ page[h].alloc = TRUE
      BY <1>1, <1>5, <1>7, <1>8, <1>9 DEF Agrees
    <2>2. PICK c : c = [page[h] EXCEPT !.writeopen = FALSE]
      OBVIOUS
    <2>3. c.readopen = rd /\ c.writeopen = FALSE /\ c.alloc = TRUE
      BY <1>7, <1>8, <2>1, <2>2
    <2>4. page'[h] = IF rd THEN c ELSE NoPipe
      BY <1>9, <2>2, <2>3 DEF Pipeclose
    <2>5. /\ page'[h].readopen = rd /\ page'[h].writeopen = FALSE /\ page'[h].alloc = rd
      <3>1. CASE rd = TRUE
        BY <2>3, <2>4, <3>1
      <3>2. CASE rd = FALSE
        <4>1. page'[h] = NoPipe
          BY <2>4, <3>2
        <4>2. NoPipe.readopen = FALSE /\ NoPipe.writeopen = FALSE /\ NoPipe.alloc = FALSE
          BY DEF NoPipe
        <4> QED
          BY <3>2, <4>1, <4>2
      <3> QED
        BY <1>7, <3>1, <3>2
    <2>6. (OpenEnd(h, FALSE)' <=> OpenEnd(h, FALSE)) /\ ~OpenEnd(h, TRUE)'
      BY <1>5, <1>6, <1>9
    <2>7. Agrees(h)'
      BY <2>1, <2>5, <2>6 DEF Agrees
    <2> QED
      BY <1>2, <2>7 DEF PageOK
  <1>10. CASE w = FALSE
    <2>1. rd = TRUE /\ (wr <=> OpenEnd(h, TRUE)) /\ page[h].alloc = TRUE
      BY <1>1, <1>5, <1>7, <1>8, <1>10 DEF Agrees
    <2>2. PICK c : c = [page[h] EXCEPT !.readopen = FALSE]
      OBVIOUS
    <2>3. c.writeopen = wr /\ c.readopen = FALSE /\ c.alloc = TRUE
      BY <1>7, <1>8, <2>1, <2>2
    <2>4. page'[h] = IF wr THEN c ELSE NoPipe
      BY <1>10, <2>2, <2>3 DEF Pipeclose
    <2>5. /\ page'[h].writeopen = wr /\ page'[h].readopen = FALSE /\ page'[h].alloc = wr
      <3>1. CASE wr = TRUE
        BY <2>3, <2>4, <3>1
      <3>2. CASE wr = FALSE
        <4>1. page'[h] = NoPipe
          BY <2>4, <3>2
        <4>2. NoPipe.readopen = FALSE /\ NoPipe.writeopen = FALSE /\ NoPipe.alloc = FALSE
          BY DEF NoPipe
        <4> QED
          BY <3>2, <4>1, <4>2
      <3> QED
        BY <1>7, <3>1, <3>2
    <2>6. (OpenEnd(h, TRUE)' <=> OpenEnd(h, TRUE)) /\ ~OpenEnd(h, FALSE)'
      BY <1>5, <1>6, <1>10
    <2>7. Agrees(h)'
      BY <2>1, <2>5, <2>6 DEF Agrees
    <2> QED
      BY <1>2, <2>7 DEF PageOK
  <1> QED
    BY <1>9, <1>10

\* fileclose drops the last reference.
LEMMA CloseLastStep ==
  ASSUME FileInv, NEW p \in Procs, AtomicLast(p)
  PROVE  FileInv'
  <1>1. pc[p] = "drop" /\ broken = "no"
    BY DEF AtomicLast, At, Within
  <1>2. PICK e \in Files : e = loc[p].f
    BY <1>1, CloseIs
  <1>3. PICK x \in Places :
          /\ x = IF loc[p].ret = "user" THEN -1 ELSE OwedFd(p)
          /\ IsRef(p, x, e) /\ NotTheirs({p}, e) /\ file[e].ref \in Nat /\ file[e].ref >= 1
    BY <1>1, <1>2, DropIs
  <1>4. UNCHANGED <<ofile, cwd, stale, loc>> /\ pc' = [pc EXCEPT ![p] = "clear"] /\ file[e].ref = 1
    BY <1>2, <1>3 DEF AtomicLast, Goto
  <1>5. /\ TablesTyped /\ FileOK(p) /\ LocalOK(p)
        /\ (loc[p].ret # "user" => OwedFd(p) \in Fds /\ ofile[p][OwedFd(p)] = e)
        /\ \A f \in Files, z \in Places :
              IsRef(p, z, f) <=> \/ z \in Fds /\ ofile[p][z] = f
                                 \/ z = -1 /\ loc[p].ret = "user" /\ e = f
                                 \/ z = -2 /\ loc[p].g = f
    BY <1>1, <1>2, CloseIs, ProcIs
  <1>6. Only({p}) /\ pc'[p] = "clear"
    BY <1>4, <1>5 DEF Only, TablesTyped
  <1>7. /\ file[e] \in [ref : Nat, type : FileTypes, ip : 0 .. NINODE, pipe : 0 .. NPAGE, writable : BOOLEAN]
        /\ file[e].type = "inode" => file[e].ip \in Inodes
        /\ file[e].type = "pipe" => file[e].pipe \in Pages
    BY <1>5 DEF TablesTyped, FileInv, TypesOK
  <1>8. PICK r : r = [file[e] EXCEPT !.ref = 0]
    OBVIOUS
  <1>9. /\ file' = [file EXCEPT ![e] = r] /\ r.ref = 0 /\ r.type = file[e].type /\ r.ip = file[e].ip
        /\ r.pipe = file[e].pipe /\ r.writable = file[e].writable
        /\ r \in [ref : Nat, type : FileTypes, ip : 0 .. NINODE, pipe : 0 .. NPAGE, writable : BOOLEAN]
    BY <1>2, <1>7, <1>8 DEF AtomicLast
  <1>10. /\ file'[e] = r /\ (\A f \in Files : f # e => file'[f] = file[f])
    BY <1>5, <1>9 DEF TablesTyped
  <1>11. /\ broken' \in {"no", "freed"}
         /\ loc[p].g # 0 => broken' = "freed"
    <2>1. broken' = IF e \in stale THEN "freed" ELSE broken
      BY <1>2, <1>4 DEF AtomicLast
    <2>2. loc[p].g # 0 => e \in stale
      BY <1>1, <1>2, <1>5 DEF FileOK
    <2> QED
      BY <1>1, <2>1, <2>2
  <1>12. IF file[e].type = "inode" THEN iref' = [iref EXCEPT ![file[e].ip] = @ - 1] ELSE iref' = iref
    BY <1>2 DEF AtomicLast, Iput
  <1>13. IF file[e].type = "pipe" THEN page' = [page EXCEPT ![file[e].pipe] = Pipeclose(file[e].pipe, file[e].writable)]
                                  ELSE page' = page
    BY <1>2 DEF AtomicLast
  <1>14. iref' \in [Inodes -> Nat]
    <2>1. CASE file[e].type = "inode"
      <3>1. e \in FilesOn(file[e].ip)
        BY <1>4, <2>1 DEF FilesOn
      <3>2. iref[file[e].ip] \in Nat /\ iref[file[e].ip] >= 1
        BY <1>7, <2>1, <3>1, UsedInode
      <3>3. iref[file[e].ip] - 1 \in Nat
        BY <3>2
      <3> QED
        BY <1>5, <1>12, <2>1, <3>3 DEF TablesTyped
    <2> QED
      BY <1>5, <1>12, <2>1 DEF TablesTyped
  <1>15. page' \in [Pages -> [alloc : BOOLEAN, readopen : BOOLEAN, writeopen : BOOLEAN]]
    <2>1. CASE file[e].type = "pipe"
      <3>1. page[file[e].pipe] \in [alloc : BOOLEAN, readopen : BOOLEAN, writeopen : BOOLEAN]
        BY <1>5, <1>7, <2>1 DEF TablesTyped
      <3>2. Pipeclose(file[e].pipe, file[e].writable) \in [alloc : BOOLEAN, readopen : BOOLEAN, writeopen : BOOLEAN]
        BY <3>1 DEF Pipeclose, NoPipe
      <3> QED
        BY <1>5, <1>13, <2>1, <3>2 DEF TablesTyped
    <2> QED
      BY <1>5, <1>13, <2>1 DEF TablesTyped
  <1>16. TablesTyped'
    BY <1>4, <1>5, <1>9, <1>11, <1>14, <1>15 DEF TablesTyped, PCs
  <1>17. \A f \in Files, z \in Places :
           IsRef(p, z, f)' <=> \/ z \in Fds /\ ofile[p][z] = f /\ ~(loc[p].ret # "user" /\ z = OwedFd(p))
                               \/ z = -2 /\ loc[p].g = f
    BY <1>4, <1>6, PlacesAre DEF IsRef, HandF, HandG, Owes, OwedFd
  <1>18. ASSUME NEW f \in Files
         PROVE  MyRefs(f, p)
    <2>1. CASE f = e
      <3>1. \A z \in Places : IsRef(p, z, f)' <=> IsRef(p, z, f) /\ z # x
        BY <1>3, <1>5, <1>17, <2>1, PlacesAre
      <3> QED
        BY <1>3, <1>4, <1>9, <1>10, <2>1, <3>1 DEF MyRefs
    <2>2. CASE f # e
      <3>1. \A z \in Places : IsRef(p, z, f)' <=> IsRef(p, z, f)
        BY <1>5, <1>17, <2>2, PlacesAre
      <3> QED
        BY <1>10, <2>2, <3>1 DEF MyRefs
    <2> QED
      BY <2>1, <2>2
  <1>19. ASSUME NEW f \in Files
         PROVE  Touched({p}, f)
    BY <1>2, <1>3, <1>4, <1>6, <1>7, <1>9, <1>10 DEF Touched
  <1>20. LocalOK(p)'
    BY <1>1, <1>4, <1>5, <1>6 DEF LocalOK, Fresh, PipePcs, IpPcs
  <1>21. FileOK(p)'
    BY <1>2, <1>4, <1>6, <1>9, <1>10, <1>11 DEF FileOK, Fresh
  <1>22. TakeOK' /\ TypesOK'
    <2>1. \A fd \in Fds : \A f \in Files : IsRef(p, fd, f)' => IsRef(p, fd, f)
      BY <1>5, <1>17, PlacesAre
    <2>2. \A fd \in Fds : \A f \in Files : IsRef(p, fd, f)' => file[f].type # "none"
      BY <1>1, <2>1 DEF FileInv, TypesOK
    <2>3. \A fd \in Fds : \A f \in Files : IsRef(p, fd, f)' => file'[f].type # "none"
      BY <1>9, <1>10, <2>2
    <2>4. pc'[p] \notin Taking /\ pc[p] # "clear" /\ loc'[p].f = e
      BY <1>1, <1>2, <1>4, <1>6 DEF Taking
    <2>5. \A f \in Files : Touched({p}, f)
      BY <1>19
    <2> QED
      BY <1>1, <1>3, <1>6, <2>3, <2>4, <2>5, FilesOne
  <1>23. PagesOK'
    <2>1. \A g \in Pages : ~Held(p, g)' /\ ~Held(p, g)
      BY <1>1, <1>6 DEF Held, PipePcs
    <2>2. /\ {p} \in SUBSET Procs /\ pc[p] # "pipe_fds"
          /\ Spoiling(p) => Spoiling(p)' /\ loc'[p].pg = loc[p].pg /\ loc[p].pg = file[e].pipe /\ file[e].type = "pipe"
      BY <1>1, <1>2, <1>4, <1>5, <1>6 DEF Spoiling, FileOK
    <2>3. \A f \in Files, g \in Pages, w \in BOOLEAN : IsEnd(f, g, w)' <=> IsEnd(f, g, w) /\ f # e
      BY <1>9, <1>10 DEF IsEnd
    <2>4. CASE file[e].type # "pipe"
      <3>1. \A f \in Files, g \in Pages, w \in BOOLEAN : IsEnd(f, g, w)' <=> IsEnd(f, g, w)
        BY <2>3, <2>4 DEF IsEnd
      <3> QED
        BY <1>6, <1>13, <2>1, <2>2, <2>4, <3>1, PagesSame
    <2>5. CASE file[e].type = "pipe"
      <3>1. PICK h \in Pages, w \in BOOLEAN : h = file[e].pipe /\ w = file[e].writable
        BY <1>7, <2>5
      <3>2. page' = [page EXCEPT ![h] = Pipeclose(h, w)] /\ IsEnd(e, h, w)
        BY <1>4, <1>13, <2>5, <3>1 DEF IsEnd
      <3>3. page'[h] = Pipeclose(h, w) /\ \A g \in Pages : g # h => page'[g] = page[g]
        BY <1>5, <3>2 DEF TablesTyped
      <3>4. \A f \in Files, g \in Pages, v \in BOOLEAN : g # h => (IsEnd(f, g, v)' <=> IsEnd(f, g, v))
        BY <2>3, <3>1 DEF IsEnd
      <3>5. ASSUME PageOK(h)
            PROVE  PageOK(h)'
        <4>1. \A q \in Procs : ~Held(q, h)
          <5> SUFFICES ASSUME NEW q \in Procs, Held(q, h)
                       PROVE  FALSE
            OBVIOUS
          <5>1. q # p /\ HeldOK(q, h)
            BY <2>1, <3>5 DEF PageOK
          <5>2. pc[q] = "pipe_fds" /\ e \in {loc[q].f, loc[q].g}
            BY <3>2, <5>1 DEF HeldOK
          <5> QED
            BY <1>3, <5>1, <5>2 DEF NotTheirs, Relies, Fresh
        <4>2. \A q \in Procs : ~Held(q, h)'
          BY <1>6, <2>1, <4>1 DEF Only, Held
        <4> QED
          BY <1>5, <2>3, <3>2, <3>3, <3>5, <4>1, <4>2, PipecloseIs
      <3> QED
        BY <1>6, <2>1, <2>2, <3>3, <3>4, <3>5, PagesBut
    <2> QED
      BY <2>4, <2>5
  <1>24. InodesInUseAreHeld'
    <2>1. /\ {p} \in SUBSET Procs /\ pc[p] # "chdir_set" /\ cwd'[p] = cwd[p]
          /\ pc'[p] \notin IpPcs /\ pc[p] \notin IpPcs
      BY <1>1, <1>4, <1>6 DEF IpPcs
    <2>2. \A f \in Files : file'[f].ref > 0 /\ file'[f].type = "inode" =>
           file[f].ref > 0 /\ file[f].type = "inode" /\ file'[f].ip = file[f].ip /\ f # e
      BY <1>9, <1>10
    <2>3. CASE file[e].type # "inode"
      BY <1>6, <1>12, <1>16, <2>1, <2>2, <2>3, InodesSame
    <2>4. CASE file[e].type = "inode"
      <3>1. PICK j \in Inodes : j = file[e].ip
        BY <1>7, <2>4
      <3>2. e \in FilesOn(j)
        BY <1>4, <2>4, <3>1 DEF FilesOn
      <3>3. \A i \in Inodes : FilesOn(i)' \subseteq FilesOn(i) /\ e \notin FilesOn(i)'
        BY <2>2 DEF FilesOn
      <3>4. \A i \in Inodes : DirsOf(i)' \subseteq DirsOf(i) /\ CallsOn(i)' \subseteq CallsOn(i)
        BY <1>1, <1>4, <1>6, <2>1 DEF DirsOf, CallsOn, Only
      <3>5. iref[j] \in Int /\ iref'[j] = iref[j] - 1 /\ \A i \in Inodes : i # j => iref'[i] = iref[i]
        BY <1>5, <1>12, <2>4, <3>1 DEF TablesTyped
      <3>6. Change(FilesOn(j), FilesOn(j)', -1) /\ Change(DirsOf(j), DirsOf(j)', 0) /\ Change(CallsOn(j), CallsOn(j)', 0)
        BY <3>2, <3>3, <3>4 DEF Change
      <3>7. iref'[j] >= iref[j] + (-1) + 0 + 0
        BY <3>5
      <3>8. UsersMove(j)
        BY <3>6, <3>7 DEF UsersMove
      <3> QED
        BY <1>16, <3>3, <3>4, <3>5, <3>8, InodesBut
    <2> QED
      BY <2>3, <2>4
  <1>25. pc[p] # "born" /\ pc'[p] # "fork" /\ broken' # "panic" /\ stale \subseteq stale'
    BY <1>1, <1>4, <1>6, <1>11
  <1> QED
    BY <1>1, <1>6, <1>16, <1>18, <1>19, <1>20, <1>21, <1>22, <1>23, <1>24, <1>25, OneStep

-----------------------------------------------------------------------------
(* dup, open and pipe. *)

\* The count of e changes, and nothing else of it.
Recount(e, n) == file' = [file EXCEPT ![e].ref = n]

\* What that means for the rest.
Recounted(A, e, n) ==
  /\ file' \in [Files -> [ref : Nat, type : FileTypes, ip : 0 .. NINODE, pipe : 0 .. NPAGE,
                          writable : BOOLEAN]]
  /\ file'[e].ref = n /\ \A f \in Files : f # e => file'[f] = file[f]
  /\ \A f \in Files : /\ Touched(A, f)
                      /\ file'[f].type = file[f].type /\ file'[f].ip = file[f].ip
                      /\ (file'[f].ref > 0 <=> file[f].ref > 0)
  /\ \A f \in Files, g \in Pages, w \in BOOLEAN : IsEnd(f, g, w)' <=> IsEnd(f, g, w)

\* It is changed by a process with a reference to e.
LEMMA CountTouched ==
  ASSUME FileInv, broken = "no", NEW p \in Procs, NEW x \in Places, NEW e \in Files, IsRef(p, x, e),
         NEW n \in Nat, n > 0, Recount(e, n), NEW A, p \in A
  PROVE  Recounted(A, e, n)
  <1>1. TablesTyped /\ file[e].ref \in Nat /\ file[e].ref >= 1 /\ NotTheirs({p}, e)
    BY OwnFile, CountIs DEF FileInv
  <1>2. PICK r : r = [file[e] EXCEPT !.ref = n]
    OBVIOUS
  <1>3. file[e] \in [ref : Nat, type : FileTypes, ip : 0 .. NINODE, pipe : 0 .. NPAGE, writable : BOOLEAN]
    BY <1>1 DEF TablesTyped
  <1>4. /\ file' = [file EXCEPT ![e] = r] /\ r.ref = n
        /\ r.type = file[e].type /\ r.ip = file[e].ip /\ r.pipe = file[e].pipe /\ r.writable = file[e].writable
        /\ r \in [ref : Nat, type : FileTypes, ip : 0 .. NINODE, pipe : 0 .. NPAGE, writable : BOOLEAN]
    BY <1>2, <1>3 DEF Recount
  <1>5. /\ file'[e] = r /\ (\A f \in Files : f # e => file'[f] = file[f])
        /\ file' \in [Files -> [ref : Nat, type : FileTypes, ip : 0 .. NINODE, pipe : 0 .. NPAGE,
                                writable : BOOLEAN]]
    <2>1. file \in [Files -> [ref : Nat, type : FileTypes, ip : 0 .. NINODE, pipe : 0 .. NPAGE,
                              writable : BOOLEAN]]
      BY <1>1 DEF TablesTyped
    <2> QED
      BY <1>4, <2>1
  <1>6. NotTheirs(A, e)
    BY <1>1 DEF NotTheirs
  <1>7. ASSUME NEW f \in Files
        PROVE  /\ Touched(A, f)
               /\ file'[f].type = file[f].type /\ file'[f].ip = file[f].ip
               /\ (file'[f].ref > 0 <=> file[f].ref > 0)
    <2>1. CASE f = e
      BY <1>1, <1>4, <1>5, <1>6, <2>1 DEF Touched, FileInv, TypesOK
    <2>2. CASE f # e
      BY <1>5, <2>2 DEF Touched
    <2> QED
      BY <2>1, <2>2
  <1>8. \A f \in Files, g \in Pages, w \in BOOLEAN : IsEnd(f, g, w)' <=> IsEnd(f, g, w)
    BY <1>1, <1>4, <1>5 DEF IsEnd
  <1> QED
    BY <1>4, <1>5, <1>7, <1>8 DEF Recounted

\* filedup counts the new descriptor.
LEMMA FiledupStep ==
  ASSUME FileInv, NEW p \in Procs, AtomicDup(p)
  PROVE  FileInv'
  <1>1. /\ pc[p] = "dup_ref" /\ broken = "no" /\ TablesTyped /\ LocalOK(p) /\ ofile[p] \in [Fds -> 0 .. NFILE]
    BY ProcIs DEF AtomicDup, At, Within, FileInv
  <1>2. PICK e \in Files, fd \in Fds, fe \in Fds :
          e = loc[p].f /\ fd = loc[p].fd /\ fe # fd /\ ofile[p][fe] = e /\ ofile[p][fd] = e
    BY <1>1 DEF LocalOK
  <1>3. loc[p].ret = "user" /\ loc[p].g = 0 /\ loc[p].pg = 0 /\ cwd[p] \in Inodes
    BY <1>1 DEF LocalOK, PipePcs
  <1>4. \A f \in Files, z \in Places : IsRef(p, z, f) <=> z \in Fds /\ z # fd /\ ofile[p][z] = f
    BY <1>1, <1>2, <1>3, PlacesAre DEF IsRef, HandF, HandG, Owes, OwedFd
  <1>5. IsRef(p, fe, e) /\ fe \in Places
    BY <1>2, <1>4, PlacesAre
  <1>6. PICK n \in Nat : n = file[e].ref + 1 /\ n > 0 /\ file[e].ref \in Nat
    BY <1>5, CountIs DEF FileInv
  <1>7. /\ UNCHANGED <<ofile, cwd, iref, page, stale, broken>> /\ Recount(e, n)
        /\ pc' = [pc EXCEPT ![p] = "user"] /\ loc' = [loc EXCEPT ![p] = NoLocals]
    BY <1>2, <1>6 DEF AtomicDup, Return, Goto, Recount
  <1>8. /\ file' \in [Files -> [ref : Nat, type : FileTypes, ip : 0 .. NINODE, pipe : 0 .. NPAGE,
                                 writable : BOOLEAN]]
        /\ file'[e].ref = n /\ (\A f \in Files : f # e => file'[f] = file[f])
        /\ \A f \in Files : /\ Touched({p}, f)
                            /\ file'[f].type = file[f].type /\ file'[f].ip = file[f].ip
                            /\ (file'[f].ref > 0 <=> file[f].ref > 0)
        /\ \A f \in Files, g \in Pages, w \in BOOLEAN : IsEnd(f, g, w)' <=> IsEnd(f, g, w)
    <2>1. p \in {p}
      OBVIOUS
    <2>2. Recounted({p}, e, n)
      BY <1>1, <1>5, <1>6, <1>7, <2>1, CountTouched
    <2> QED
      BY <2>2 DEF Recounted
  <1>9. /\ NoLocals \in Locs /\ NoLocals.f = 0 /\ NoLocals.g = 0 /\ NoLocals.pg = 0 /\ NoLocals.ret = "user"
    BY PlacesAre DEF NoLocals, Locs
  <1>10. TablesTyped'
    BY <1>1, <1>7, <1>8, <1>9 DEF TablesTyped, PCs, Locs
  <1>11. Only({p}) /\ pc'[p] = "user" /\ loc'[p] = NoLocals /\ ofile'[p] = ofile[p] /\ cwd'[p] = cwd[p]
    BY <1>1, <1>7 DEF Only, TablesTyped
  <1>12. \A f \in Files, z \in Places : IsRef(p, z, f)' <=> z \in Fds /\ ofile[p][z] = f
    BY <1>9, <1>11, PlacesAre DEF IsRef, HandF, HandG, Owes
  <1>13. ASSUME NEW f \in Files
         PROVE  MyRefs(f, p)
    <2>1. CASE f = e
      <3>1. ~IsRef(p, fd, f) /\ \A z \in Places : IsRef(p, z, f)' <=> z = fd \/ IsRef(p, z, f)
        BY <1>2, <1>4, <1>12, <2>1, PlacesAre
      <3> QED
        BY <1>6, <1>8, <2>1, <3>1, PlacesAre DEF MyRefs
    <2>2. CASE f # e
      <3>1. \A z \in Places : IsRef(p, z, f)' <=> IsRef(p, z, f)
        BY <1>2, <1>4, <1>12, <2>2, PlacesAre
      <3> QED
        BY <1>8, <2>2, <3>1 DEF MyRefs
    <2> QED
      BY <2>1, <2>2
  <1>14. LocalOK(p)'
    BY <1>3, <1>9, <1>11 DEF LocalOK, Fresh, PipePcs, IpPcs
  <1>15. FileOK(p)'
    BY <1>11 DEF FileOK, Fresh
  <1>16. TakeOK' /\ TypesOK'
    <2>1. \A x \in Fds : \A f \in Files : IsRef(p, x, f) => file[f].type # "none"
      BY <1>1 DEF FileInv, TypesOK
    <2>2. \A x \in Fds : \A f \in Files : IsRef(p, x, f)' => f = e \/ IsRef(p, x, f)
      BY <1>2, <1>4, <1>12, PlacesAre
    <2>3. \A x \in Fds : \A f \in Files : IsRef(p, x, f)' => file'[f].type # "none"
      BY <1>5, <1>8, <2>1, <2>2, <1>2
    <2>4. pc'[p] \notin Taking /\ pc'[p] # "clear" /\ pc[p] # "clear"
      BY <1>1, <1>11 DEF Taking
    <2> QED
      BY <1>1, <1>8, <1>11, <2>3, <2>4, FilesOne
  <1>17. PagesOK'
    <2>1. \A g \in Pages : Held(p, g)' <=> Held(p, g)
      BY <1>1, <1>11 DEF Held, PipePcs
    <2>2. ~Spoiling(p) /\ {p} \in SUBSET Procs /\ pc[p] # "pipe_fds"
      BY <1>1 DEF Spoiling
    <2> QED
      BY <1>7, <1>8, <1>11, <2>1, <2>2, PagesSame
  <1>18. InodesInUseAreHeld'
    <2>1. {p} \in SUBSET Procs /\ pc[p] # "chdir_set" /\ pc'[p] \notin IpPcs
      BY <1>1, <1>11 DEF IpPcs
    <2> QED
      BY <1>7, <1>8, <1>10, <1>11, <2>1, InodesSame
  <1>19. pc[p] # "born" /\ pc'[p] # "fork" /\ broken' # "panic" /\ stale \subseteq stale'
    BY <1>1, <1>7, <1>11
  <1> QED
    BY <1>1, <1>8, <1>10, <1>11, <1>13, <1>14, <1>15, <1>16, <1>17, <1>18, <1>19, OneStep

\* filealloc takes the file.
LEMMA FileTakeStep ==
  ASSUME FileInv, NEW p \in Procs, FileTake(p)
  PROVE  FileInv'
  <1>1. /\ pc[p] \in Taking /\ broken = "no" /\ TablesTyped /\ LocalOK(p) /\ FileOK(p) /\ loc[p] \in Locs
        /\ ofile[p] \in [Fds -> 0 .. NFILE]
    BY ProcIs DEF FileTake, Within, FileInv
  <1>2. PICK e \in Files : /\ e = Target(p) /\ file[e].ref = 0 /\ file[e].type = "none"
                           /\ \A q \in Procs : pc[q] = "clear" => loc[q].f # e
                           /\ \A q \in Procs : pc[q] \in Taking => q = p
    BY <1>1, TargetIs DEF FileInv, TakeOK
  <1>3. PICK s : /\ pc' = [pc EXCEPT ![p] = s]
                 /\ \/ pc[p] = "open_take" /\ s = "open_fd" /\ e = loc[p].f
                    \/ pc[p] = "rf_take" /\ s = "wf_test" /\ e = loc[p].f
                    \/ pc[p] = "wf_take" /\ s = "pipe_init" /\ e = loc[p].g
    <2>1. CASE pc[p] = "open_take"
      BY <1>1, <1>2, <2>1 DEF FileTake, Goto, At, Within, Target
    <2>2. CASE pc[p] = "rf_take"
      BY <1>1, <1>2, <2>2 DEF FileTake, Goto, At, Within, Target
    <2>3. CASE pc[p] = "wf_take"
      BY <1>1, <1>2, <2>3 DEF FileTake, Goto, At, Within, Target
    <2> QED
      BY <1>1, <2>1, <2>2, <2>3 DEF Taking
  <1>4. UNCHANGED <<ofile, cwd, iref, page, loc, stale, broken>>
    BY DEF FileTake
  <1>5. PICK r : r = [file[e] EXCEPT !.ref = 1]
    OBVIOUS
  <1>6. file[e] \in [ref : Nat, type : FileTypes, ip : 0 .. NINODE, pipe : 0 .. NPAGE, writable : BOOLEAN]
    BY <1>1 DEF TablesTyped
  <1>7. /\ file' = [file EXCEPT ![e] = r] /\ r.ref = 1 /\ r.type = "none"
        /\ r \in [ref : Nat, type : FileTypes, ip : 0 .. NINODE, pipe : 0 .. NPAGE, writable : BOOLEAN]
    BY <1>2, <1>5, <1>6 DEF FileTake
  <1>8. /\ file'[e] = r /\ (\A f \in Files : f # e => file'[f] = file[f])
    BY <1>1, <1>7 DEF TablesTyped
  <1>9. TablesTyped'
    BY <1>1, <1>3, <1>4, <1>7 DEF TablesTyped, PCs, Testing
  <1>10. Only({p}) /\ pc'[p] = s
    BY <1>1, <1>3, <1>4 DEF Only, TablesTyped
  <1>11. /\ loc[p].ret = "user" /\ cwd[p] \in Inodes
         /\ pc[p] # "wf_take" => loc[p].g = 0
         /\ pc[p] = "open_take" => loc[p].pg = 0 /\ loc[p].ip \in Inodes
         /\ pc[p] # "open_take" => loc[p].pg \in Pages
         /\ pc[p] = "wf_take" => loc[p].f \in Files /\ loc[p].f # loc[p].g
                                 /\ file[loc[p].f].ref = 1 /\ file[loc[p].f].type = "none"
    BY <1>1 DEF LocalOK, FileOK, Fresh, PipePcs, IpPcs, Taking
  <1>12. PICK x \in Places : x = IF pc[p] = "wf_take" THEN -2 ELSE -1
    BY PlacesAre
  <1>13. ~IsRef(p, x, e)
    BY <1>2, CountIs DEF FileInv
  <1>14. \A f \in Files, z \in Places : IsRef(p, z, f)' <=> (z = x /\ f = e) \/ IsRef(p, z, f)
    BY <1>1, <1>3, <1>4, <1>10, <1>11, <1>12, PlacesAre DEF IsRef, HandF, HandG, Owes
  <1>15. ASSUME NEW f \in Files
         PROVE  MyRefs(f, p)
    <2>1. CASE f = e
      BY <1>2, <1>7, <1>8, <1>13, <1>14, <2>1 DEF MyRefs
    <2>2. CASE f # e
      BY <1>8, <1>14, <2>2 DEF MyRefs
    <2> QED
      BY <2>1, <2>2
  <1>16. NotTheirs({p}, e)
    <2> SUFFICES ASSUME NEW q \in Procs, q # p, Relies(q, e)
                 PROVE  FALSE
      BY DEF NotTheirs
    <2>1. FileOK(q)
      BY DEF FileInv
    <2> QED
      BY <1>2, <2>1 DEF Relies, FileOK
  <1>17. ASSUME NEW f \in Files
         PROVE  Touched({p}, f)
    BY <1>2, <1>7, <1>8, <1>16 DEF Touched
  <1>18. LocalOK(p)'
    BY <1>2, <1>3, <1>4, <1>10, <1>11 DEF LocalOK, Fresh, PipePcs, IpPcs
  <1>19. FileOK(p)'
    <2>1. CASE pc[p] = "wf_take"
      BY <1>3, <1>4, <1>7, <1>8, <1>10, <1>11, <2>1 DEF FileOK, Fresh
    <2>2. CASE pc[p] # "wf_take"
      BY <1>3, <1>4, <1>7, <1>8, <1>10, <1>11, <2>2 DEF FileOK, Fresh
    <2> QED
      BY <2>1, <2>2
  <1>20. TakeOK' /\ TypesOK'
    <2>1. \A fd \in Fds : \A f \in Files : IsRef(p, fd, f)' => IsRef(p, fd, f) /\ f # e
      BY <1>2, <1>12, <1>14, PlacesAre, CountIs DEF FileInv
    <2>2. \A fd \in Fds : \A f \in Files : IsRef(p, fd, f)' => file[f].type # "none"
      BY <1>3, <2>1 DEF FileInv, TypesOK
    <2>3. \A fd \in Fds : \A f \in Files : IsRef(p, fd, f)' => file'[f].type # "none"
      BY <1>8, <2>1, <2>2
    <2>4. pc'[p] \notin Taking /\ pc'[p] # "clear" /\ pc[p] # "clear"
      BY <1>3, <1>10 DEF Taking
    <2>5. \A f \in Files : Touched({p}, f)
      BY <1>17
    <2> QED
      BY <1>1, <1>10, <2>3, <2>4, <2>5, FilesOne
  <1>21. PagesOK'
    <2>1. \A f \in Files, g \in Pages, w \in BOOLEAN : IsEnd(f, g, w)' <=> IsEnd(f, g, w)
      BY <1>2, <1>7, <1>8 DEF IsEnd
    <2>2. \A g \in Pages : Held(p, g)' <=> Held(p, g)
      BY <1>3, <1>4, <1>10 DEF Held, PipePcs
    <2>3. ~Spoiling(p) /\ {p} \in SUBSET Procs /\ pc[p] # "pipe_fds"
      BY <1>3 DEF Spoiling
    <2> QED
      BY <1>4, <1>10, <2>1, <2>2, <2>3, PagesSame
  <1>22. InodesInUseAreHeld'
    <2>1. {p} \in SUBSET Procs /\ pc[p] # "chdir_set" /\ (pc'[p] \in IpPcs => pc[p] \in IpPcs)
      BY <1>3, <1>10 DEF IpPcs
    <2>2. \A f \in Files : file'[f].ref > 0 /\ file'[f].type = "inode" =>
           file[f].ref > 0 /\ file[f].type = "inode" /\ file'[f].ip = file[f].ip
      BY <1>7, <1>8
    <2> QED
      BY <1>4, <1>9, <1>10, <2>1, <2>2, InodesSame
  <1>23. pc[p] # "born" /\ pc'[p] # "fork" /\ broken' # "panic" /\ stale \subseteq stale'
    BY <1>1, <1>3, <1>4, <1>10
  <1> QED
    BY <1>1, <1>9, <1>10, <1>15, <1>17, <1>18, <1>19, <1>20, <1>21, <1>22, <1>23, OneStep

\* sys_open sets the type of the file.
LEMMA OpenInitStep ==
  ASSUME FileInv, NEW p \in Procs, OpenInit(p)
  PROVE  FileInv'
  <1>1. /\ pc[p] = "open_init" /\ broken = "no" /\ TablesTyped /\ LocalOK(p) /\ FileOK(p) /\ loc[p] \in Locs
        /\ ofile[p] \in [Fds -> 0 .. NFILE]
    BY ProcIs DEF OpenInit, At, Within, FileInv
  <1>2. PICK e \in Files, j \in Inodes, fd \in Fds : e = loc[p].f /\ j = loc[p].ip /\ ofile[p][fd] = e
    BY <1>1 DEF LocalOK, Fresh, IpPcs
  <1>3. /\ loc[p].ret = "user" /\ loc[p].g = 0 /\ cwd[p] \in Inodes /\ file[e].ref = 1 /\ file[e].type = "none"
    BY <1>1, <1>2 DEF LocalOK, FileOK, Fresh
  <1>4. /\ UNCHANGED <<ofile, cwd, iref, page, stale, broken>>
        /\ pc' = [pc EXCEPT ![p] = "user"] /\ loc' = [loc EXCEPT ![p] = NoLocals]
    BY DEF OpenInit, Return, Goto
  <1>5. PICK r : r = [[file[e] EXCEPT !.type = "inode"] EXCEPT !.ip = j]
    OBVIOUS
  <1>6. file[e] \in [ref : Nat, type : FileTypes, ip : 0 .. NINODE, pipe : 0 .. NPAGE, writable : BOOLEAN]
    BY <1>1 DEF TablesTyped
  <1>7. /\ file' = [file EXCEPT ![e] = r] /\ r.ref = 1 /\ r.type = "inode" /\ r.ip = j
        /\ r \in [ref : Nat, type : FileTypes, ip : 0 .. NINODE, pipe : 0 .. NPAGE, writable : BOOLEAN]
    <2>1. file' = [file EXCEPT ![e] = r]
      BY <1>1, <1>2, <1>5 DEF OpenInit, TablesTyped
    <2> QED
      BY <1>3, <1>5, <1>6, <2>1, PlacesAre DEF FileTypes
  <1>8. /\ file'[e] = r /\ (\A f \in Files : f # e => file'[f] = file[f])
    BY <1>1, <1>7 DEF TablesTyped
  <1>9. /\ NoLocals \in Locs /\ NoLocals.f = 0 /\ NoLocals.g = 0 /\ NoLocals.pg = 0 /\ NoLocals.ret = "user"
    BY PlacesAre DEF NoLocals, Locs
  <1>10. TablesTyped'
    BY <1>1, <1>4, <1>7, <1>9 DEF TablesTyped, PCs, Locs
  <1>11. Only({p}) /\ pc'[p] = "user" /\ loc'[p] = NoLocals /\ ofile'[p] = ofile[p] /\ cwd'[p] = cwd[p]
    BY <1>1, <1>4 DEF Only, TablesTyped
  <1>12. \A f \in Files, z \in Places : IsRef(p, z, f)' <=> z \in Fds /\ ofile[p][z] = f
    BY <1>9, <1>11, PlacesAre DEF IsRef, HandF, HandG, Owes
  <1>13. \A f \in Files, z \in Places : IsRef(p, z, f) <=> z \in Fds /\ ofile[p][z] = f
    BY <1>1, PlacesAre DEF IsRef, HandF, HandG, Owes
  <1>14. ASSUME NEW f \in Files
         PROVE  MyRefs(f, p)
    BY <1>3, <1>7, <1>8, <1>12, <1>13 DEF MyRefs
  <1>15. NotTheirs({p}, e)
    <2>1. IsRef(p, fd, e) /\ fd \in Places
      BY <1>2, <1>13, PlacesAre
    <2> QED
      BY <1>1, <2>1, OwnFile
  <1>16. ASSUME NEW f \in Files
         PROVE  Touched({p}, f)
    BY <1>3, <1>7, <1>8, <1>15 DEF Touched
  <1>17. LocalOK(p)'
    BY <1>3, <1>9, <1>11 DEF LocalOK, Fresh, PipePcs, IpPcs
  <1>18. FileOK(p)'
    BY <1>11 DEF FileOK, Fresh
  <1>19. TakeOK' /\ TypesOK'
    <2>1. \A x \in Fds : \A f \in Files : IsRef(p, x, f)' => IsRef(p, x, f)
      BY <1>12, <1>13, PlacesAre
    <2>2. \A x \in Fds : \A f \in Files : IsRef(p, x, f)' => f = e \/ file[f].type # "none"
      BY <1>2, <2>1 DEF FileInv, TypesOK
    <2>3. \A x \in Fds : \A f \in Files : IsRef(p, x, f)' => file'[f].type # "none"
      BY <1>7, <1>8, <2>2
    <2>4. pc'[p] \notin Taking /\ pc'[p] # "clear" /\ pc[p] # "clear"
      BY <1>1, <1>11 DEF Taking
    <2>5. \A f \in Files : Touched({p}, f)
      BY <1>16
    <2> QED
      BY <1>1, <1>11, <2>3, <2>4, <2>5, FilesOne
  <1>20. PagesOK'
    <2>1. \A f \in Files, g \in Pages, w \in BOOLEAN : IsEnd(f, g, w)' <=> IsEnd(f, g, w)
      BY <1>3, <1>7, <1>8 DEF IsEnd
    <2>2. \A g \in Pages : Held(p, g)' <=> Held(p, g)
      BY <1>1, <1>11 DEF Held, PipePcs
    <2>3. ~Spoiling(p) /\ {p} \in SUBSET Procs /\ pc[p] # "pipe_fds"
      BY <1>1 DEF Spoiling
    <2> QED
      BY <1>4, <1>11, <2>1, <2>2, <2>3, PagesSame
  <1>21. InodesInUseAreHeld'
    <2>1. FilesOn(j)' \subseteq FilesOn(j) \cup {e} /\ \A i \in Inodes : i # j => FilesOn(i)' \subseteq FilesOn(i)
      BY <1>7, <1>8 DEF FilesOn
    <2>2. \A i \in Inodes : DirsOf(i)' \subseteq DirsOf(i)
      BY <1>1, <1>4, <1>11 DEF DirsOf, Only
    <2>3. p \in CallsOn(j) /\ \A i \in Inodes : CallsOn(i)' \subseteq CallsOn(i) \ {p}
      BY <1>1, <1>2, <1>11 DEF CallsOn, Only, IpPcs
    <2>4. Change(FilesOn(j), FilesOn(j)', 1) /\ Change(DirsOf(j), DirsOf(j)', 0) /\ Change(CallsOn(j), CallsOn(j)', -1)
      BY <2>1, <2>2, <2>3 DEF Change
    <2>5. iref'[j] >= iref[j] + 1 + 0 + (-1)
      BY <1>1, <1>4 DEF TablesTyped
    <2>6. UsersMove(j)
      BY <2>4, <2>5 DEF UsersMove
    <2> QED
      BY <1>4, <1>10, <2>1, <2>2, <2>3, <2>6, InodesBut
  <1>22. pc[p] # "born" /\ pc'[p] # "fork" /\ broken' # "panic" /\ stale \subseteq stale'
    BY <1>1, <1>4, <1>11
  <1> QED
    BY <1>1, <1>10, <1>11, <1>14, <1>16, <1>17, <1>18, <1>19, <1>20, <1>21, <1>22, OneStep

\* sys_open and sys_chdir have found their inode.
LEMMA IgetStep ==
  ASSUME FileInv, NEW p \in Procs, pc[p] = "user", broken = "no", NEW j \in Inodes, Iget(j),
         NEW s \in {"open_test", "chdir_put"}, Goto(p, s), loc' = [loc EXCEPT ![p].ip = j],
         UNCHANGED <<file, ofile, cwd, page, stale, broken>>
  PROVE  FileInv'
  <1>1. /\ TablesTyped /\ loc[p] \in Locs /\ cwd[p] \in Inodes /\ ofile[p] \in [Fds -> 0 .. NFILE]
        /\ loc[p].g = 0 /\ loc[p].pg = 0 /\ loc[p].ret = "user"
        /\ \A f \in Files, z \in Places : IsRef(p, z, f) <=> z \in Fds /\ ofile[p][z] = f
    BY UserIs
  <1>2. PICK l : l = [loc[p] EXCEPT !.ip = j]
    OBVIOUS
  <1>3. l \in Locs /\ l.ip = j /\ l.g = 0 /\ l.pg = 0 /\ l.ret = "user"
    BY <1>1, <1>2, PlacesAre DEF Locs
  <1>4. loc' = [loc EXCEPT ![p] = l] /\ pc' = [pc EXCEPT ![p] = s]
    BY <1>2 DEF Goto
  <1>5. iref[j] \in Nat /\ iref' \in [Inodes -> Nat] /\ iref'[j] = iref[j] + 1 /\ \A i \in Inodes : i # j => iref'[i] = iref[i]
    BY <1>1 DEF Iget, TablesTyped
  <1>6. TablesTyped'
    <2>1. loc \in [Procs -> Locs] /\ pc \in [Procs -> PCs] /\ s \in PCs
      BY <1>1 DEF TablesTyped, Locs, PCs, Testing
    <2>2. loc' \in [Procs -> Locs] /\ pc' \in [Procs -> PCs]
      BY <1>3, <1>4, <2>1
    <2> QED
      BY <1>1, <1>5, <2>2 DEF TablesTyped, Locs
  <1>7. Only({p}) /\ pc'[p] = s /\ loc'[p] = l /\ ofile'[p] = ofile[p] /\ cwd'[p] = cwd[p]
    BY <1>1, <1>4 DEF Only, TablesTyped
  <1>8. \A f \in Files, z \in Places : IsRef(p, z, f)' <=> IsRef(p, z, f)
    BY <1>1, <1>3, <1>7, PlacesAre DEF IsRef, HandF, HandG, Owes
  <1>9. \A f \in Files : MyRefs(f, p)
    BY <1>8 DEF MyRefs
  <1>10. LocalOK(p)'
    BY <1>1, <1>3, <1>7 DEF LocalOK, Fresh, PipePcs, IpPcs
  <1>11. FileOK(p)'
    BY <1>7 DEF FileOK, Fresh
  <1>12. \A x \in Fds : \A f \in Files : IsRef(p, x, f)' => file[f].type # "none"
    BY <1>8, PlacesAre DEF FileInv, TypesOK
  <1>13. \A g \in Pages : Held(p, g)' <=> Held(p, g)
    BY <1>7 DEF Held, PipePcs
  <1>14. InodesInUseAreHeld'
    <2>1. \A i \in Inodes : FilesOn(i)' \subseteq FilesOn(i)
      BY DEF FilesOn
    <2>2. \A i \in Inodes : DirsOf(i)' \subseteq DirsOf(i)
      BY <1>7 DEF DirsOf, Only
    <2>3. CallsOn(j)' \subseteq CallsOn(j) \cup {p} /\ \A i \in Inodes : i # j => CallsOn(i)' \subseteq CallsOn(i)
      BY <1>3, <1>7 DEF CallsOn, Only
    <2>4. Change(FilesOn(j), FilesOn(j)', 0) /\ Change(DirsOf(j), DirsOf(j)', 0) /\ Change(CallsOn(j), CallsOn(j)', 1)
      BY <2>1, <2>2, <2>3 DEF Change
    <2>5. iref'[j] >= iref[j] + 0 + 0 + 1
      BY <1>5
    <2>6. UsersMove(j)
      BY <2>4, <2>5 DEF UsersMove
    <2> QED
      BY <1>5, <1>6, <2>1, <2>2, <2>3, <2>6, InodesBut
  <1> QED
    BY <1>1, <1>6, <1>7, <1>9, <1>10, <1>11, <1>12, <1>13, <1>14, PlainStep DEF Taking

\* sys_chdir puts the old directory.
LEMMA ChdirPutStep ==
  ASSUME FileInv, NEW p \in Procs, ChdirPut(p)
  PROVE  FileInv'
  <1>1. /\ pc[p] = "chdir_put" /\ broken = "no" /\ TablesTyped /\ LocalOK(p)
    BY ProcIs DEF ChdirPut, At, Within, FileInv
  <1>2. PICK j \in Inodes : j = cwd[p]
    BY <1>1 DEF LocalOK
  <1>3. loc[p].ret = "user" /\ loc[p].g = 0 /\ loc[p].pg = 0 /\ loc[p].ip \in Inodes
    BY <1>1 DEF LocalOK, PipePcs, IpPcs
  <1>4. UNCHANGED <<file, ofile, cwd, page, loc, stale, broken>> /\ pc' = [pc EXCEPT ![p] = "chdir_set"]
    BY DEF ChdirPut, Goto
  <1>5. p \in DirsOf(j)
    BY <1>1, <1>2 DEF DirsOf
  <1>6. iref[j] \in Nat /\ iref[j] - 1 \in Nat
    BY <1>5, UsedInode
  <1>7. iref' \in [Inodes -> Nat] /\ iref'[j] = iref[j] - 1 /\ \A i \in Inodes : i # j => iref'[i] = iref[i]
    BY <1>1, <1>2, <1>6 DEF ChdirPut, Iput, TablesTyped
  <1>8. TablesTyped'
    BY <1>1, <1>4, <1>7 DEF TablesTyped, PCs
  <1>9. Only({p}) /\ pc'[p] = "chdir_set"
    BY <1>1, <1>4 DEF Only, TablesTyped
  <1>10. \A f \in Files, z \in Places : IsRef(p, z, f)' <=> IsRef(p, z, f)
    BY <1>1, <1>4, <1>9, PlacesAre DEF IsRef, HandF, HandG, Owes
  <1>11. \A f \in Files : MyRefs(f, p)
    BY <1>4, <1>10 DEF MyRefs
  <1>12. LocalOK(p)'
    BY <1>2, <1>3, <1>4, <1>9 DEF LocalOK, Fresh, PipePcs, IpPcs
  <1>13. FileOK(p)'
    BY <1>9 DEF FileOK, Fresh
  <1>14. \A x \in Fds : \A f \in Files : IsRef(p, x, f)' => file[f].type # "none"
    BY <1>1, <1>10, PlacesAre DEF FileInv, TypesOK
  <1>15. \A g \in Pages : Held(p, g)' <=> Held(p, g)
    BY <1>1, <1>9 DEF Held, PipePcs
  <1>16. InodesInUseAreHeld'
    <2>1. \A i \in Inodes : FilesOn(i)' \subseteq FilesOn(i)
      BY <1>4 DEF FilesOn
    <2>2. \A i \in Inodes : DirsOf(i)' \subseteq DirsOf(i) \ {p}
      BY <1>1, <1>4, <1>9 DEF DirsOf, Only
    <2>3. \A i \in Inodes : CallsOn(i)' \subseteq CallsOn(i)
      BY <1>1, <1>4, <1>9 DEF CallsOn, Only, IpPcs
    <2>4. Change(FilesOn(j), FilesOn(j)', 0) /\ Change(DirsOf(j), DirsOf(j)', -1) /\ Change(CallsOn(j), CallsOn(j)', 0)
      BY <1>5, <2>1, <2>2, <2>3 DEF Change
    <2>5. iref'[j] >= iref[j] + 0 + (-1) + 0
      BY <1>6, <1>7
    <2>6. UsersMove(j)
      BY <2>4, <2>5 DEF UsersMove
    <2> QED
      BY <1>7, <1>8, <2>1, <2>2, <2>3, <2>6, InodesBut
  <1> QED
    BY <1>1, <1>3, <1>4, <1>8, <1>9, <1>11, <1>12, <1>13, <1>14, <1>15, <1>16, PlainStep DEF Taking

\* sys_chdir gives up.
LEMMA ChdirFailStep ==
  ASSUME FileInv, NEW p \in Procs, ChdirFail(p)
  PROVE  FileInv'
  <1>1. /\ pc[p] = "chdir_put" /\ broken = "no" /\ TablesTyped /\ LocalOK(p)
    BY ProcIs DEF ChdirFail, At, Within, FileInv
  <1>2. PICK j \in Inodes : j = loc[p].ip
    BY <1>1 DEF LocalOK, IpPcs
  <1>3. loc[p].ret = "user" /\ loc[p].g = 0 /\ loc[p].pg = 0 /\ cwd[p] \in Inodes
    BY <1>1 DEF LocalOK, PipePcs, IpPcs
  <1>4. /\ UNCHANGED <<file, ofile, cwd, page, stale, broken>>
        /\ pc' = [pc EXCEPT ![p] = "user"] /\ loc' = [loc EXCEPT ![p] = NoLocals]
    BY DEF ChdirFail, Goto, Return
  <1>5. /\ NoLocals \in Locs /\ NoLocals.f = 0 /\ NoLocals.g = 0 /\ NoLocals.pg = 0 /\ NoLocals.ret = "user"
    BY PlacesAre DEF NoLocals, Locs
  <1>6. p \in CallsOn(j)
    BY <1>1, <1>2 DEF CallsOn, IpPcs
  <1>7. iref[j] \in Nat /\ iref[j] - 1 \in Nat
    BY <1>6, UsedInode
  <1>8. iref' \in [Inodes -> Nat] /\ iref'[j] = iref[j] - 1 /\ \A i \in Inodes : i # j => iref'[i] = iref[i]
    BY <1>1, <1>2, <1>7 DEF ChdirFail, Iput, TablesTyped
  <1>9. TablesTyped'
    BY <1>1, <1>4, <1>5, <1>8, PlacesAre DEF TablesTyped, PCs, Locs
  <1>10. Only({p}) /\ pc'[p] = "user" /\ loc'[p] = NoLocals /\ ofile'[p] = ofile[p] /\ cwd'[p] = cwd[p]
    BY <1>1, <1>4 DEF Only, TablesTyped
  <1>11. \A f \in Files, z \in Places : IsRef(p, z, f)' <=> IsRef(p, z, f)
    BY <1>1, <1>5, <1>10, PlacesAre DEF IsRef, HandF, HandG, Owes
  <1>12. \A f \in Files : MyRefs(f, p)
    BY <1>4, <1>11 DEF MyRefs
  <1>13. LocalOK(p)'
    BY <1>3, <1>5, <1>10 DEF LocalOK, Fresh, PipePcs, IpPcs
  <1>14. FileOK(p)'
    BY <1>10 DEF FileOK, Fresh
  <1>15. \A x \in Fds : \A f \in Files : IsRef(p, x, f)' => file[f].type # "none"
    BY <1>1, <1>11, PlacesAre DEF FileInv, TypesOK
  <1>16. \A g \in Pages : Held(p, g)' <=> Held(p, g)
    BY <1>1, <1>10 DEF Held, PipePcs
  <1>17. InodesInUseAreHeld'
    <2>1. \A i \in Inodes : FilesOn(i)' \subseteq FilesOn(i)
      BY <1>4 DEF FilesOn
    <2>2. \A i \in Inodes : DirsOf(i)' \subseteq DirsOf(i)
      BY <1>1, <1>10 DEF DirsOf, Only
    <2>3. \A i \in Inodes : CallsOn(i)' \subseteq CallsOn(i) \ {p}
      BY <1>1, <1>10 DEF CallsOn, Only, IpPcs
    <2>4. Change(FilesOn(j), FilesOn(j)', 0) /\ Change(DirsOf(j), DirsOf(j)', 0) /\ Change(CallsOn(j), CallsOn(j)', -1)
      BY <1>6, <2>1, <2>2, <2>3 DEF Change
    <2>5. iref'[j] >= iref[j] + 0 + 0 + (-1)
      BY <1>7, <1>8
    <2>6. UsersMove(j)
      BY <2>4, <2>5 DEF UsersMove
    <2> QED
      BY <1>8, <1>9, <2>1, <2>2, <2>3, <2>6, InodesBut
  <1> QED
    BY <1>1, <1>3, <1>4, <1>9, <1>10, <1>12, <1>13, <1>14, <1>15, <1>16, <1>17, PlainStep DEF Taking

\* sys_chdir stores the new directory.
LEMMA ChdirSetStep ==
  ASSUME FileInv, NEW p \in Procs, ChdirSet(p)
  PROVE  FileInv'
  <1>1. /\ pc[p] = "chdir_set" /\ broken = "no" /\ TablesTyped /\ LocalOK(p)
    BY ProcIs DEF ChdirSet, At, Within, FileInv
  <1>2. PICK j \in Inodes : j = loc[p].ip
    BY <1>1 DEF LocalOK, IpPcs
  <1>3. loc[p].ret = "user" /\ loc[p].g = 0 /\ loc[p].pg = 0
    BY <1>1 DEF LocalOK, PipePcs, IpPcs
  <1>4. /\ UNCHANGED <<file, ofile, iref, page, stale, broken>> /\ cwd' = [cwd EXCEPT ![p] = j]
        /\ pc' = [pc EXCEPT ![p] = "user"] /\ loc' = [loc EXCEPT ![p] = NoLocals]
    BY <1>2 DEF ChdirSet, Goto, Return
  <1>5. /\ NoLocals \in Locs /\ NoLocals.f = 0 /\ NoLocals.g = 0 /\ NoLocals.pg = 0 /\ NoLocals.ret = "user"
    BY PlacesAre DEF NoLocals, Locs
  <1>6. TablesTyped'
    BY <1>1, <1>4, <1>5, PlacesAre DEF TablesTyped, PCs, Locs
  <1>7. Only({p}) /\ pc'[p] = "user" /\ loc'[p] = NoLocals /\ ofile'[p] = ofile[p] /\ cwd'[p] = j
    BY <1>1, <1>4 DEF Only, TablesTyped
  <1>8. \A f \in Files, z \in Places : IsRef(p, z, f)' <=> IsRef(p, z, f)
    BY <1>1, <1>5, <1>7, PlacesAre DEF IsRef, HandF, HandG, Owes
  <1>9. \A f \in Files : MyRefs(f, p)
    BY <1>4, <1>8 DEF MyRefs
  <1>10. LocalOK(p)'
    BY <1>5, <1>7 DEF LocalOK, Fresh, PipePcs, IpPcs
  <1>11. FileOK(p)'
    BY <1>7 DEF FileOK, Fresh
  <1>12. \A x \in Fds : \A f \in Files : IsRef(p, x, f)' => file[f].type # "none"
    BY <1>1, <1>8, PlacesAre DEF FileInv, TypesOK
  <1>13. \A g \in Pages : Held(p, g)' <=> Held(p, g)
    BY <1>1, <1>7 DEF Held, PipePcs
  <1>14. InodesInUseAreHeld'
    <2>1. \A i \in Inodes : FilesOn(i)' \subseteq FilesOn(i)
      BY <1>4 DEF FilesOn
    <2>2. DirsOf(j)' \subseteq DirsOf(j) \cup {p} /\ \A i \in Inodes : i # j => DirsOf(i)' \subseteq DirsOf(i)
      BY <1>7 DEF DirsOf, Only
    <2>3. p \in CallsOn(j) /\ \A i \in Inodes : CallsOn(i)' \subseteq CallsOn(i) \ {p}
      BY <1>1, <1>2, <1>7 DEF CallsOn, Only, IpPcs
    <2>4. Change(FilesOn(j), FilesOn(j)', 0) /\ Change(DirsOf(j), DirsOf(j)', 1) /\ Change(CallsOn(j), CallsOn(j)', -1)
      BY <2>1, <2>2, <2>3 DEF Change
    <2>5. iref'[j] >= iref[j] + 0 + 1 + (-1)
      BY <1>1, <1>4 DEF TablesTyped
    <2>6. UsersMove(j)
      BY <2>4, <2>5 DEF UsersMove
    <2> QED
      BY <1>4, <1>6, <2>1, <2>2, <2>3, <2>6, InodesBut
  <1> QED
    BY <1>1, <1>3, <1>4, <1>6, <1>7, <1>9, <1>10, <1>11, <1>12, <1>13, <1>14, PlainStep DEF Taking

\* exit puts the directory.
LEMMA ExitCwdStep ==
  ASSUME FileInv, NEW p \in Procs, ExitCwd(p)
  PROVE  FileInv'
  <1>1. pc[p] = "exit" /\ broken = "no"
    BY DEF ExitCwd, At, Within
  <1>2. /\ TablesTyped /\ loc[p] \in Locs /\ loc[p] = NoLocals /\ cwd[p] \in Inodes /\ ofile[p] \in [Fds -> 0 .. NFILE]
        /\ loc[p].g = 0 /\ loc[p].pg = 0 /\ loc[p].ret = "user"
        /\ \A f \in Files, z \in Places : IsRef(p, z, f) <=> z \in Fds /\ ofile[p][z] = f
    BY <1>1, UserIs
  <1>3. PICK j \in Inodes : j = cwd[p]
    BY <1>2
  <1>4. /\ UNCHANGED <<file, ofile, page, loc, stale, broken>> /\ cwd' = [cwd EXCEPT ![p] = 0]
        /\ pc' = [pc EXCEPT ![p] = "dead"] /\ \A fd \in Fds : ofile[p][fd] = 0
    BY DEF ExitCwd, Goto, OpenFds
  <1>5. p \in DirsOf(j)
    BY <1>1, <1>3 DEF DirsOf
  <1>6. iref[j] \in Nat /\ iref[j] - 1 \in Nat
    BY <1>5, UsedInode
  <1>7. iref' \in [Inodes -> Nat] /\ iref'[j] = iref[j] - 1 /\ \A i \in Inodes : i # j => iref'[i] = iref[i]
    BY <1>2, <1>3, <1>6 DEF ExitCwd, Iput, TablesTyped
  <1>8. TablesTyped'
    BY <1>2, <1>4, <1>7, PlacesAre DEF TablesTyped, PCs
  <1>9. Only({p}) /\ pc'[p] = "dead" /\ cwd'[p] = 0
    BY <1>2, <1>4 DEF Only, TablesTyped
  <1>10. \A f \in Files, z \in Places : IsRef(p, z, f)' <=> IsRef(p, z, f)
    BY <1>2, <1>4, <1>9, PlacesAre DEF IsRef, HandF, HandG, Owes
  <1>11. \A f \in Files : MyRefs(f, p)
    BY <1>4, <1>10 DEF MyRefs
  <1>12. LocalOK(p)'
    BY <1>2, <1>4, <1>9 DEF LocalOK, Fresh, PipePcs, IpPcs
  <1>13. FileOK(p)'
    BY <1>9 DEF FileOK, Fresh
  <1>14. \A x \in Fds : \A f \in Files : IsRef(p, x, f)' => file[f].type # "none"
    BY <1>1, <1>10, PlacesAre DEF FileInv, TypesOK
  <1>15. \A g \in Pages : Held(p, g)' <=> Held(p, g)
    BY <1>1, <1>9 DEF Held, PipePcs
  <1>16. InodesInUseAreHeld'
    <2>1. \A i \in Inodes : FilesOn(i)' \subseteq FilesOn(i)
      BY <1>4 DEF FilesOn
    <2>2. \A i \in Inodes : DirsOf(i)' \subseteq DirsOf(i) \ {p}
      <3>1. \A i \in Inodes : i # 0
        BY FileAssumption DEF Inodes
      <3> QED
        BY <1>9, <3>1 DEF DirsOf, Only
    <2>3. \A i \in Inodes : CallsOn(i)' \subseteq CallsOn(i)
      BY <1>4, <1>9 DEF CallsOn, Only, IpPcs
    <2>4. Change(FilesOn(j), FilesOn(j)', 0) /\ Change(DirsOf(j), DirsOf(j)', -1) /\ Change(CallsOn(j), CallsOn(j)', 0)
      BY <1>5, <2>1, <2>2, <2>3 DEF Change
    <2>5. iref'[j] >= iref[j] + 0 + (-1) + 0
      BY <1>6, <1>7
    <2>6. UsersMove(j)
      BY <2>4, <2>5 DEF UsersMove
    <2> QED
      BY <1>7, <1>8, <2>1, <2>2, <2>3, <2>6, InodesBut
  <1> QED
    BY <1>1, <1>2, <1>4, <1>8, <1>9, <1>11, <1>12, <1>13, <1>14, <1>15, <1>16, PlainStep DEF Taking

\* sys_pipe has a page.
LEMMA KallocStep ==
  ASSUME FileInv, NEW p \in Procs, Kalloc(p)
  PROVE  FileInv'
  <1>1. pc[p] = "user" /\ broken = "no"
    BY DEF Kalloc, At, Within
  <1>2. /\ TablesTyped /\ loc[p] \in Locs /\ cwd[p] \in Inodes /\ ofile[p] \in [Fds -> 0 .. NFILE]
        /\ loc[p].g = 0 /\ loc[p].pg = 0 /\ loc[p].ret = "user"
        /\ \A f \in Files, z \in Places : IsRef(p, z, f) <=> z \in Fds /\ ofile[p][z] = f
    BY <1>1, UserIs
  <1>3. UNCHANGED <<file, ofile, cwd, iref, stale, broken>> /\ pc' = [pc EXCEPT ![p] = "rf_test"]
    BY DEF Kalloc, Goto
  <1>4. PICK h \in Pages :
          /\ ~page[h].alloc
          /\ page' = [page EXCEPT ![h] = [alloc |-> TRUE, readopen |-> TRUE, writeopen |-> TRUE]]
          /\ loc' = [loc EXCEPT ![p].pg = h]
    BY DEF Kalloc
  <1>5. PICK l : l = [loc[p] EXCEPT !.pg = h]
    OBVIOUS
  <1>6. l \in Locs /\ l.pg = h /\ l.g = 0 /\ l.ret = "user"
    BY <1>2, <1>5, PlacesAre DEF Locs
  <1>7. loc' = [loc EXCEPT ![p] = l]
    BY <1>4, <1>5
  <1>8. /\ page'[h] = [alloc |-> TRUE, readopen |-> TRUE, writeopen |-> TRUE]
        /\ \A g \in Pages : g # h => page'[g] = page[g]
    BY <1>2, <1>4 DEF TablesTyped
  <1>9. TablesTyped'
    <2>1. page' \in [Pages -> [alloc : BOOLEAN, readopen : BOOLEAN, writeopen : BOOLEAN]]
      BY <1>2, <1>4 DEF TablesTyped
    <2> QED
      BY <1>2, <1>3, <1>6, <1>7, <2>1 DEF TablesTyped, PCs, Locs, Testing
  <1>10. Only({p}) /\ pc'[p] = "rf_test" /\ loc'[p] = l /\ ofile'[p] = ofile[p] /\ cwd'[p] = cwd[p]
    BY <1>2, <1>3, <1>7 DEF Only, TablesTyped
  <1>11. \A f \in Files, z \in Places : IsRef(p, z, f)' <=> IsRef(p, z, f)
    BY <1>2, <1>6, <1>10, PlacesAre DEF IsRef, HandF, HandG, Owes
  <1>12. \A f \in Files : MyRefs(f, p) /\ Touched({p}, f)
    BY <1>3, <1>11 DEF MyRefs, Touched
  <1>13. LocalOK(p)'
    BY <1>2, <1>6, <1>10 DEF LocalOK, Fresh, PipePcs, IpPcs
  <1>14. FileOK(p)'
    BY <1>10 DEF FileOK, Fresh
  <1>15. TakeOK' /\ TypesOK'
    <2>1. \A x \in Fds : \A f \in Files : IsRef(p, x, f)' => file'[f].type # "none"
      BY <1>1, <1>3, <1>11, PlacesAre DEF FileInv, TypesOK
    <2>2. pc'[p] \notin Taking /\ pc'[p] # "clear" /\ pc[p] # "clear"
      BY <1>1, <1>10 DEF Taking
    <2> QED
      BY <1>1, <1>10, <1>12, <2>1, <2>2, FilesOne
  <1>16. PagesOK'
    <2>1. \A f \in Files, g \in Pages, w \in BOOLEAN : IsEnd(f, g, w)' <=> IsEnd(f, g, w)
      BY <1>3 DEF IsEnd
    <2>2. ~Spoiling(p) /\ \A g \in Pages : ~Held(p, g) /\ (Held(p, g)' <=> g = h)
      BY <1>1, <1>6, <1>10 DEF Spoiling, Held, PipePcs
    <2>3. ASSUME PageOK(h)
          PROVE  PageOK(h)'
      <3>1. \A q \in Procs : ~Held(q, h)
        <4>1. [alloc |-> TRUE, readopen |-> TRUE, writeopen |-> TRUE].alloc = TRUE
          OBVIOUS
        <4> QED
          BY <1>4, <2>3, <4>1 DEF PageOK, HeldOK
      <3>2. Agrees(h) /\ OneEnd(h)
        BY <2>3, <3>1 DEF PageOK
      <3>3. ~OpenEnd(h, TRUE) /\ ~OpenEnd(h, FALSE)
        BY <1>4, <3>2 DEF Agrees
      <3>4. \A f \in Files, w \in BOOLEAN : ~IsEnd(f, h, w)
        BY <3>3 DEF OpenEnd, IsEnd
      <3>5. \A f \in Files, w \in BOOLEAN : ~IsEnd(f, h, w)'
        BY <2>1, <3>4
      <3>6. \A q \in Procs : Held(q, h)' <=> q = p
        BY <1>10, <2>2, <3>1 DEF Only, Held
      <3>7. HeldOK(p, h)'
        BY <1>8, <3>5, <3>6 DEF HeldOK
      <3>8. OneEnd(h)'
        BY <3>5 DEF OneEnd
      <3> QED
        BY <3>6, <3>7, <3>8 DEF PageOK
    <2>4. {p} \in SUBSET Procs
      OBVIOUS
    <2> QED
      BY <1>8, <1>10, <2>1, <2>2, <2>3, <2>4, PagesBut
  <1>17. InodesInUseAreHeld'
    <2>1. {p} \in SUBSET Procs /\ pc[p] # "chdir_set" /\ pc'[p] \notin IpPcs
      BY <1>1, <1>10 DEF IpPcs
    <2> QED
      BY <1>3, <1>9, <1>10, <2>1, InodesSame
  <1>18. pc[p] # "born" /\ pc'[p] # "fork" /\ broken' # "panic" /\ stale \subseteq stale'
    BY <1>1, <1>3, <1>10
  <1> QED
    BY <1>1, <1>9, <1>10, <1>12, <1>13, <1>14, <1>15, <1>16, <1>17, <1>18, OneStep

\* filealloc finds no file: sys_open gives up, and sys_pipe frees its page.
LEMMA FileNoneStep ==
  ASSUME FileInv, NEW p \in Procs, FileNone(p)
  PROVE  FileInv'
  <1>1. /\ LocalOK(p) /\ FileOK(p) /\ loc[p] \in Locs /\ pc[p] \in Testing /\ broken = "no" /\ TablesTyped
        /\ ofile[p] \in [Fds -> 0 .. NFILE]
    BY ProcIs DEF FileNone, Within, FileInv
  <1>2. /\ loc[p].g = 0 /\ loc[p].ret = "user" /\ cwd[p] \in Inodes
        /\ pc[p] = "open_test" => loc[p].pg = 0 /\ loc[p].ip \in Inodes
        /\ pc[p] # "open_test" => loc[p].pg \in Pages
        /\ pc[p] = "wf_test" => loc[p].f \in Files
    BY <1>1 DEF LocalOK, Fresh, PipePcs, IpPcs, Testing
  <1>3. UNCHANGED <<file, ofile, cwd, stale, broken>>
    BY DEF FileNone
  <1>4. /\ NoLocals \in Locs /\ NoLocals.f = 0 /\ NoLocals.g = 0 /\ NoLocals.pg = 0 /\ NoLocals.ret = "user"
    BY PlacesAre DEF NoLocals, Locs
  <1>5. PICK l, s : /\ l \in Locs /\ l.g = 0 /\ l.ret = "user"
                    /\ loc' = [loc EXCEPT ![p] = l] /\ pc' = [pc EXCEPT ![p] = s]
                    /\ \/ s = "user" /\ l = NoLocals /\ pc[p] # "wf_test"
                       \/ s = "drop" /\ l = loc[p] /\ pc[p] = "wf_test"
    <2>1. CASE pc[p] = "wf_test"
      BY <1>1, <1>2, <2>1 DEF FileNone, At, Within, Goto, TablesTyped
    <2>2. CASE pc[p] # "wf_test"
      BY <1>1, <1>4, <2>2 DEF FileNone, At, Within, Goto, Return
    <2> QED
      BY <2>1, <2>2
  <1>6. IF pc[p] = "open_test" THEN iref' = [iref EXCEPT ![loc[p].ip] = @ - 1] /\ page' = page
                               ELSE iref' = iref /\ page' = [page EXCEPT ![loc[p].pg] = NoPipe]
    BY <1>1 DEF FileNone, At, Within, Iput
  <1>7. Only({p}) /\ pc'[p] = s /\ loc'[p] = l /\ ofile'[p] = ofile[p] /\ cwd'[p] = cwd[p]
    BY <1>1, <1>3, <1>5 DEF Only, TablesTyped
  <1>8. iref' \in [Inodes -> Nat]
    <2>1. CASE pc[p] = "open_test"
      <3>1. PICK j \in Inodes : j = loc[p].ip
        BY <1>2, <2>1
      <3>2. p \in CallsOn(j)
        BY <2>1, <3>1 DEF CallsOn, IpPcs
      <3>3. iref[j] \in Nat /\ iref[j] - 1 \in Nat
        BY <3>2, UsedInode
      <3> QED
        BY <1>1, <1>6, <2>1, <3>1, <3>3 DEF TablesTyped
    <2> QED
      BY <1>1, <1>6, <2>1 DEF TablesTyped
  <1>9. TablesTyped'
    <2>1. NoPipe \in [alloc : BOOLEAN, readopen : BOOLEAN, writeopen : BOOLEAN]
      BY DEF NoPipe
    <2>2. page' \in [Pages -> [alloc : BOOLEAN, readopen : BOOLEAN, writeopen : BOOLEAN]]
      BY <1>1, <1>6, <2>1 DEF TablesTyped
    <2>3. s \in PCs
      BY <1>5 DEF PCs
    <2> QED
      BY <1>1, <1>3, <1>5, <1>8, <2>2, <2>3 DEF TablesTyped, Locs
  <1>10. \A f \in Files, z \in Places : IsRef(p, z, f)' <=> IsRef(p, z, f)
    BY <1>1, <1>2, <1>4, <1>5, <1>7, PlacesAre DEF IsRef, HandF, HandG, Owes, Testing
  <1>11. \A f \in Files : MyRefs(f, p) /\ Touched({p}, f)
    BY <1>3, <1>10 DEF MyRefs, Touched
  <1>12. LocalOK(p)'
    BY <1>2, <1>4, <1>5, <1>7 DEF LocalOK, Fresh, PipePcs, IpPcs
  <1>13. FileOK(p)'
    BY <1>5, <1>7 DEF FileOK, Fresh
  <1>14. TakeOK' /\ TypesOK'
    <2>1. \A x \in Fds : \A f \in Files : IsRef(p, x, f)' => file'[f].type # "none"
      BY <1>1, <1>3, <1>10, PlacesAre DEF FileInv, TypesOK, Testing
    <2>2. pc'[p] \notin Taking /\ pc'[p] # "clear" /\ pc[p] # "clear"
      BY <1>1, <1>5, <1>7 DEF Taking, Testing
    <2> QED
      BY <1>1, <1>7, <1>11, <2>1, <2>2, FilesOne
  <1>15. PagesOK'
    <2>1. \A f \in Files, g \in Pages, w \in BOOLEAN : IsEnd(f, g, w)' <=> IsEnd(f, g, w)
      BY <1>3 DEF IsEnd
    <2>2. ~Spoiling(p) /\ {p} \in SUBSET Procs /\ pc[p] # "pipe_fds" /\ \A g \in Pages : ~Held(p, g)'
      BY <1>1, <1>5, <1>7 DEF Spoiling, Held, PipePcs, Testing
    <2>3. CASE pc[p] = "open_test"
      <3>1. \A g \in Pages : ~Held(p, g)
        BY <2>3 DEF Held, PipePcs
      <3> QED
        BY <1>6, <1>7, <2>1, <2>2, <2>3, <3>1, PagesSame
    <2>4. CASE pc[p] # "open_test"
      <3>1. PICK h \in Pages : h = loc[p].pg /\ page' = [page EXCEPT ![h] = NoPipe]
        BY <1>2, <1>6, <2>4
      <3>2. page'[h] = NoPipe /\ \A g \in Pages : g # h => page'[g] = page[g]
        BY <1>1, <3>1 DEF TablesTyped
      <3>3. \A g \in Pages : g # h => ~Held(p, g)
        BY <3>1 DEF Held
      <3>4. Held(p, h)
        BY <1>1, <2>4, <3>1 DEF Held, PipePcs, Testing
      <3>5. ASSUME PageOK(h)
            PROVE  PageOK(h)'
        <4>1. HeldOK(p, h)
          BY <3>4, <3>5 DEF PageOK
        <4>2. \A f \in Files, w \in BOOLEAN : ~IsEnd(f, h, w)'
          BY <2>1, <2>2, <4>1 DEF HeldOK
        <4>3. \A q \in Procs : ~Held(q, h)'
          BY <1>7, <2>2, <4>1 DEF HeldOK, Held, Only
        <4>4. ~OpenEnd(h, TRUE)' /\ ~OpenEnd(h, FALSE)'
          BY <4>2 DEF OpenEnd, IsEnd
        <4>5. Agrees(h)'
          <5>1. NoPipe.readopen = FALSE /\ NoPipe.writeopen = FALSE /\ NoPipe.alloc = FALSE
            BY DEF NoPipe
          <5>2. page'[h].readopen = FALSE /\ page'[h].writeopen = FALSE /\ page'[h].alloc = FALSE
            BY <3>2, <5>1
          <5> QED
            BY <4>4, <5>2 DEF Agrees
        <4>6. OneEnd(h)'
          BY <4>2 DEF OneEnd
        <4> QED
          BY <4>3, <4>5, <4>6 DEF PageOK
      <3> QED
        BY <1>7, <2>1, <2>2, <3>2, <3>3, <3>5, PagesBut
    <2> QED
      BY <2>3, <2>4
  <1>16. InodesInUseAreHeld'
    <2>1. {p} \in SUBSET Procs /\ pc[p] # "chdir_set" /\ pc'[p] \notin IpPcs
      BY <1>1, <1>5, <1>7 DEF IpPcs, Testing
    <2>2. CASE pc[p] # "open_test"
      BY <1>3, <1>6, <1>7, <1>9, <2>1, <2>2, InodesSame
    <2>3. CASE pc[p] = "open_test"
      <3>1. PICK j \in Inodes : j = loc[p].ip
        BY <1>2, <2>3
      <3>2. \A i \in Inodes : FilesOn(i)' \subseteq FilesOn(i)
        BY <1>3 DEF FilesOn
      <3>3. \A i \in Inodes : DirsOf(i)' \subseteq DirsOf(i)
        BY <1>7, <2>3 DEF DirsOf, Only
      <3>4. p \in CallsOn(j) /\ \A i \in Inodes : CallsOn(i)' \subseteq CallsOn(i) \ {p}
        BY <1>7, <2>1, <2>3, <3>1 DEF CallsOn, Only, IpPcs
      <3>5. Change(FilesOn(j), FilesOn(j)', 0) /\ Change(DirsOf(j), DirsOf(j)', 0) /\ Change(CallsOn(j), CallsOn(j)', -1)
        BY <3>2, <3>3, <3>4 DEF Change
      <3>6. iref[j] \in Int /\ iref'[j] = iref[j] - 1 /\ \A i \in Inodes : i # j => iref'[i] = iref[i]
        BY <1>1, <1>6, <2>3, <3>1 DEF TablesTyped
      <3>7. iref'[j] >= iref[j] + 0 + 0 + (-1)
        BY <3>6
      <3>8. UsersMove(j)
        BY <3>5, <3>7 DEF UsersMove
      <3> QED
        BY <1>9, <3>2, <3>3, <3>4, <3>6, <3>8, InodesBut
    <2> QED
      BY <2>2, <2>3
  <1>17. pc[p] # "born" /\ pc'[p] # "fork" /\ broken' # "panic" /\ stale \subseteq stale'
    BY <1>1, <1>3, <1>5, <1>7 DEF Testing
  <1> QED
    BY <1>1, <1>7, <1>9, <1>11, <1>12, <1>13, <1>14, <1>15, <1>16, <1>17, OneStep

\* What sys_pipe has when it has its files.
LEMMA PipeIs ==
  ASSUME FileInv, broken = "no", NEW p \in Procs, pc[p] \in {"pipe_init", "pipe_fds"}
  PROVE  /\ TablesTyped /\ loc[p] \in Locs /\ cwd[p] \in Inodes /\ ofile[p] \in [Fds -> 0 .. NFILE]
         /\ loc[p].f \in Files /\ loc[p].g \in Files /\ loc[p].f # loc[p].g /\ loc[p].pg \in Pages
         /\ loc[p].ret = "user" /\ file[loc[p].f].ref = 1 /\ file[loc[p].g].ref = 1
         /\ NotTheirs({p}, loc[p].f) /\ NotTheirs({p}, loc[p].g)
         /\ \A f \in Files, z \in Places :
              IsRef(p, z, f) <=> \/ z \in Fds /\ ofile[p][z] = f
                                 \/ z = -1 /\ f = loc[p].f
                                 \/ z = -2 /\ f = loc[p].g
  <1>1. /\ TablesTyped /\ loc[p] \in Locs /\ ofile[p] \in [Fds -> 0 .. NFILE] /\ LocalOK(p) /\ FileOK(p)
    BY ProcIs DEF FileInv
  <1>2. /\ cwd[p] \in Inodes /\ loc[p].f \in Files /\ loc[p].g \in Files /\ loc[p].f # loc[p].g
        /\ loc[p].pg \in Pages /\ loc[p].ret = "user"
    BY <1>1 DEF LocalOK, Fresh, PipePcs
  <1>3. file[loc[p].f].ref = 1 /\ file[loc[p].g].ref = 1
    BY <1>1 DEF FileOK, Fresh
  <1>4. \A f \in Files, z \in Places :
              IsRef(p, z, f) <=> \/ z \in Fds /\ ofile[p][z] = f
                                 \/ z = -1 /\ f = loc[p].f
                                 \/ z = -2 /\ f = loc[p].g
    BY <1>2, PlacesAre DEF IsRef, HandF, HandG, Owes
  <1>5. IsRef(p, -1, loc[p].f) /\ IsRef(p, -2, loc[p].g) /\ -1 \in Places /\ -2 \in Places
    BY <1>2, <1>4, PlacesAre
  <1>6. NotTheirs({p}, loc[p].f) /\ NotTheirs({p}, loc[p].g)
    BY <1>2, <1>5, OwnFile
  <1> QED
    BY <1>1, <1>2, <1>3, <1>4, <1>6

\* sys_pipe makes its files the ends of the pipe.
LEMMA PipeInitStep ==
  ASSUME FileInv, NEW p \in Procs, PipeInit(p)
  PROVE  FileInv'
  <1>1. pc[p] = "pipe_init" /\ broken = "no" /\ LocalOK(p) /\ FileOK(p)
    BY ProcIs DEF PipeInit, At, Within
  <1>2. PICK e \in Files, d \in Files, h \in Pages : e = loc[p].f /\ d = loc[p].g /\ h = loc[p].pg
    BY <1>1, PipeIs
  <1>3. /\ TablesTyped /\ loc[p] \in Locs /\ cwd[p] \in Inodes /\ e # d /\ loc[p].ret = "user"
        /\ file[e].ref = 1 /\ file[d].ref = 1 /\ NotTheirs({p}, e) /\ NotTheirs({p}, d)
    BY <1>1, <1>2, PipeIs
  <1>4. file[e].type = "none" /\ file[d].type = "none"
    BY <1>1, <1>2 DEF FileOK
  <1>5. UNCHANGED <<ofile, cwd, iref, page, loc, stale, broken>> /\ pc' = [pc EXCEPT ![p] = "pipe_fds"]
    BY DEF PipeInit, Goto
  <1>6. PICK r, t : /\ r = [file[e] EXCEPT !.type = "pipe", !.pipe = h, !.writable = FALSE]
                    /\ t = [file[d] EXCEPT !.type = "pipe", !.pipe = h, !.writable = TRUE]
    OBVIOUS
  <1>7. /\ file[e] \in [ref : Nat, type : FileTypes, ip : 0 .. NINODE, pipe : 0 .. NPAGE, writable : BOOLEAN]
        /\ file[d] \in [ref : Nat, type : FileTypes, ip : 0 .. NINODE, pipe : 0 .. NPAGE, writable : BOOLEAN]
    BY <1>3 DEF TablesTyped
  <1>8. /\ r.ref = 1 /\ r.type = "pipe" /\ r.pipe = h /\ r.writable = FALSE
        /\ r \in [ref : Nat, type : FileTypes, ip : 0 .. NINODE, pipe : 0 .. NPAGE, writable : BOOLEAN]
    BY <1>3, <1>6, <1>7, PlacesAre DEF FileTypes
  <1>9. /\ t.ref = 1 /\ t.type = "pipe" /\ t.pipe = h /\ t.writable = TRUE
        /\ t \in [ref : Nat, type : FileTypes, ip : 0 .. NINODE, pipe : 0 .. NPAGE, writable : BOOLEAN]
    BY <1>3, <1>6, <1>7, PlacesAre DEF FileTypes
  <1>10. file' = [[file EXCEPT ![e] = r] EXCEPT ![d] = t]
    BY <1>2, <1>3, <1>6 DEF PipeInit, TablesTyped
  <1>11. file'[e] = r /\ file'[d] = t /\ \A f \in Files : f # e /\ f # d => file'[f] = file[f]
    BY <1>3, <1>10 DEF TablesTyped
  <1>12. TablesTyped'
    BY <1>3, <1>5, <1>8, <1>9, <1>10 DEF TablesTyped, PCs
  <1>13. Only({p}) /\ pc'[p] = "pipe_fds"
    BY <1>3, <1>5 DEF Only, TablesTyped
  <1>14. \A f \in Files, z \in Places : IsRef(p, z, f)' <=> IsRef(p, z, f)
    BY <1>1, <1>5, <1>13, PlacesAre DEF IsRef, HandF, HandG, Owes
  <1>15. ASSUME NEW f \in Files
         PROVE  MyRefs(f, p)
    BY <1>3, <1>8, <1>9, <1>11, <1>14 DEF MyRefs
  <1>16. ASSUME NEW f \in Files
         PROVE  Touched({p}, f)
    BY <1>3, <1>8, <1>9, <1>11 DEF Touched
  <1>17. LocalOK(p)'
    BY <1>1, <1>5, <1>13 DEF LocalOK, Fresh, PipePcs, IpPcs
  <1>18. FileOK(p)'
    BY <1>2, <1>5, <1>8, <1>9, <1>11, <1>13 DEF FileOK, Fresh
  <1>19. TakeOK' /\ TypesOK'
    <2>1. \A x \in Fds : \A f \in Files : IsRef(p, x, f)' => file[f].type # "none"
      BY <1>1, <1>14, PlacesAre DEF FileInv, TypesOK
    <2>2. \A x \in Fds : \A f \in Files : IsRef(p, x, f)' => file'[f].type # "none"
      BY <1>8, <1>9, <1>11, <2>1
    <2>3. pc'[p] \notin Taking /\ pc'[p] # "clear" /\ pc[p] # "clear"
      BY <1>1, <1>13 DEF Taking
    <2>4. \A f \in Files : Touched({p}, f)
      BY <1>16
    <2> QED
      BY <1>1, <1>13, <2>2, <2>3, <2>4, FilesOne
  <1>20. PagesOK'
    <2>1. \A f \in Files, g \in Pages, w \in BOOLEAN : g # h => (IsEnd(f, g, w)' <=> IsEnd(f, g, w))
      BY <1>4, <1>8, <1>9, <1>11 DEF IsEnd
    <2>2. /\ ~Spoiling(p) /\ {p} \in SUBSET Procs /\ Held(p, h) /\ Held(p, h)'
          /\ \A g \in Pages : g # h => ~Held(p, g) /\ ~Held(p, g)'
      BY <1>1, <1>2, <1>5, <1>13 DEF Spoiling, Held, PipePcs
    <2>3. ASSUME PageOK(h)
          PROVE  PageOK(h)'
      <3>1. HeldOK(p, h)
        BY <2>2, <2>3 DEF PageOK
      <3>2. \A f \in Files, w \in BOOLEAN : ~IsEnd(f, h, w)
        BY <1>1, <3>1 DEF HeldOK
      <3>3. \A f \in Files, w \in BOOLEAN : IsEnd(f, h, w)' => (f = e /\ w = FALSE) \/ (f = d /\ w = TRUE)
        <4>1. \A f \in Files, w \in BOOLEAN : IsEnd(f, h, w)' => f = e \/ f = d
          BY <1>11, <3>2 DEF IsEnd
        <4>2. \A w \in BOOLEAN : IsEnd(e, h, w)' => w = FALSE
          BY <1>8, <1>11 DEF IsEnd
        <4>3. \A w \in BOOLEAN : IsEnd(d, h, w)' => w = TRUE
          BY <1>9, <1>11 DEF IsEnd
        <4> QED
          BY <4>1, <4>2, <4>3
      <3>4. OneEnd(h)'
        BY <3>3 DEF OneEnd
      <3>5. \A q \in Procs : Held(q, h)' <=> q = p
        BY <1>13, <2>2, <3>1 DEF HeldOK, Held, Only
      <3>6. HeldOK(p, h)'
        <4>1. \A f \in Files, w \in BOOLEAN : IsEnd(f, h, w)' => f \in {loc'[p].f, loc'[p].g}
          BY <1>2, <1>5, <3>3
        <4> QED
          BY <1>5, <1>13, <3>1, <3>5, <4>1 DEF HeldOK
      <3> QED
        BY <2>2, <3>4, <3>5, <3>6 DEF PageOK
    <2> QED
      BY <1>5, <1>13, <2>1, <2>2, <2>3, PagesBut
  <1>21. InodesInUseAreHeld'
    <2>1. {p} \in SUBSET Procs /\ pc[p] # "chdir_set" /\ pc'[p] \notin IpPcs
      BY <1>1, <1>13 DEF IpPcs
    <2>2. \A f \in Files : file'[f].ref > 0 /\ file'[f].type = "inode" =>
           file[f].ref > 0 /\ file[f].type = "inode" /\ file'[f].ip = file[f].ip
      BY <1>8, <1>9, <1>11
    <2> QED
      BY <1>5, <1>12, <1>13, <2>1, <2>2, InodesSame
  <1>22. pc[p] # "born" /\ pc'[p] # "fork" /\ broken' # "panic" /\ stale \subseteq stale'
    BY <1>1, <1>5, <1>13
  <1> QED
    BY <1>1, <1>12, <1>13, <1>15, <1>16, <1>17, <1>18, <1>19, <1>20, <1>21, <1>22, OneStep

\* sys_pipe stores its files in descriptors.
LEMMA PipeFdsStep ==
  ASSUME FileInv, NEW p \in Procs, PipeFds(p)
  PROVE  FileInv'
  <1>1. pc[p] = "pipe_fds" /\ broken = "no" /\ LocalOK(p) /\ FileOK(p)
    BY ProcIs DEF PipeFds, At, Within
  <1>2. PICK e \in Files, d \in Files, h \in Pages : e = loc[p].f /\ d = loc[p].g /\ h = loc[p].pg
    BY <1>1, PipeIs
  <1>3. /\ TablesTyped /\ loc[p] \in Locs /\ cwd[p] \in Inodes /\ e # d /\ loc[p].ret = "user"
        /\ ofile[p] \in [Fds -> 0 .. NFILE] /\ file[e].ref = 1 /\ file[d].ref = 1
        /\ \A f \in Files, z \in Places :
              IsRef(p, z, f) <=> (z \in Fds /\ ofile[p][z] = f) \/ (z = -1 /\ f = e) \/ (z = -2 /\ f = d)
    <2>1. /\ TablesTyped /\ loc[p] \in Locs /\ cwd[p] \in Inodes /\ e # d /\ loc[p].ret = "user"
          /\ ofile[p] \in [Fds -> 0 .. NFILE] /\ file[e].ref = 1 /\ file[d].ref = 1
      BY <1>1, <1>2, PipeIs
    <2>2. \A f \in Files, z \in Places :
              IsRef(p, z, f) <=> (z \in Fds /\ ofile[p][z] = f) \/ (z = -1 /\ f = e) \/ (z = -2 /\ f = d)
      BY <1>1, <1>2, <2>1, PlacesAre DEF IsRef, HandF, HandG, Owes
    <2> QED
      BY <2>1, <2>2
  <1>4. /\ file[e].type = "pipe" /\ file[e].pipe = h /\ ~file[e].writable
        /\ file[d].type = "pipe" /\ file[d].pipe = h /\ file[d].writable
    BY <1>1, <1>2 DEF FileOK
  <1>5. /\ UNCHANGED <<file, cwd, iref, page, stale, broken>> /\ pc' = [pc EXCEPT ![p] = "user"]
        /\ loc' = [loc EXCEPT ![p] = NoLocals]
    BY DEF PipeFds, Goto, Return
  <1>6. PICK F \in SUBSET Fds : F = FreeFds(p, 0) /\ (\A fd \in F : ofile[p][fd] = 0) /\ Cardinality(F) >= 2
    BY DEF PipeFds, FreeFds
  <1>7. F # {}
    BY <1>6, FS_EmptySet
  <1>8. PICK fd0 \in F : fd0 = Least(F)
    BY <1>7, PlacesAre, LeastIs
  <1>9. F \ {fd0} # {}
    <2>1. F \ {fd0} = {} => F = {fd0}
      OBVIOUS
    <2>2. Cardinality({fd0}) = 1
      BY FS_Singleton
    <2> QED
      BY <1>6, <2>1, <2>2
  <1>10. PICK fd1 \in F \ {fd0} : fd1 = Least(F \ {fd0})
    BY <1>9, PlacesAre, LeastIs
  <1>11. /\ fd0 \in Fds /\ fd1 \in Fds /\ fd0 # fd1 /\ ofile[p][fd0] = 0 /\ ofile[p][fd1] = 0
    BY <1>6, <1>8, <1>10
  <1>12. PICK o : o = [[ofile[p] EXCEPT ![fd0] = e] EXCEPT ![fd1] = d]
    OBVIOUS
  <1>13. /\ o \in [Fds -> 0 .. NFILE] /\ o[fd0] = e /\ o[fd1] = d
         /\ \A fd \in Fds : fd # fd0 /\ fd # fd1 => o[fd] = ofile[p][fd]
    BY <1>3, <1>11, <1>12, PlacesAre
  <1>14. ofile' = [ofile EXCEPT ![p] = o]
    <2>1. ofile' = [[ofile EXCEPT ![p][fd0] = e] EXCEPT ![p][fd1] = d]
      BY <1>2, <1>6, <1>8, <1>10 DEF PipeFds
    <2> QED
      BY <1>3, <1>12, <2>1 DEF TablesTyped
  <1>15. /\ NoLocals \in Locs /\ NoLocals.f = 0 /\ NoLocals.g = 0 /\ NoLocals.pg = 0 /\ NoLocals.ret = "user"
    BY PlacesAre DEF NoLocals, Locs
  <1>16. TablesTyped'
    BY <1>3, <1>5, <1>13, <1>14, <1>15 DEF TablesTyped, PCs, Locs
  <1>17. Only({p}) /\ pc'[p] = "user" /\ loc'[p] = NoLocals /\ ofile'[p] = o /\ cwd'[p] = cwd[p]
    BY <1>3, <1>5, <1>14 DEF Only, TablesTyped
  <1>18. \A f \in Files, z \in Places :
           IsRef(p, z, f)' <=> \/ z \in Fds /\ ofile[p][z] = f
                               \/ z = fd0 /\ f = e
                               \/ z = fd1 /\ f = d
    BY <1>11, <1>13, <1>15, <1>17, PlacesAre DEF IsRef, HandF, HandG, Owes
  <1>19. ASSUME NEW f \in Files
         PROVE  MyRefs(f, p)
    <2>1. CASE f = e
      <3>1. \A z \in Places : IsRef(p, z, f)' <=> z = fd0 \/ (IsRef(p, z, f) /\ z # -1)
        BY <1>3, <1>11, <1>18, <2>1, PlacesAre
      <3>2. IsRef(p, -1, f) /\ ~IsRef(p, fd0, f)
        BY <1>3, <1>11, <2>1, PlacesAre
      <3> QED
        BY <1>5, <1>11, <3>1, <3>2, PlacesAre DEF MyRefs
    <2>2. CASE f = d
      <3>1. \A z \in Places : IsRef(p, z, f)' <=> z = fd1 \/ (IsRef(p, z, f) /\ z # -2)
        BY <1>3, <1>11, <1>18, <2>2, PlacesAre
      <3>2. IsRef(p, -2, f) /\ ~IsRef(p, fd1, f)
        BY <1>3, <1>11, <2>2, PlacesAre
      <3> QED
        BY <1>5, <1>11, <3>1, <3>2, PlacesAre DEF MyRefs
    <2>3. CASE f # e /\ f # d
      <3>1. \A z \in Places : IsRef(p, z, f)' <=> IsRef(p, z, f)
        BY <1>3, <1>18, <2>3
      <3> QED
        BY <1>5, <3>1 DEF MyRefs
    <2> QED
      BY <2>1, <2>2, <2>3
  <1>20. \A f \in Files : Touched({p}, f)
    BY <1>5 DEF Touched
  <1>21. LocalOK(p)'
    BY <1>3, <1>15, <1>17 DEF LocalOK, Fresh, PipePcs, IpPcs
  <1>22. FileOK(p)'
    BY <1>17 DEF FileOK, Fresh
  <1>23. TakeOK' /\ TypesOK'
    <2>1. \A x \in Fds : \A f \in Files : IsRef(p, x, f) => file[f].type # "none"
      BY <1>1 DEF FileInv, TypesOK
    <2>2. \A x \in Fds : \A f \in Files : IsRef(p, x, f)' => IsRef(p, x, f) \/ f = e \/ f = d
      BY <1>3, <1>18, PlacesAre
    <2>3. \A x \in Fds : \A f \in Files : IsRef(p, x, f)' => file'[f].type # "none"
      BY <1>4, <1>5, <2>1, <2>2
    <2>4. pc'[p] \notin Taking /\ pc'[p] # "clear" /\ pc[p] # "clear"
      BY <1>1, <1>17 DEF Taking
    <2> QED
      BY <1>1, <1>17, <1>20, <2>3, <2>4, FilesOne
  <1>24. PagesOK'
    <2>1. \A f \in Files, g \in Pages, w \in BOOLEAN : IsEnd(f, g, w)' <=> IsEnd(f, g, w)
      BY <1>5 DEF IsEnd
    <2>2. /\ ~Spoiling(p) /\ {p} \in SUBSET Procs /\ Held(p, h)
          /\ \A g \in Pages : ~Held(p, g)' /\ (g # h => ~Held(p, g))
      BY <1>1, <1>2, <1>17 DEF Spoiling, Held, PipePcs
    <2>3. ASSUME PageOK(h)
          PROVE  PageOK(h)'
      <3>1. HeldOK(p, h)
        BY <2>2, <2>3 DEF PageOK
      <3>2. \A q \in Procs : ~Held(q, h)'
        BY <1>17, <2>2, <3>1 DEF HeldOK, Held, Only
      <3>3. OneEnd(h)'
        BY <2>1, <2>3 DEF OneEnd, PageOK
      <3>4. file[e].writable = FALSE /\ file[d].writable = TRUE
        BY <1>3, <1>4 DEF TablesTyped
      <3>5. OpenEnd(h, FALSE)' /\ OpenEnd(h, TRUE)'
        BY <1>3, <1>4, <1>5, <3>4 DEF OpenEnd
      <3>6. page'[h].readopen = TRUE /\ page'[h].writeopen = TRUE /\ page'[h].alloc = TRUE
        BY <1>5, <3>1 DEF HeldOK
      <3>7. Agrees(h)'
        BY <3>5, <3>6 DEF Agrees
      <3> QED
        BY <3>2, <3>3, <3>7 DEF PageOK
    <2> QED
      BY <1>5, <1>17, <2>1, <2>2, <2>3, PagesBut
  <1>25. InodesInUseAreHeld'
    <2>1. {p} \in SUBSET Procs /\ pc[p] # "chdir_set" /\ pc'[p] \notin IpPcs
      BY <1>1, <1>17 DEF IpPcs
    <2> QED
      BY <1>5, <1>16, <1>17, <2>1, InodesSame
  <1>26. pc[p] # "born" /\ pc'[p] # "fork" /\ broken' # "panic" /\ stale \subseteq stale'
    BY <1>1, <1>5, <1>17
  <1> QED
    BY <1>1, <1>16, <1>17, <1>19, <1>20, <1>21, <1>22, <1>23, <1>24, <1>25, <1>26, OneStep

\* sys_pipe gives up, with files that lead to the page it has freed.
LEMMA PipeBadStep ==
  ASSUME FileInv, NEW p \in Procs, PipeBad(p)
  PROVE  FileInv'
  <1>1. pc[p] = "pipe_fds" /\ broken = "no" /\ LocalOK(p) /\ FileOK(p)
    BY ProcIs DEF PipeBad, At, Within
  <1>2. PICK e \in Files, d \in Files, h \in Pages : e = loc[p].f /\ d = loc[p].g /\ h = loc[p].pg
    BY <1>1, PipeIs
  <1>3. /\ TablesTyped /\ loc[p] \in Locs /\ cwd[p] \in Inodes /\ e # d /\ loc[p].ret = "user" /\ file[e].ref = 1
    BY <1>1, <1>2, PipeIs
  <1>4. file[e].type = "pipe" /\ file[e].pipe = h
    BY <1>1, <1>2 DEF FileOK
  <1>5. /\ UNCHANGED <<file, ofile, cwd, iref, loc, broken>> /\ pc' = [pc EXCEPT ![p] = "drop"]
        /\ page' = [page EXCEPT ![h] = NoPipe]
    BY <1>2 DEF PipeBad, Goto
  <1>6. stale \subseteq stale' /\ stale' \subseteq Files /\ e \in stale'
    <2>1. stale \subseteq Files
      BY <1>3 DEF TablesTyped
    <2>2. stale' = stale \cup {f \in Files : file[f].ref > 0 /\ file[f].type = "pipe" /\ file[f].pipe = h}
      BY <1>2 DEF PipeBad
    <2>3. file[e].ref > 0
      BY <1>3
    <2> QED
      BY <1>4, <2>1, <2>2, <2>3
  <1>7. NoPipe \in [alloc : BOOLEAN, readopen : BOOLEAN, writeopen : BOOLEAN]
    BY DEF NoPipe
  <1>8. TablesTyped'
    BY <1>3, <1>5, <1>6, <1>7 DEF TablesTyped, PCs
  <1>9. Only({p}) /\ pc'[p] = "drop" /\ \A g \in Pages : g # h => page'[g] = page[g]
    BY <1>3, <1>5 DEF Only, TablesTyped
  <1>10. \A f \in Files, z \in Places : IsRef(p, z, f)' <=> IsRef(p, z, f)
    BY <1>1, <1>3, <1>5, <1>9, PlacesAre DEF IsRef, HandF, HandG, Owes
  <1>11. \A f \in Files : MyRefs(f, p) /\ Touched({p}, f)
    BY <1>5, <1>10 DEF MyRefs, Touched
  <1>12. LocalOK(p)'
    BY <1>1, <1>5, <1>9 DEF LocalOK, Fresh, PipePcs, IpPcs
  <1>13. FileOK(p)'
    BY <1>2, <1>3, <1>4, <1>5, <1>6, <1>9 DEF FileOK, Fresh
  <1>14. TakeOK' /\ TypesOK'
    <2>1. \A x \in Fds : \A f \in Files : IsRef(p, x, f)' => file'[f].type # "none"
      BY <1>1, <1>5, <1>10, PlacesAre DEF FileInv, TypesOK
    <2>2. pc'[p] \notin Taking /\ pc'[p] # "clear" /\ pc[p] # "clear"
      BY <1>1, <1>9 DEF Taking
    <2> QED
      BY <1>1, <1>9, <1>11, <2>1, <2>2, FilesOne
  <1>15. PagesOK'
    <2>1. \A f \in Files, g \in Pages, w \in BOOLEAN : IsEnd(f, g, w)' <=> IsEnd(f, g, w)
      BY <1>5 DEF IsEnd
    <2>2. /\ ~Spoiling(p) /\ {p} \in SUBSET Procs /\ \A g \in Pages : ~Held(p, g)' /\ (g # h => ~Held(p, g))
      BY <1>1, <1>2, <1>9 DEF Spoiling, Held, PipePcs
    <2>3. Spoiling(p)' /\ loc'[p].pg = h
      BY <1>2, <1>5, <1>9, PlacesAre DEF Spoiling
    <2> QED
      BY <1>9, <2>1, <2>2, <2>3, PagesBut
  <1>16. InodesInUseAreHeld'
    <2>1. {p} \in SUBSET Procs /\ pc[p] # "chdir_set" /\ pc'[p] \notin IpPcs
      BY <1>1, <1>9 DEF IpPcs
    <2> QED
      BY <1>5, <1>8, <1>9, <2>1, InodesSame
  <1>17. pc[p] # "born" /\ pc'[p] # "fork" /\ broken' # "panic"
    BY <1>1, <1>5, <1>9
  <1> QED
    BY <1>1, <1>6, <1>8, <1>9, <1>11, <1>12, <1>13, <1>14, <1>15, <1>16, <1>17, OneStep

-----------------------------------------------------------------------------
(* fork: steps of a process and its child. *)

\* What is to be shown of a step of p on itself and on its child c.
LEMMA TwoStep ==
  ASSUME FileInv, broken = "no", NEW p \in Procs, NEW c \in Procs, p # c, Only({p, c}), TablesTyped', Counts',
         \A f \in Files : Touched({p, c}, f),
         UNCHANGED <<page, stale, broken>>, InodesInUseAreHeld',
         \A f \in Files, g \in Pages, w \in BOOLEAN : IsEnd(f, g, w)' <=> IsEnd(f, g, w),
         \A fd \in Fds : \A f \in Files : IsRef(p, fd, f)' \/ IsRef(c, fd, f)' => file'[f].type # "none",
         LocalOK(p)', LocalOK(c)', ForkOK(p)',
         pc[p] \in {"user", "fork"}, pc[c] \in {"dead", "born"},
         pc'[p] \in {"user", "fork"}, pc'[c] \in {"born", "user"},
         \A q \in Procs : q # p /\ pc[q] = "fork" => loc[q].child # c,
         pc'[p] = "fork" => loc'[p].child = c
  PROVE  FileInv'
  <1>1. {p, c} \in SUBSET Procs /\ \A a \in {p, c} : a = p \/ a = c
    OBVIOUS
  <1>2. TakeOK' /\ TypesOK'
    <2>1. \A a \in {p, c} : pc'[a] \notin Taking /\ pc'[a] # "clear" /\ pc[a] # "clear"
      BY <1>1 DEF Taking
    <2>2. \A a \in {p, c}, fd \in Fds : \A f \in Files : IsRef(a, fd, f)' => file'[f].type # "none"
      BY <1>1
    <2> QED
      BY <1>1, <2>1, <2>2, FilesKeep
  <1>3. PagesOK'
    <2>1. \A a \in {p, c}, g \in Pages : ~Held(a, g) /\ ~Held(a, g)'
      BY <1>1 DEF Held, PipePcs
    <2>2. \A a \in {p, c} : ~Spoiling(a) /\ pc[a] # "pipe_fds"
      BY <1>1 DEF Spoiling
    <2> QED
      BY <1>1, <2>1, <2>2, PagesSame
  <1>4. ASSUME NEW q \in Procs
        PROVE  LocalOK(q)' /\ FileOK(q)'
    <2>1. CASE q \in {p, c}
      <3>1. FileOK(q)'
        BY <1>1, <2>1 DEF FileOK, Fresh
      <3> QED
        BY <1>1, <2>1, <3>1
    <2>2. CASE q \notin {p, c}
      <3>1. stale \subseteq stale'
        OBVIOUS
      <3> QED
        BY <1>1, <2>2, <3>1, OthersKeep
    <2> QED
      BY <2>1, <2>2
  <1>5. ASSUME NEW q \in Procs
        PROVE  ForkOK(q)'
    <2>1. CASE q = p
      BY <2>1
    <2>2. CASE q = c
      BY <2>2 DEF ForkOK
    <2>3. CASE q # p /\ q # c /\ pc'[q] = "fork"
      <3>1. pc[q] = "fork" /\ loc'[q] = loc[q] /\ ForkOK(q)
        BY <2>3 DEF FileInv, Only
      <3>2. PICK b \in Procs : b = loc[q].child /\ b # q /\ pc[b] = "born"
        BY <3>1 DEF ForkOK
      <3>3. b # p /\ b # c
        BY <2>3, <3>1, <3>2
      <3>4. pc'[b] = "born" /\ ofile'[b] = ofile[b]
        BY <3>2, <3>3 DEF Only
      <3>5. ASSUME NEW r \in Procs, pc'[r] = "fork", loc'[r].child = b
            PROVE  r = q
        <4>1. r # p /\ r # c
          BY <3>3, <3>5
        <4>2. pc[r] = "fork" /\ loc[r].child = b
          BY <3>5, <4>1 DEF Only
        <4> QED
          BY <3>1, <3>2, <4>2 DEF ForkOK
      <3> QED
        BY <3>1, <3>2, <3>4, <3>5 DEF ForkOK
    <2> QED
      BY <2>1, <2>2, <2>3 DEF ForkOK
  <1>6. broken' # "panic"
    OBVIOUS
  <1> QED
    BY <1>2, <1>3, <1>4, <1>5, <1>6 DEF FileInv

\* Where nobody's references change.
LEMMA SameCounts ==
  ASSUME FileInv, NEW p \in Procs, NEW c \in Procs, Only({p, c}), file' = file,
         \A f \in Files, z \in Places : IsRef(p, z, f)' <=> IsRef(p, z, f),
         \A f \in Files, z \in Places : IsRef(c, z, f)' <=> IsRef(c, z, f)
  PROVE  Counts'
  <1>1. \A f \in Files, q \in Procs, z \in Places : IsRef(q, z, f)' <=> IsRef(q, z, f)
    BY OthersRefs
  <1>2. \A f \in Files : Counted(f, p)
    BY <1>1 DEF Counted, SameRefs
  <1> QED
    BY <1>2, CountsKeep DEF FileInv

\* fork begins.
LEMMA ForkStep ==
  ASSUME FileInv, NEW p \in Procs, NEW c \in Procs, Fork(p, c)
  PROVE  FileInv'
  <1>1. pc[p] = "user" /\ pc[c] = "dead" /\ broken = "no" /\ p # c
    BY DEF Fork, At, Within
  <1>2. /\ TablesTyped /\ loc[p] \in Locs /\ cwd[p] \in Inodes /\ ofile[p] \in [Fds -> 0 .. NFILE]
        /\ loc[p].g = 0 /\ loc[p].pg = 0 /\ loc[p].ret = "user" /\ loc[p].fd = 0
        /\ \A f \in Files, z \in Places : IsRef(p, z, f) <=> z \in Fds /\ ofile[p][z] = f
    BY <1>1, UserIs
  <1>3. LocalOK(c) /\ loc[c] = NoLocals /\ cwd[c] = 0 /\ \A fd \in Fds : ofile[c][fd] = 0
    BY <1>1, ProcIs DEF LocalOK
  <1>4. /\ UNCHANGED <<file, ofile, cwd, iref, page, stale, broken>>
        /\ pc' = [[pc EXCEPT ![p] = "fork"] EXCEPT ![c] = "born"]
    BY <1>2 DEF Fork, TablesTyped
  <1>5. PICK l : l = [loc[p] EXCEPT !.child = c]
    OBVIOUS
  <1>6. l \in Locs /\ l.child = c /\ l.g = 0 /\ l.pg = 0 /\ l.ret = "user" /\ l.fd = 0
    BY <1>2, <1>5, PlacesAre DEF Locs
  <1>7. loc' = [loc EXCEPT ![p] = l]
    BY <1>5 DEF Fork
  <1>8. TablesTyped'
    BY <1>2, <1>4, <1>6, <1>7 DEF TablesTyped, PCs, Locs
  <1>9. /\ Only({p, c}) /\ pc'[p] = "fork" /\ loc'[p] = l /\ pc'[c] = "born" /\ loc'[c] = loc[c]
        /\ ofile' = ofile /\ cwd' = cwd
    BY <1>1, <1>2, <1>4, <1>7 DEF Only, TablesTyped
  <1>10. \A f \in Files, z \in Places : IsRef(p, z, f)' <=> IsRef(p, z, f)
    BY <1>2, <1>6, <1>9, PlacesAre DEF IsRef, HandF, HandG, Owes
  <1>11. \A f \in Files, z \in Places : IsRef(c, z, f)' <=> IsRef(c, z, f)
    BY <1>1, <1>9, PlacesAre DEF IsRef, HandF, HandG, Owes
  <1>12. Counts'
    BY <1>4, <1>9, <1>10, <1>11, SameCounts
  <1>13. \A f \in Files : Touched({p, c}, f)
    BY <1>4 DEF Touched
  <1>14. LocalOK(p)'
    BY <1>2, <1>6, <1>9 DEF LocalOK, Fresh, PipePcs, IpPcs
  <1>15. LocalOK(c)'
    BY <1>1, <1>3, <1>9 DEF LocalOK, Fresh, PipePcs, IpPcs
  <1>16. \A q \in Procs : pc[q] = "fork" => loc[q].child # c
    BY <1>1 DEF FileInv, ForkOK
  <1>17. ForkOK(p)'
    <2>1. \A q \in Procs : pc'[q] = "fork" /\ loc'[q].child = c => q = p
      BY <1>1, <1>9, <1>16 DEF Only
    <2> QED
      BY <1>1, <1>3, <1>4, <1>6, <1>9, <2>1 DEF ForkOK
  <1>18. \A fd \in Fds : \A f \in Files : IsRef(p, fd, f)' \/ IsRef(c, fd, f)' => file'[f].type # "none"
    BY <1>1, <1>4, <1>10, <1>11, PlacesAre DEF FileInv, TypesOK
  <1>19. \A f \in Files, g \in Pages, w \in BOOLEAN : IsEnd(f, g, w)' <=> IsEnd(f, g, w)
    BY <1>4 DEF IsEnd
  <1>20. InodesInUseAreHeld'
    <2>1. {p, c} \in SUBSET Procs /\ \A a \in {p, c} : pc[a] # "chdir_set" /\ pc'[a] \notin IpPcs
      BY <1>1, <1>9 DEF IpPcs
    <2> QED
      BY <1>4, <1>8, <1>9, <2>1, InodesSame
  <1> QED
    BY <1>1, <1>4, <1>6, <1>8, <1>9, <1>12, <1>13, <1>14, <1>15, <1>16, <1>17, <1>18, <1>19, <1>20, TwoStep

\* What fork knows of itself and of its child.
LEMMA ForkIs ==
  ASSUME FileInv, NEW p \in Procs, pc[p] = "fork"
  PROVE  /\ TablesTyped /\ LocalOK(p) /\ loc[p] \in Locs /\ ofile[p] \in [Fds -> 0 .. NFILE] /\ cwd[p] \in Inodes
         /\ loc[p].g = 0 /\ loc[p].pg = 0 /\ loc[p].ret = "user"
         /\ \E c \in Procs :
              /\ c = loc[p].child /\ c # p /\ pc[c] = "born" /\ LocalOK(c) /\ loc[c] = NoLocals /\ cwd[c] = 0
              /\ ofile[c] \in [Fds -> 0 .. NFILE] /\ \A fd \in Fds : fd >= loc[p].fd => ofile[c][fd] = 0
              /\ \A q \in Procs : q # p /\ pc[q] = "fork" => loc[q].child # c
              /\ \A f \in Files, z \in Places : IsRef(c, z, f) <=> z \in Fds /\ ofile[c][z] = f
         /\ \A f \in Files, z \in Places : IsRef(p, z, f) <=> z \in Fds /\ ofile[p][z] = f
  <1>1. /\ TablesTyped /\ LocalOK(p) /\ ForkOK(p) /\ loc[p] \in Locs /\ ofile[p] \in [Fds -> 0 .. NFILE]
    BY ProcIs DEF FileInv
  <1>2. cwd[p] \in Inodes /\ loc[p].g = 0 /\ loc[p].pg = 0 /\ loc[p].ret = "user"
    BY <1>1 DEF LocalOK, PipePcs
  <1>3. PICK c \in Procs :
          /\ c = loc[p].child /\ c # p /\ pc[c] = "born"
          /\ \A fd \in Fds : fd >= loc[p].fd => ofile[c][fd] = 0
          /\ \A q \in Procs : pc[q] = "fork" /\ loc[q].child = c => q = p
    BY <1>1 DEF ForkOK
  <1>4. LocalOK(c) /\ ofile[c] \in [Fds -> 0 .. NFILE]
    BY ProcIs
  <1>5. loc[c] = NoLocals /\ cwd[c] = 0
    BY <1>3, <1>4 DEF LocalOK
  <1>6. \A f \in Files, z \in Places : IsRef(c, z, f) <=> z \in Fds /\ ofile[c][z] = f
    BY <1>3, PlacesAre DEF IsRef, HandF, HandG, Owes
  <1>7. \A f \in Files, z \in Places : IsRef(p, z, f) <=> z \in Fds /\ ofile[p][z] = f
    BY PlacesAre DEF IsRef, HandF, HandG, Owes
  <1>8. \A q \in Procs : q # p /\ pc[q] = "fork" => loc[q].child # c
    BY <1>3
  <1> QED
    BY <1>1, <1>2, <1>3, <1>4, <1>5, <1>6, <1>7, <1>8

\* fork copies a descriptor and counts it.
LEMMA ForkCopyStep ==
  ASSUME FileInv, NEW p \in Procs, AtomicCopy(p)
  PROVE  FileInv'
  <1>1. pc[p] = "fork" /\ broken = "no"
    BY DEF AtomicCopy, At, Within
  <1>2. /\ TablesTyped /\ LocalOK(p) /\ loc[p] \in Locs /\ ofile[p] \in [Fds -> 0 .. NFILE] /\ cwd[p] \in Inodes
        /\ loc[p].g = 0 /\ loc[p].pg = 0 /\ loc[p].ret = "user"
        /\ \A f \in Files, z \in Places : IsRef(p, z, f) <=> z \in Fds /\ ofile[p][z] = f
    BY <1>1, ForkIs
  <1>3. PICK c \in Procs :
              /\ c = loc[p].child /\ c # p /\ pc[c] = "born" /\ LocalOK(c) /\ loc[c] = NoLocals /\ cwd[c] = 0
              /\ ofile[c] \in [Fds -> 0 .. NFILE] /\ \A fd \in Fds : fd >= loc[p].fd => ofile[c][fd] = 0
              /\ \A q \in Procs : q # p /\ pc[q] = "fork" => loc[q].child # c
              /\ \A f \in Files, z \in Places : IsRef(c, z, f) <=> z \in Fds /\ ofile[c][z] = f
    BY <1>1, ForkIs
  <1>4. PICK fd \in Fds : fd = loc[p].fd /\ fd + 1 \in 0 .. NOFILE /\ ofile[c][fd] = 0
    <2>1. loc[p].fd \in 0 .. NOFILE /\ loc[p].fd < NOFILE
      BY <1>2 DEF Locs, AtomicCopy
    <2>2. loc[p].fd \in Fds /\ loc[p].fd + 1 \in 0 .. NOFILE /\ loc[p].fd >= loc[p].fd
      BY <2>1, FileAssumption DEF Fds
    <2> QED
      BY <1>3, <2>2
  <1>5. UNCHANGED <<cwd, iref, page, pc, stale, broken>>
    BY DEF AtomicCopy
  <1>6. PICK l : l = [loc[p] EXCEPT !.fd = fd + 1]
    OBVIOUS
  <1>7. l \in Locs /\ l.child = c /\ l.g = 0 /\ l.pg = 0 /\ l.ret = "user" /\ l.fd = fd + 1
    BY <1>2, <1>3, <1>4, <1>6 DEF Locs
  <1>8. loc' = [loc EXCEPT ![p] = l]
    BY <1>4, <1>6 DEF AtomicCopy
  <1>9. PICK e \in 0 .. NFILE : e = ofile[p][fd]
    BY <1>2
  <1>10. PICK o : o = [ofile[c] EXCEPT ![fd] = e]
    OBVIOUS
  <1>11. /\ o \in [Fds -> 0 .. NFILE] /\ o[fd] = e /\ \A x \in Fds : x # fd => o[x] = ofile[c][x]
    BY <1>3, <1>9, <1>10
  <1>12. ofile' = [ofile EXCEPT ![c] = o]
    <2>1. CASE e # 0
      BY <1>3, <1>4, <1>9, <1>10, <2>1 DEF AtomicCopy, SetFd
    <2>2. CASE e = 0
      <3>1. ofile' = ofile
        BY <1>4, <1>9, <2>2 DEF AtomicCopy
      <3>2. o = ofile[c]
        BY <1>3, <1>4, <1>10, <2>2
      <3> QED
        BY <1>2, <3>1, <3>2 DEF TablesTyped
    <2> QED
      BY <2>1, <2>2
  <1>13. /\ Only({p, c}) /\ pc'[p] = "fork" /\ loc'[p] = l /\ pc'[c] = "born" /\ loc'[c] = loc[c]
         /\ ofile'[p] = ofile[p] /\ ofile'[c] = o /\ cwd' = cwd
    BY <1>1, <1>2, <1>3, <1>5, <1>8, <1>12 DEF Only, TablesTyped
  <1>14. \A f \in Files, z \in Places : IsRef(p, z, f)' <=> IsRef(p, z, f)
    BY <1>2, <1>7, <1>13, PlacesAre DEF IsRef, HandF, HandG, Owes
  <1>15. \A f \in Files, z \in Places : IsRef(c, z, f)' <=> IsRef(c, z, f) \/ (z = fd /\ f = e)
    <2>1. \A f \in Files, z \in Places : IsRef(c, z, f)' <=> z \in Fds /\ o[z] = f
      BY <1>13, PlacesAre DEF IsRef, HandF, HandG, Owes
    <2> QED
      BY <1>3, <1>4, <1>11, <2>1, PlacesAre
  <1>16. /\ file' \in [Files -> [ref : Nat, type : FileTypes, ip : 0 .. NINODE, pipe : 0 .. NPAGE,
                                 writable : BOOLEAN]]
         /\ \A f \in Files : /\ Touched({p, c}, f)
                             /\ file'[f].type = file[f].type /\ file'[f].ip = file[f].ip
                             /\ (file'[f].ref > 0 <=> file[f].ref > 0)
                             /\ (f # e => file'[f].ref = file[f].ref)
                             /\ (f = e => file'[f].ref = file[f].ref + 1)
         /\ \A f \in Files, g \in Pages, w \in BOOLEAN : IsEnd(f, g, w)' <=> IsEnd(f, g, w)
    <2>1. CASE e = 0
      <3>1. file' = file
        BY <1>4, <1>9, <2>1 DEF AtomicCopy
      <3>2. \A f \in Files : f # e
        BY <2>1, PlacesAre
      <3> QED
        BY <1>2, <3>1, <3>2 DEF Touched, TablesTyped, IsEnd
    <2>2. CASE e # 0
      <3>1. e \in Files /\ IsRef(p, fd, e) /\ fd \in Places
        BY <1>2, <1>9, <2>2, PlacesAre
      <3>2. PICK n \in Nat : n = file[e].ref + 1 /\ n > 0
        BY <3>1, CountIs DEF FileInv
      <3>3. Recount(e, n)
        BY <1>4, <1>9, <2>2, <3>2 DEF AtomicCopy, Recount
      <3>4. Recounted({p, c}, e, n)
        BY <1>1, <3>1, <3>2, <3>3, CountTouched
      <3> QED
        BY <3>2, <3>4 DEF Recounted
    <2> QED
      BY <2>1, <2>2
  <1>17. TablesTyped'
    BY <1>2, <1>5, <1>7, <1>8, <1>11, <1>12, <1>16 DEF TablesTyped, Locs
  <1>18. Counts'
    <2>1. ASSUME NEW f \in Files
          PROVE  Counted(f, p)
      <3>1. \A q \in Procs, z \in Places : q # p /\ q # c => (IsRef(q, z, f)' <=> IsRef(q, z, f))
        BY <1>13, OthersRefs
      <3>2. CASE f = e
        <4>1. ~IsRef(c, fd, f) /\ fd \in Places
          BY <1>3, <1>4, PlacesAre
        <4>2. MoreRefs(f, c, fd)
          BY <1>14, <1>15, <3>1, <3>2, <4>1 DEF MoreRefs
        <4> QED
          BY <1>16, <3>2, <4>1, <4>2 DEF Counted
      <3>3. CASE f # e
        <4>1. SameRefs(f)
          BY <1>14, <1>15, <3>1, <3>3 DEF SameRefs
        <4> QED
          BY <1>16, <3>3, <4>1 DEF Counted
      <3> QED
        BY <3>2, <3>3
    <2> QED
      BY <2>1, CountsKeep DEF FileInv
  <1>19. LocalOK(p)'
    BY <1>2, <1>7, <1>13 DEF LocalOK, Fresh, PipePcs, IpPcs
  <1>20. LocalOK(c)'
    BY <1>3, <1>13 DEF LocalOK, Fresh, PipePcs, IpPcs
  <1>21. ForkOK(p)'
    <2>1. \A q \in Procs : pc'[q] = "fork" /\ loc'[q].child = c => q = p
      BY <1>3, <1>13 DEF Only
    <2>2. \A x \in Fds : x >= fd + 1 => x # fd /\ x >= fd
      BY FileAssumption DEF Fds
    <2>3. \A x \in Fds : x >= fd + 1 => ofile'[c][x] = 0
      BY <1>3, <1>4, <1>11, <1>13, <2>2
    <2> QED
      BY <1>3, <1>7, <1>13, <2>1, <2>3 DEF ForkOK
  <1>22. \A x \in Fds : \A f \in Files : IsRef(p, x, f)' \/ IsRef(c, x, f)' => file'[f].type # "none"
    <2>1. \A x \in Fds : \A f \in Files : IsRef(p, x, f) \/ IsRef(c, x, f) => file[f].type # "none"
      BY <1>1, <1>3 DEF FileInv, TypesOK
    <2>2. e \in Files => IsRef(p, fd, e)
      BY <1>2, <1>9, PlacesAre
    <2>3. \A x \in Fds : \A f \in Files : IsRef(p, x, f)' \/ IsRef(c, x, f)' => file[f].type # "none"
      BY <1>14, <1>15, <2>1, <2>2, PlacesAre
    <2> QED
      BY <1>16, <2>3
  <1>23. InodesInUseAreHeld'
    <2>1. {p, c} \in SUBSET Procs /\ \A a \in {p, c} : pc[a] # "chdir_set" /\ pc'[a] \notin IpPcs
      BY <1>1, <1>3, <1>13 DEF IpPcs
    <2> QED
      BY <1>5, <1>13, <1>16, <1>17, <2>1, InodesSame
  <1>24. \A f \in Files : Touched({p, c}, f)
    BY <1>16
  <1>25. \A f \in Files, g \in Pages, w \in BOOLEAN : IsEnd(f, g, w)' <=> IsEnd(f, g, w)
    BY <1>16
  <1> QED
    BY <1>1, <1>3, <1>5, <1>7, <1>13, <1>17, <1>18, <1>19, <1>20, <1>21, <1>22, <1>23, <1>24, <1>25, TwoStep

\* fork gives the child its directory and ends.
LEMMA ForkEndStep ==
  ASSUME FileInv, NEW p \in Procs, ForkEnd(p)
  PROVE  FileInv'
  <1>1. pc[p] = "fork" /\ broken = "no"
    BY DEF ForkEnd, At, Within
  <1>2. /\ TablesTyped /\ LocalOK(p) /\ loc[p] \in Locs /\ ofile[p] \in [Fds -> 0 .. NFILE] /\ cwd[p] \in Inodes
        /\ \A f \in Files, z \in Places : IsRef(p, z, f) <=> z \in Fds /\ ofile[p][z] = f
    BY <1>1, ForkIs
  <1>3. PICK c \in Procs :
              /\ c = loc[p].child /\ c # p /\ pc[c] = "born" /\ LocalOK(c) /\ loc[c] = NoLocals /\ cwd[c] = 0
              /\ \A q \in Procs : q # p /\ pc[q] = "fork" => loc[q].child # c
              /\ \A f \in Files, z \in Places : IsRef(c, z, f) <=> z \in Fds /\ ofile[c][z] = f
    BY <1>1, ForkIs
  <1>4. PICK j \in Inodes : j = cwd[p]
    BY <1>2
  <1>5. /\ UNCHANGED <<file, ofile, page, stale, broken>> /\ cwd' = [cwd EXCEPT ![c] = j]
        /\ iref' = [iref EXCEPT ![j] = @ + 1] /\ loc' = [loc EXCEPT ![p] = NoLocals]
        /\ pc' = [[pc EXCEPT ![p] = "user"] EXCEPT ![c] = "user"]
    BY <1>2, <1>3, <1>4 DEF ForkEnd, Iget, TablesTyped
  <1>6. /\ NoLocals \in Locs /\ NoLocals.f = 0 /\ NoLocals.g = 0 /\ NoLocals.pg = 0 /\ NoLocals.ret = "user"
    BY PlacesAre DEF NoLocals, Locs
  <1>7. iref[j] \in Nat /\ iref' \in [Inodes -> Nat] /\ iref'[j] = iref[j] + 1 /\ \A i \in Inodes : i # j => iref'[i] = iref[i]
    BY <1>2, <1>5 DEF TablesTyped
  <1>8. TablesTyped'
    BY <1>2, <1>5, <1>6, <1>7, PlacesAre DEF TablesTyped, PCs, Locs
  <1>9. /\ Only({p, c}) /\ pc'[p] = "user" /\ loc'[p] = NoLocals /\ pc'[c] = "user" /\ loc'[c] = NoLocals
        /\ ofile' = ofile /\ cwd'[p] = j /\ cwd'[c] = j
    BY <1>2, <1>3, <1>4, <1>5 DEF Only, TablesTyped
  <1>10. \A f \in Files, z \in Places : IsRef(p, z, f)' <=> IsRef(p, z, f)
    BY <1>2, <1>6, <1>9, PlacesAre DEF IsRef, HandF, HandG, Owes
  <1>11. \A f \in Files, z \in Places : IsRef(c, z, f)' <=> IsRef(c, z, f)
    BY <1>3, <1>6, <1>9, PlacesAre DEF IsRef, HandF, HandG, Owes
  <1>12. Counts'
    BY <1>5, <1>9, <1>10, <1>11, SameCounts
  <1>13. \A f \in Files : Touched({p, c}, f)
    BY <1>5 DEF Touched
  <1>14. LocalOK(p)' /\ LocalOK(c)'
    BY <1>6, <1>9 DEF LocalOK, Fresh, PipePcs, IpPcs
  <1>15. ForkOK(p)'
    BY <1>9 DEF ForkOK
  <1>16. \A fd \in Fds : \A f \in Files : IsRef(p, fd, f)' \/ IsRef(c, fd, f)' => file'[f].type # "none"
    BY <1>1, <1>3, <1>5, <1>10, <1>11, PlacesAre DEF FileInv, TypesOK
  <1>17. \A f \in Files, g \in Pages, w \in BOOLEAN : IsEnd(f, g, w)' <=> IsEnd(f, g, w)
    BY <1>5 DEF IsEnd
  <1>18. InodesInUseAreHeld'
    <2>1. \A i \in Inodes : FilesOn(i)' \subseteq FilesOn(i)
      BY <1>5 DEF FilesOn
    <2>2. DirsOf(j)' \subseteq DirsOf(j) \cup {c} /\ \A i \in Inodes : i # j => DirsOf(i)' \subseteq DirsOf(i)
      BY <1>1, <1>4, <1>9 DEF DirsOf, Only
    <2>3. \A i \in Inodes : CallsOn(i)' \subseteq CallsOn(i)
      BY <1>9 DEF CallsOn, Only, IpPcs
    <2>4. Change(FilesOn(j), FilesOn(j)', 0) /\ Change(DirsOf(j), DirsOf(j)', 1) /\ Change(CallsOn(j), CallsOn(j)', 0)
      BY <2>1, <2>2, <2>3 DEF Change
    <2>5. iref'[j] >= iref[j] + 0 + 1 + 0
      BY <1>7
    <2>6. UsersMove(j)
      BY <2>4, <2>5 DEF UsersMove
    <2> QED
      BY <1>7, <1>8, <2>1, <2>2, <2>3, <2>6, InodesBut
  <1> QED
    BY <1>1, <1>3, <1>5, <1>8, <1>9, <1>12, <1>13, <1>14, <1>15, <1>16, <1>17, <1>18, TwoStep

-----------------------------------------------------------------------------
(* The invariant. *)

\* The first process has the console, and is in a directory.
LEMMA InitInv ==
  ASSUME Init
  PROVE  FileInv
  <1>1. PICK d \in Dirs : /\ cwd = [p \in Procs |-> IF p = 1 THEN d ELSE 0]
                          /\ iref = [i \in Inodes |-> IF i = d THEN 1 ELSE 0]
    BY DEF Init
  <1>2. /\ d \in Inodes /\ 1 \in Procs /\ 1 \in Files /\ 0 \in Fds /\ 0 \notin Inodes /\ 0 \in Places
    BY FileAssumption DEF Inodes, Procs, Files, Fds, Places
  <1>3. /\ NoLocals \in Locs /\ NoLocals.f = 0 /\ NoLocals.g = 0 /\ NoLocals.pg = 0 /\ NoLocals.ret = "user"
        /\ NoLocals.ip = 0
    BY PlacesAre DEF NoLocals, Locs
  <1>4. /\ \A p \in Procs : loc[p] = NoLocals /\ pc[p] = IF p = 1 THEN "user" ELSE "dead"
        /\ \A p \in Procs, fd \in Fds : ofile[p][fd] = IF p = 1 /\ fd = 0 THEN 1 ELSE 0
        /\ \A p \in Procs : cwd[p] = IF p = 1 THEN d ELSE 0
        /\ \A g \in Pages : page[g] = NoPipe
        /\ stale = {} /\ broken = "no"
    BY <1>1 DEF Init
  <1>5. /\ \A f \in Files : f # 1 => file[f].ref = 0 /\ file[f].type = "none"
        /\ file[1].ref = 1 /\ file[1].type = "console"
    BY <1>2 DEF Init, NoFile
  <1>6. TablesTyped
    <2>1. /\ file \in [Files -> [ref : Nat, type : FileTypes, ip : 0 .. NINODE, pipe : 0 .. NPAGE, writable : BOOLEAN]]
      BY PlacesAre DEF Init, NoFile, FileTypes
    <2>2. ofile \in [Procs -> [Fds -> 0 .. NFILE]]
      BY <1>2, PlacesAre DEF Init
    <2>3. cwd \in [Procs -> 0 .. NINODE] /\ iref \in [Inodes -> Nat]
      BY <1>1, <1>2, PlacesAre
    <2>4. page \in [Pages -> [alloc : BOOLEAN, readopen : BOOLEAN, writeopen : BOOLEAN]]
      BY DEF Init, NoPipe
    <2>5. pc \in [Procs -> PCs] /\ loc \in [Procs -> Locs]
      BY <1>3 DEF Init, PCs
    <2>6. stale \subseteq Files /\ broken \in {"no", "panic", "freed"}
      BY <1>4
    <2> QED
      BY <2>1, <2>2, <2>3, <2>4, <2>5, <2>6 DEF TablesTyped, Locs
  <1>7. \A p \in Procs, f \in Files, z \in Places : IsRef(p, z, f) <=> p = 1 /\ z = 0 /\ f = 1
    <2>1. \A p \in Procs : ~Owes(p) /\ ~HandF(p) /\ ~HandG(p)
      BY <1>4 DEF Owes, HandF, HandG
    <2> QED
      BY <1>2, <1>4, <2>1, PlacesAre DEF IsRef
  <1>8. Counts
    <2> SUFFICES ASSUME NEW f \in Files
                 PROVE  file[f].ref = Cardinality(Refs(f))
      BY DEF Counts
    <2>1. CASE f = 1
      <3>1. Refs(f) = {<<1, 0>>}
        BY <1>2, <1>7, <2>1 DEF Refs
      <3> QED
        BY <1>5, <2>1, <3>1, FS_Singleton
    <2>2. CASE f # 1
      <3>1. Refs(f) = {}
        BY <1>7, <2>2 DEF Refs
      <3> QED
        BY <1>5, <2>2, <3>1, FS_EmptySet
    <2> QED
      BY <2>1, <2>2
  <1>9. TakeOK
    BY <1>4 DEF TakeOK, Taking
  <1>10. TypesOK
    <2>1. \A f \in Files : file[f].type \in {"none", "console"} /\ ~(file[f].ref = 0 /\ file[f].type # "none")
      BY <1>5
    <2>2. \A p \in Procs, fd \in Fds : \A f \in Files : IsRef(p, fd, f) => f = 1
      BY <1>7, PlacesAre
    <2> QED
      BY <1>5, <2>1, <2>2 DEF TypesOK
  <1>11. PagesOK
    <2> SUFFICES ASSUME NEW g \in Pages
                 PROVE  PageOK(g)
      BY DEF PagesOK
    <2>1. \A f \in Files, w \in BOOLEAN : ~IsEnd(f, g, w)
      BY <1>5 DEF IsEnd
    <2>2. \A p \in Procs : ~Held(p, g)
      BY <1>4 DEF Held, PipePcs
    <2>3. ~OpenEnd(g, TRUE) /\ ~OpenEnd(g, FALSE)
      BY <2>1 DEF OpenEnd, IsEnd
    <2>4. NoPipe.readopen = FALSE /\ NoPipe.writeopen = FALSE /\ NoPipe.alloc = FALSE
      BY DEF NoPipe
    <2>5. page[g].readopen = FALSE /\ page[g].writeopen = FALSE /\ page[g].alloc = FALSE
      BY <1>4, <2>4
    <2>6. Agrees(g)
      BY <2>3, <2>5 DEF Agrees
    <2> QED
      BY <2>1, <2>2, <2>6 DEF PageOK, OneEnd
  <1>12. InodesInUseAreHeld
    <2> SUFFICES ASSUME NEW i \in Inodes
                 PROVE  iref[i] >= InodeUsers(i)
      BY DEF InodesInUseAreHeld
    <2>1. FilesOn(i) = {} /\ CallsOn(i) = {}
      BY <1>4, <1>5 DEF FilesOn, CallsOn, IpPcs
    <2>2. InodeUsers(i) = Cardinality(FilesOn(i)) + Cardinality(DirsOf(i)) + Cardinality(CallsOn(i))
      BY DEF InodeUsers, FilesOn, DirsOf, CallsOn, IpPcs
    <2>3. CASE i = d
      <3>1. DirsOf(i) = {1} /\ iref[i] = 1
        BY <1>1, <1>2, <1>4, <2>3 DEF DirsOf
      <3> QED
        BY <2>1, <2>2, <3>1, FS_Singleton, FS_EmptySet
    <2>4. CASE i # d
      <3>1. DirsOf(i) = {} /\ iref[i] = 0
        BY <1>1, <1>2, <1>4, <2>4 DEF DirsOf
      <3> QED
        BY <2>1, <2>2, <3>1, FS_EmptySet
    <2> QED
      BY <2>3, <2>4
  <1>13. \A p \in Procs : LocalOK(p)
    BY <1>2, <1>3, <1>4 DEF LocalOK, Fresh, PipePcs, IpPcs
  <1>14. \A p \in Procs : ForkOK(p) /\ FileOK(p)
    BY <1>4 DEF ForkOK, FileOK, Fresh
  <1>15. broken # "panic"
    BY <1>4
  <1> QED
    BY <1>6, <1>8, <1>9, <1>10, <1>11, <1>12, <1>13, <1>14, <1>15 DEF FileInv

-----------------------------------------------------------------------------
(* Counts under way. *)

\* A file that is about to be counted up or down has a reference.
LEMMA CountedIs ==
  ASSUME FileInv, broken = "no", NEW p \in Procs, Counting(p)
  PROVE  CountedFile(p) \in Files /\ file[CountedFile(p)].ref \in Nat /\ file[CountedFile(p)].ref >= 1
  <1>1. TablesTyped /\ Counts /\ LocalOK(p) /\ ofile[p] \in [Fds -> 0 .. NFILE] /\ loc[p] \in Locs
    BY ProcIs DEF FileInv
  <1>2. CASE pc[p] = "drop"
    BY <1>2, CloseIs, DropIs DEF CountedFile
  <1>3. CASE pc[p] = "dup_ref"
    <2>1. PICK e \in Files, fd \in Fds : e = loc[p].f /\ fd # loc[p].fd /\ ofile[p][fd] = e
      BY <1>1, <1>3 DEF LocalOK
    <2>2. loc[p].ret = "user"
      BY <1>1, <1>3 DEF LocalOK
    <2>3. IsRef(p, fd, e) /\ fd \in Places
      BY <1>3, <2>1, <2>2, PlacesAre DEF IsRef, Owes, OwedFd
    <2> QED
      BY <1>1, <1>3, <2>1, <2>3, CountIs DEF CountedFile
  <1>4. CASE pc[p] = "fork"
    <2>1. loc[p].fd \in Fds /\ ofile[p][loc[p].fd] # 0
      <3>1. loc[p].fd \in 0 .. NOFILE /\ loc[p].fd < NOFILE
        BY <1>1, <1>4 DEF Counting, Locs
      <3> QED
        BY <1>4, <3>1, FileAssumption DEF Counting, Fds
    <2>2. PICK e \in Files : e = ofile[p][loc[p].fd]
      BY <1>1, <2>1, PlacesAre
    <2>3. \A x \in Files, z \in Places : IsRef(p, z, x) <=> z \in Fds /\ ofile[p][z] = x
      BY <1>4, ForkIs
    <2>4. IsRef(p, loc[p].fd, e) /\ loc[p].fd \in Places
      BY <2>1, <2>2, <2>3, PlacesAre
    <2> QED
      BY <1>1, <1>4, <2>2, <2>4, CountIs DEF CountedFile
  <1> QED
    BY <1>2, <1>3, <1>4 DEF Counting

\* The store of a count does what the whole count would do in one step.
LEMMA StoreIs ==
  ASSUME CountsOK, NEW p \in Procs
  PROVE  /\ CloseDrop(p) => AtomicDrop(p)
         /\ CloseLast(p) => AtomicLast(p)
         /\ Filedup(p) => AtomicDup(p)
         /\ ForkCopy(p) => AtomicCopy(p)
  <1>1. cnt[p] # NoCount => cnt[p] = file[CountedFile(p)].ref /\ cnt[p] \in Nat
    BY DEF CountsOK
  <1>2. ASSUME CloseDrop(p)
        PROVE  AtomicDrop(p)
    <2>1. pc[p] = "drop" /\ cnt[p] # NoCount /\ cnt[p] > 1
      BY <1>2 DEF CloseDrop, At, Within, NoCount
    <2>2. cnt[p] = file[loc[p].f].ref
      BY <1>1, <2>1 DEF CountedFile
    <2> QED
      BY <1>2, <2>1, <2>2 DEF CloseDrop, AtomicDrop, Store
  <1>3. ASSUME CloseLast(p)
        PROVE  AtomicLast(p)
    <2>1. pc[p] = "drop" /\ cnt[p] # NoCount /\ cnt[p] \in {0, 1}
      BY <1>3 DEF CloseLast, At, Within, NoCount
    <2>2. cnt[p] = file[loc[p].f].ref
      BY <1>1, <2>1 DEF CountedFile
    <2>3. file[loc[p].f].ref <= 1 /\ (file[loc[p].f].ref < 1 <=> cnt[p] = 0)
      BY <2>1, <2>2
    <2> QED
      BY <1>3, <2>3 DEF CloseLast, AtomicLast, Store
  <1>4. ASSUME Filedup(p)
        PROVE  AtomicDup(p)
    <2>1. pc[p] = "dup_ref" /\ cnt[p] # NoCount
      BY <1>4 DEF Filedup, At, Within
    <2>2. cnt[p] = file[loc[p].f].ref
      BY <1>1, <2>1 DEF CountedFile
    <2> QED
      BY <1>4, <2>1, <2>2 DEF Filedup, AtomicDup, Store
  <1>5. ASSUME ForkCopy(p)
        PROVE  AtomicCopy(p)
    <2>1. pc[p] = "fork"
      BY <1>5 DEF ForkCopy, At, Within
    <2>2. cnt[p] # NoCount => cnt[p] = file[ofile[p][loc[p].fd]].ref
      BY <1>1, <2>1 DEF CountedFile
    <2> QED
      BY <1>5, <2>1, <2>2 DEF ForkCopy, AtomicCopy, Store
  <1> QED
    BY <1>2, <1>3, <1>4, <1>5

\* A step of a process that counts nothing, with a child or without.
LEMMA CountsStay ==
  ASSUME FileInv, CountsOK, broken = "no", cnt' = cnt, NEW A \in SUBSET Procs, Only(A),
         \A a \in A : ~Counting(a),
         \A f \in Files : file[f].ref >= 1 => file'[f].ref = file[f].ref
  PROVE  CountsOK'
  <1> SUFFICES ASSUME NEW q \in Procs, cnt[q] # NoCount
               PROVE  /\ Counting(q)' /\ cnt[q] = file'[CountedFile(q)'].ref
                      /\ \A r \in Procs : cnt[r] # NoCount => r = q
    BY DEF CountsOK
  <1>1. Counting(q) /\ cnt[q] = file[CountedFile(q)].ref /\ \A r \in Procs : cnt[r] # NoCount => r = q
    BY DEF CountsOK
  <1>2. pc'[q] = pc[q] /\ loc'[q] = loc[q] /\ ofile'[q] = ofile[q]
    BY <1>1 DEF Only
  <1>3. Counting(q)' /\ CountedFile(q)' = CountedFile(q)
    BY <1>1, <1>2 DEF Counting, CountedFile
  <1>4. file'[CountedFile(q)].ref = file[CountedFile(q)].ref
    BY <1>1, CountedIs
  <1> QED
    BY <1>1, <1>3, <1>4

\* The store of a count ends it.
LEMMA StoreEnds ==
  ASSUME CountsOK, NEW p \in Procs, cnt[p] # NoCount, cnt' = [cnt EXCEPT ![p] = NoCount]
  PROVE  CountsOK'
  <1>1. \A q \in Procs : cnt'[q] = NoCount
    BY DEF CountsOK
  <1>2. cnt' \in [Procs -> Nat \cup {NoCount}]
    BY DEF CountsOK
  <1> QED
    BY <1>1, <1>2 DEF CountsOK

\* Counts that keep out of one another find what they have loaded.
LEMMA CountsKept ==
  ASSUME Atomic, FileInv, CountsOK, [Next]_vars
  PROVE  CountsOK'
  <1>1. CASE UNCHANGED vars
    BY <1>1, SMTT(30) DEF vars, CountsOK, Counting, CountedFile
  <1>2. ASSUME NEW p \in Procs, LoadRef(p)
        PROVE  CountsOK'
    <2>1. /\ broken = "no" /\ Counting(p) /\ cnt' = [cnt EXCEPT ![p] = file[CountedFile(p)].ref]
          /\ \A q \in Procs : cnt[q] = NoCount
          /\ UNCHANGED <<file, ofile, pc, loc>>
      BY <1>2 DEF LoadRef
    <2>2. file[CountedFile(p)].ref \in Nat
      BY <2>1, CountedIs
    <2>3. cnt' \in [Procs -> Nat \cup {NoCount}] /\ cnt'[p] = file[CountedFile(p)].ref
          /\ \A q \in Procs : q # p => cnt'[q] = NoCount
      BY <2>1, <2>2 DEF CountsOK
    <2> QED
      BY <2>1, <2>3, ZenonT(30) DEF CountsOK, Counting, CountedFile
  <1>3. ASSUME NEW p \in Procs, CloseDrop(p) \/ CloseLast(p) \/ Filedup(p)
        PROVE  CountsOK'
    BY <1>3, StoreEnds DEF CloseDrop, CloseLast, Filedup, Store, NoCount
  <1>4. ASSUME NEW p \in Procs, ForkCopy(p), ofile[p][loc[p].fd] # 0
        PROVE  CountsOK'
    BY <1>4, StoreEnds DEF ForkCopy, Store
  <1>5. TablesTyped
    BY DEF FileInv
  <1>6. ASSUME NEW p \in Procs, ForkCopy(p), ofile[p][loc[p].fd] = 0
        PROVE  CountsOK'
    <2>1. ~Counting(p) /\ broken = "no" /\ UNCHANGED <<file, ofile, cwd, pc, cnt>> /\ loc' = [loc EXCEPT ![p].fd = @ + 1]
      BY <1>6 DEF ForkCopy, At, Within, Counting
    <2>2. Only({p}) /\ {p} \in SUBSET Procs
      BY <1>5, <2>1 DEF Only, TablesTyped
    <2> QED
      BY <2>1, <2>2, CountsStay
  <1>7. ASSUME NEW p \in Procs, FileTest(p) \/ FileNone(p) \/ OpenFd(p) \/ Dup2Set(p) \/ PipeFds(p) \/ PipeBad(p)
                                \/ ExitClose(p) \/ ExitClear(p) \/ ExitCwd(p) \/ ChdirFail(p) \/ ChdirPut(p)
                                \/ ChdirSet(p) \/ FileTake(p) \/ OpenInit(p) \/ PipeInit(p) \/ CloseClear(p)
        PROVE  CountsOK'
    <2>1. ~Counting(p) /\ broken = "no" /\ cnt' = cnt
      BY <1>7 DEF FileTest, FileNone, OpenFd, Dup2Set, PipeFds, PipeBad, ExitClose, ExitClear, ExitCwd, ChdirFail,
                  ChdirPut, ChdirSet, FileTake, OpenInit, PipeInit, CloseClear, At, Within, Counting, Testing, Taking
    <2>2. Only({p}) /\ {p} \in SUBSET Procs
      <3>1. CASE FileTest(p) \/ FileNone(p) \/ OpenFd(p) \/ Dup2Set(p) \/ PipeFds(p) \/ PipeBad(p)
        BY <1>5, <3>1 DEF FileTest, FileNone, OpenFd, Dup2Set, PipeFds, PipeBad, Only, TablesTyped, Goto, Return, SetFd
      <3>2. CASE ExitClose(p) \/ ExitClear(p) \/ ExitCwd(p) \/ ChdirFail(p) \/ ChdirPut(p) \/ ChdirSet(p)
        BY <1>5, <3>2 DEF ExitClose, ExitClear, ExitCwd, ChdirFail, ChdirPut, ChdirSet, Only, TablesTyped, Goto, Return,
                          SetFd
      <3>3. CASE FileTake(p) \/ OpenInit(p) \/ PipeInit(p) \/ CloseClear(p)
        BY <1>5, <3>3 DEF FileTake, OpenInit, PipeInit, CloseClear, Only, TablesTyped, Goto, Return, Resume
      <3> QED
        BY <1>7, <3>1, <3>2, <3>3
    <2>3. ASSUME NEW f \in Files, file[f].ref >= 1
          PROVE  file'[f].ref = file[f].ref
      <3>1. CASE UNCHANGED file
        BY <3>1
      <3>2. CASE FileTake(p)
        <4>1. pc[p] \in Taking /\ file' = [file EXCEPT ![Target(p)].ref = 1]
          BY <3>2 DEF FileTake, Within
        <4>2. file[Target(p)].ref = 0
          BY <4>1 DEF FileInv, TakeOK
        <4>3. f # Target(p)
          BY <2>3, <4>2
        <4> QED
          BY <1>5, <4>1, <4>3 DEF TablesTyped
      <3>3. CASE OpenInit(p)
        BY <1>5, <3>3 DEF OpenInit, TablesTyped
      <3>4. CASE PipeInit(p)
        <4>1. PICK a \in Files, b \in Files : a = loc[p].f /\ b = loc[p].g /\ a # b
          <5>1. pc[p] = "pipe_init" /\ broken = "no"
            BY <3>4 DEF PipeInit, At, Within
          <5>2. loc[p].f \in Files /\ loc[p].g \in Files /\ loc[p].f # loc[p].g
            BY <5>1, PipeIs
          <5> QED
            BY <5>2
        <4>2. PICK r, t : /\ r = [file[a] EXCEPT !.type = "pipe", !.pipe = loc[p].pg, !.writable = FALSE]
                          /\ t = [file[b] EXCEPT !.type = "pipe", !.pipe = loc[p].pg, !.writable = TRUE]
          OBVIOUS
        <4>3. /\ file[a] \in [ref : Nat, type : FileTypes, ip : 0 .. NINODE, pipe : 0 .. NPAGE, writable : BOOLEAN]
              /\ file[b] \in [ref : Nat, type : FileTypes, ip : 0 .. NINODE, pipe : 0 .. NPAGE, writable : BOOLEAN]
          BY <1>5 DEF TablesTyped
        <4>4. r.ref = file[a].ref /\ t.ref = file[b].ref
          BY <4>2, <4>3
        <4>5. file' = [[file EXCEPT ![a] = r] EXCEPT ![b] = t]
          BY <1>5, <3>4, <4>1, <4>2 DEF PipeInit, TablesTyped
        <4> QED
          BY <1>5, <4>1, <4>4, <4>5 DEF TablesTyped
      <3>5. CASE CloseClear(p)
        BY <1>5, <3>5 DEF CloseClear, TablesTyped, NoFile
      <3> QED
        BY <1>7, <3>1, <3>2, <3>3, <3>4, <3>5
        DEF FileTest, FileNone, OpenFd, Dup2Set, PipeFds, PipeBad, ExitClose, ExitClear, ExitCwd, ChdirFail, ChdirPut,
            ChdirSet
    <2> QED
      BY <2>1, <2>2, <2>3, CountsStay
  <1>8. ASSUME NEW p \in Procs, ForkEnd(p)
        PROVE  CountsOK'
    <2>1. pc[p] = "fork" /\ loc[p].fd = NOFILE /\ broken = "no" /\ UNCHANGED <<file, ofile, cnt>>
      BY <1>8 DEF ForkEnd, At, Within
    <2>2. PICK c \in Procs : c = loc[p].child /\ pc[c] = "born"
      BY <2>1, ForkIs
    <2>3. \A a \in {p, c} : ~Counting(a)
      BY <2>1, <2>2, FileAssumption DEF Counting
    <2>4. Only({p, c}) /\ {p, c} \in SUBSET Procs
      BY <1>5, <1>8, <2>2 DEF ForkEnd, Only, TablesTyped
    <2> QED
      BY <2>1, <2>3, <2>4, CountsStay
  <1>9. ASSUME NEW p \in Procs, NEW c \in Procs, Fork(p, c)
        PROVE  CountsOK'
    <2>1. /\ \A a \in {p, c} : ~Counting(a)
          /\ broken = "no" /\ UNCHANGED <<file, cnt>>
      BY <1>9 DEF Fork, At, Within, Counting
    <2>2. Only({p, c}) /\ {p, c} \in SUBSET Procs
      BY <1>5, <1>9 DEF Fork, Only, TablesTyped
    <2> QED
      BY <2>1, <2>2, CountsStay
  <1>10. ASSUME NEW p \in Procs,
                \/ \E i \in Inodes : Chdir(p, i) \/ Open(p, i)
                \/ \E fd \in Fds : Close(p, fd) \/ \E to \in Fds : Dup(p, fd, to) \/ Dup2(p, fd, to)
                \/ Kalloc(p) \/ Exit(p)
         PROVE  CountsOK'
    <2>1. pc[p] = "user" /\ broken = "no" /\ UNCHANGED <<file, cnt>>
      BY <1>10, ZenonT(30) DEF Chdir, Open, Close, Dup, Dup2, Kalloc, Exit, At, Within
    <2>2. ~Counting(p)
      BY <2>1, SMTT(30) DEF Counting
    <2>3. Only({p}) /\ {p} \in SUBSET Procs
      BY <1>5, <1>10, ZenonT(30) DEF Chdir, Open, Close, Dup, Dup2, Kalloc, Exit, Only, TablesTyped, Goto, SetFd
    <2> QED
      BY <2>1, <2>2, <2>3, CountsStay, SMTT(30)
  <1> QED
    BY <1>1, <1>2, <1>3, <1>4, <1>6, <1>7, <1>8, <1>9, <1>10 DEF Next, Step, Call

-----------------------------------------------------------------------------
\* Every step keeps the invariant, where filealloc stays out of the windows of others and
\* counts out of one another.
LEMMA NextInv ==
  ASSUME Serial, FileInv, CountsOK, [Next]_vars
  PROVE  FileInv'
  <1>1. CASE UNCHANGED <<file, ofile, cwd, iref, page, stale, pc, loc, broken>>
    <2>1. \A f : Refs(f)' = Refs(f)
      BY <1>1 DEF Refs, IsRef, Owes, OwedFd, HandF, HandG
    <2>2. TablesTyped' /\ Counts' /\ TakeOK' /\ InodesInUseAreHeld' /\ broken' # "panic"
      BY <1>1, <2>1 DEF FileInv, TablesTyped, Counts, TakeOK, Target, InodesInUseAreHeld, InodeUsers
    <2>3. \A p, x, f : IsRef(p, x, f)' <=> IsRef(p, x, f)
      BY <1>1 DEF IsRef, Owes, OwedFd, HandF, HandG
    <2>4. TypesOK'
      BY <1>1, <2>3 DEF FileInv, TypesOK
    <2>5. PagesOK'
      <3>1. Only({}) /\ {} \in SUBSET Procs /\ page' = page
        BY <1>1 DEF Only
      <3>2. \A f \in Files, g \in Pages, w \in BOOLEAN : IsEnd(f, g, w)' <=> IsEnd(f, g, w)
        BY <1>1 DEF IsEnd
      <3> QED
        BY <3>1, <3>2, PagesSame
    <2>6. \A p \in Procs : LocalOK(p)' /\ ForkOK(p)' /\ FileOK(p)'
      BY <1>1 DEF FileInv, LocalOK, ForkOK, FileOK
    <2> QED
      BY <2>2, <2>4, <2>5, <2>6 DEF FileInv
  <1>2. ASSUME NEW p \in Procs, Step(p)
        PROVE  FileInv'
    BY <1>1, <1>2, StoreIs, FileTestStep, FileTakeStep, FileNoneStep, OpenFdStep, OpenInitStep, CloseDropStep, CloseLastStep,
       CloseClearStep, FiledupStep, Dup2SetStep, PipeInitStep, PipeFdsStep, PipeBadStep, ForkCopyStep,
       ForkEndStep, ExitCloseStep, ExitClearStep, ExitCwdStep, ChdirFailStep, ChdirPutStep,
       ChdirSetStep DEF Step, LoadRef
  <1>3. ASSUME NEW p \in Procs, Call(p)
        PROVE  FileInv'
    <2>1. ASSUME NEW i \in Inodes, Chdir(p, i)
          PROVE  FileInv'
      BY <2>1, IgetStep DEF Chdir, At, Within
    <2>2. ASSUME NEW i \in Inodes, Open(p, i)
          PROVE  FileInv'
      BY <2>2, IgetStep DEF Open, At, Within
    <2> QED
      BY <1>3, <2>1, <2>2, CloseStep, DupStep, Dup2Step, ForkStep, KallocStep, ExitStep DEF Call
  <1> QED
    BY <1>1, <1>2, <1>3 DEF Next, vars

\* Where filealloc keeps out of the windows of others and counts keep out of one another, the
\* table of open files, the descriptors, the pages of pipes and the references to inodes fit
\* together in every reachable state, between the load and the store of a count too.
THEOREM FileInvariant ==
  ASSUME Serial, Atomic
  PROVE  Spec => [](FileInv /\ CountsOK)
  <1>1. Init => FileInv /\ CountsOK
    BY InitInv DEF Init, CountsOK
  <1>2. FileInv /\ CountsOK /\ [Next]_vars => (FileInv /\ CountsOK)'
    BY NextInv, CountsKept
  <1> QED
    BY <1>1, <1>2, PTL DEF Spec

\* Whenever no call has a file in its hands, its ref is the number of descriptors that lead
\* to it: no interleaving of open, dup, close, fork and exit loses a count, except one that
\* puts a count between the load and the store of another, or filealloc into its windows.
THEOREM FileCounts ==
  ASSUME Serial, Atomic
  PROVE  Spec => []RefsAreCounted
  <1>1. FileInv => RefsAreCounted
    <2> SUFFICES ASSUME FileInv, NEW f \in Files, ~Busy(f)
                 PROVE  file[f].ref = Cardinality({d \in Procs \X Fds : ofile[d[1]][d[2]] = f})
      BY DEF RefsAreCounted
    <2>1. \A p \in Procs : f # loc[p].f /\ f # loc[p].g
      BY DEF Busy
    <2>2. ASSUME NEW p \in Procs, NEW x \in Places
          PROVE  IsRef(p, x, f) <=> x \in Fds /\ ofile[p][x] = f
      <3>1. LocalOK(p) /\ loc[p] \in Locs
        BY ProcIs
      <3>2. loc[p].ret \in {"user", "dup2_set", "exit_clear"}
        BY <3>1 DEF Locs
      <3>3. Owes(p) => ofile[p][OwedFd(p)] = loc[p].f
        BY <3>1, <3>2 DEF LocalOK, Owes, OwedFd
      <3> QED
        BY <2>1, <3>3, PlacesAre DEF IsRef
    <2>3. Refs(f) = {d \in Procs \X Fds : ofile[d[1]][d[2]] = f}
      BY <2>2, PlacesAre DEF Refs
    <2> QED
      BY <2>3 DEF FileInv, Counts
  <1> QED
    BY <1>1, FileInvariant, PTL

\* What a process reaches from user mode is an open file with a type: no close by another
\* process takes away the file of a descriptor.
THEOREM FileLive ==
  ASSUME Serial, Atomic
  PROVE  Spec => []DescriptorsAreLive
  <1>1. FileInv => DescriptorsAreLive
    <2> SUFFICES ASSUME FileInv, NEW p \in Procs, NEW fd \in Fds, pc[p] = "user", ofile[p][fd] # 0
                 PROVE  file[ofile[p][fd]].ref > 0 /\ file[ofile[p][fd]].type # "none"
      BY DEF DescriptorsAreLive
    <2>1. ofile[p] \in [Fds -> 0 .. NFILE]
      BY UserIs
    <2>2. PICK f \in Files : f = ofile[p][fd]
      BY <2>1, PlacesAre
    <2>3. IsRef(p, fd, f) /\ fd \in Places
      BY <2>2, UserIs, PlacesAre
    <2>4. file[f].ref \in Nat /\ file[f].ref >= 1
      BY <2>3, CountIs DEF FileInv
    <2>5. file[f].type # "none"
      BY <2>3 DEF FileInv, TypesOK
    <2> QED
      BY <2>2, <2>4, <2>5
  <1> QED
    BY <1>1, FileInvariant, PTL

\* pipeclose runs with the last file of an end and not before: outside sys_pipe the flags of a
\* pipe say which ends are open, and its page lives as long as one is.
THEOREM FilePipeEnds ==
  ASSUME Serial, Atomic
  PROVE  Spec => []PipeEndsMatchFiles
  <1>1. FileInv => PipeEndsMatchFiles
    <2> SUFFICES ASSUME FileInv, NEW g \in Pages, \A p \in Procs : loc[p].pg # g
                 PROVE  /\ page[g].readopen = OpenEnd(g, FALSE)
                        /\ page[g].writeopen = OpenEnd(g, TRUE)
                        /\ page[g].alloc = (page[g].readopen \/ page[g].writeopen)
      BY DEF PipeEndsMatchFiles
    <2>1. PageOK(g) /\ \A p \in Procs : ~Held(p, g)
      BY DEF FileInv, PagesOK, Held
    <2>2. Agrees(g)
      BY <2>1 DEF PageOK
    <2>3. PICK a \in BOOLEAN, r \in BOOLEAN, w \in BOOLEAN :
            a = page[g].alloc /\ r = page[g].readopen /\ w = page[g].writeopen
      BY DEF FileInv, TablesTyped
    <2>4. (r <=> OpenEnd(g, FALSE)) /\ (w <=> OpenEnd(g, TRUE)) /\ (a <=> r \/ w)
      BY <2>2, <2>3 DEF Agrees
    <2>5. OpenEnd(g, FALSE) \in BOOLEAN /\ OpenEnd(g, TRUE) \in BOOLEAN
      BY DEF OpenEnd
    <2>6. r = OpenEnd(g, FALSE) /\ w = OpenEnd(g, TRUE) /\ a = (r \/ w)
      BY <2>4, <2>5, Zenon
    <2> QED
      BY <2>3, <2>6
  <1> QED
    BY <1>1, FileInvariant, PTL

\* iput leaves an inode a reference as long as a file, a current directory or a call uses it.
THEOREM FileInodes ==
  ASSUME Serial, Atomic
  PROVE  Spec => []InodesInUseAreHeld
  <1>1. FileInv => InodesInUseAreHeld
    BY DEF FileInv
  <1> QED
    BY <1>1, FileInvariant, PTL

\* fileclose never meets a file without references, which is where it panics.
THEOREM FileNoPanic ==
  ASSUME Serial, Atomic
  PROVE  Spec => [](broken # "panic")
  <1>1. FileInv => broken # "panic"
    BY DEF FileInv
  <1> QED
    BY <1>1, FileInvariant, PTL

=============================================================================
