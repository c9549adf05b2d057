----------------------------- MODULE FileTable ------------------------------
(***************************************************************************)
(* The table of open files (file.c) and the descriptors of the processes:  *)
(* open, pipe, dup, dup2, fcntl(F_DUPFD), close, fork, exit and chdir, as  *)
(* far as they count references to files, inodes and pipes.                *)
(*                                                                         *)
(* Nothing here takes a lock.  A step is the code up to a point where the  *)
(* timer may strike to some effect or where iput may sleep on the disk.    *)
(* f->ref++ and --f->ref are a load and a store.  Serial says whether      *)
(* filealloc stays out of the windows of other processes: between the test *)
(* of ref and the assignment in filealloc, and between the drop of ref to  *)
(* 0 and the end of fileclose.  Atomic says whether a count stays out of   *)
(* other counts, between the load and the store.  The kernel guarantees    *)
(* neither.  ip->ref, which is counted in the same way, changes in one     *)
(* step here.                                                              *)
(***************************************************************************)
EXTENDS Integers, FiniteSets

CONSTANTS
  NPROC, NFILE, NOFILE, NINODE, NPAGE,
  Dirs,         \* the inodes that are directories
  Serial, Atomic,
  MaxIref,      \* bounds on the references to an inode, and to all of them, at which
  MaxIrefs      \* open is no longer called

ASSUME FileAssumption ==
  /\ NPROC \in Nat /\ NFILE \in Nat /\ NOFILE \in Nat /\ NINODE \in Nat /\ NPAGE \in Nat
  /\ NPROC > 0 /\ NFILE > 0 /\ NOFILE > 0
  /\ Dirs \subseteq 1 .. NINODE /\ Dirs # {} /\ MaxIref \in Nat /\ MaxIrefs \in Nat
  /\ Serial \in BOOLEAN /\ Atomic \in BOOLEAN

Procs == 1 .. NPROC
Files == 1 .. NFILE     \* a pointer to a file is its number, and 0 is null
Fds == 0 .. NOFILE - 1
Inodes == 1 .. NINODE
Pages == 1 .. NPAGE     \* pages for pipes

VARIABLES
  file,     \* ftable.file
  ofile,    \* p->ofile
  cwd,      \* p->cwd
  iref,     \* ip->ref, as far as files and directories hold it
  page,     \* the pipes: allocated, and the two open flags
  stale,    \* history: the files whose pipe was freed under them
  pc, loc,  \* where each process stands, and its local variables
  cnt,      \* cnt[p]: the ref that filedup or fileclose of p has loaded, or NoCount
  broken    \* has fileclose panicked, or pipeclose run on a freed page?

vars == <<file, ofile, cwd, iref, page, stale, pc, loc, broken, cnt>>

FileTypes == {"none", "inode", "pipe", "console"}
NoFile == [ref |-> 0, type |-> "none", ip |-> 0, pipe |-> 0, writable |-> FALSE]
NoPipe == [alloc |-> FALSE, readopen |-> FALSE, writeopen |-> FALSE]
NoLocals == [f |-> 0, g |-> 0, fd |-> 0, new |-> 0, ip |-> 0, pg |-> 0, child |-> 0,
             ret |-> "user"]

NoCount == -1

Least(S) == CHOOSE x \in S : \A y \in S : x <= y

\* userinit: the first process has a console file, which stands for its three, and is in a
\* directory.
Init ==
  /\ file = [f \in Files |-> IF f = 1 THEN [NoFile EXCEPT !.ref = 1, !.type = "console"] ELSE NoFile]
  /\ ofile = [p \in Procs |-> [fd \in Fds |-> IF p = 1 /\ fd = 0 THEN 1 ELSE 0]]
  /\ \E d \in Dirs :
       /\ cwd = [p \in Procs |-> IF p = 1 THEN d ELSE 0]
       /\ iref = [i \in Inodes |-> IF i = d THEN 1 ELSE 0]
  /\ page = [g \in Pages |-> NoPipe]
  /\ pc = [p \in Procs |-> IF p = 1 THEN "user" ELSE "dead"]
  /\ loc = [p \in Procs |-> NoLocals]
  /\ cnt = [p \in Procs |-> NoCount]
  /\ stale = {}
  /\ broken = "no"

-----------------------------------------------------------------------------
\* After a panic, or on a lock that is none, the hart spins with interrupts off.
Within(p, S) == broken = "no" /\ pc[p] \in S
At(p, s) == Within(p, {s})
Goto(p, s) == pc' = [pc EXCEPT ![p] = s]
Return(p) == Goto(p, "user") /\ loc' = [loc EXCEPT ![p] = NoLocals]

FreeFds(p, from) == {fd \in Fds : fd >= from /\ ofile[p][fd] = 0}
SetFd(p, fd, f) == ofile' = [ofile EXCEPT ![p][fd] = f]

Iget(i) == iref' = [iref EXCEPT ![i] = @ + 1]
Iput(i) == iref' = [iref EXCEPT ![i] = @ - 1]

-----------------------------------------------------------------------------
(* filealloc: the search and the assignment. *)

Testing == {"open_test", "rf_test", "wf_test"}
Taking == {"open_take", "rf_take", "wf_take"}
InWindow(q) == pc[q] \in Taking \cup {"clear"}

Unused == {f \in Files : file[f].ref = 0}

\* The file filealloc is to return goes to wf, or to the only or first file.
Target(p) == IF pc[p] \in {"wf_test", "wf_take"} THEN loc[p].g ELSE loc[p].f

FileTest(p) ==
  /\ Within(p, Testing)
  /\ Serial => \A q \in Procs : ~InWindow(q)
  /\ Unused # {}
  /\ \/ /\ At(p, "wf_test")
        /\ loc' = [loc EXCEPT ![p].g = Least(Unused)]
        /\ Goto(p, "wf_take")
     \/ /\ ~At(p, "wf_test")
        /\ loc' = [loc EXCEPT ![p].f = Least(Unused)]
        /\ Goto(p, IF At(p, "rf_test") THEN "rf_take" ELSE "open_take")
  /\ UNCHANGED <<file, ofile, cwd, iref, page, stale, broken, cnt>>

\* Mutant: filealloc returns a file that it has not marked.
FileTakeNoRef(p) ==
  /\ Within(p, Taking)
  /\ Goto(p, CASE At(p, "open_take") -> "open_fd" [] At(p, "rf_take") -> "wf_test" [] OTHER -> "pipe_init")
  /\ UNCHANGED <<file, ofile, cwd, iref, page, loc, stale, broken, cnt>>

FileTake(p) ==
  /\ Within(p, Taking)
  /\ file' = [file EXCEPT ![Target(p)].ref = 1]
  /\ Goto(p, CASE At(p, "open_take") -> "open_fd" [] At(p, "rf_take") -> "wf_test" [] OTHER -> "pipe_init")
  /\ UNCHANGED <<ofile, cwd, iref, page, loc, stale, broken, cnt>>

\* No file is left: sys_open puts the inode, sys_pipe frees the page and closes rf.
FileNone(p) ==
  /\ Within(p, Testing)
  /\ Unused = {}
  /\ \/ /\ At(p, "open_test")
        /\ Iput(loc[p].ip) /\ Return(p)
        /\ UNCHANGED page
     \/ /\ At(p, "rf_test")
        /\ page' = [page EXCEPT ![loc[p].pg] = NoPipe]
        /\ Return(p)
        /\ UNCHANGED iref
     \/ /\ At(p, "wf_test")
        /\ page' = [page EXCEPT ![loc[p].pg] = NoPipe]
        /\ Goto(p, "drop")
        /\ UNCHANGED <<iref, loc>>
  /\ UNCHANGED <<file, ofile, cwd, stale, broken, cnt>>

-----------------------------------------------------------------------------
(* sys_open, from the inode that namei or create returns. *)

\* The references to inodes, no more than MaxIrefs of each.
Irefs == Cardinality({x \in Inodes \X (1 .. MaxIrefs) : x[2] <= iref[x[1]]})

Open(p, i) ==
  /\ At(p, "user")
  /\ iref[i] < MaxIref /\ Irefs < MaxIrefs
  /\ Iget(i)
  /\ loc' = [loc EXCEPT ![p].ip = i]
  /\ Goto(p, "open_test")
  /\ UNCHANGED <<file, ofile, cwd, page, stale, broken, cnt>>

\* fdalloc.  When it fails, fileclose meets a file without a type and puts no inode.
OpenFd(p) ==
  /\ At(p, "open_fd")
  /\ \/ /\ FreeFds(p, 0) # {}
        /\ SetFd(p, Least(FreeFds(p, 0)), loc[p].f)
        /\ Goto(p, "open_init")
     \/ /\ FreeFds(p, 0) = {}
        /\ Goto(p, "drop")
        /\ UNCHANGED ofile
  /\ UNCHANGED <<file, cwd, iref, page, loc, stale, broken, cnt>>

OpenInit(p) ==
  /\ At(p, "open_init")
  /\ file' = [file EXCEPT ![loc[p].f].type = "inode", ![loc[p].f].ip = loc[p].ip]
  /\ Return(p)
  /\ UNCHANGED <<ofile, cwd, iref, page, stale, broken, cnt>>

-----------------------------------------------------------------------------
(* f->ref++ of filedup and --f->ref of fileclose: the load, and the store.  The test of  *)
(* fileclose for a file without references is made together with the load.               *)

Counting(p) ==
  \/ pc[p] \in {"dup_ref", "drop"}
  \/ pc[p] = "fork" /\ loc[p].fd < NOFILE /\ ofile[p][loc[p].fd] # 0
CountedFile(p) == IF pc[p] = "fork" THEN ofile[p][loc[p].fd] ELSE loc[p].f

LoadRef(p) ==
  /\ broken = "no" /\ Counting(p) /\ cnt[p] = NoCount
  /\ Atomic => \A q \in Procs : cnt[q] = NoCount
  /\ cnt' = [cnt EXCEPT ![p] = file[CountedFile(p)].ref]
  /\ UNCHANGED <<file, ofile, cwd, iref, page, stale, pc, loc, broken>>

Store(p, f, n) ==
  /\ file' = [file EXCEPT ![f].ref = n]
  /\ cnt' = [cnt EXCEPT ![p] = NoCount]

-----------------------------------------------------------------------------
(* fileclose of loc[p].f; the caller goes on at loc[p].ret. *)

\* pipeclose: clears the flag of the end, and frees the page with the second one.
Pipeclose(pipe, w) ==
  LET left == IF w THEN [page[pipe] EXCEPT !.writeopen = FALSE]
                   ELSE [page[pipe] EXCEPT !.readopen = FALSE]
  IN  IF left.readopen \/ left.writeopen THEN left ELSE NoPipe

Resume(p) ==
  /\ Goto(p, loc[p].ret)
  /\ loc' = IF loc[p].ret = "user" THEN [loc EXCEPT ![p] = NoLocals] ELSE loc

\* Others still use the file.
CloseDrop(p) ==
  /\ At(p, "drop")
  /\ cnt[p] > 1
  /\ Store(p, loc[p].f, cnt[p] - 1)
  /\ Resume(p)
  /\ UNCHANGED <<ofile, cwd, iref, page, stale, broken>>

\* Mutant: any last close of a pipe closes its reading end.
CloseLastWrongEnd(p) ==
  LET f == file[loc[p].f] IN
  /\ At(p, "drop")
  /\ cnt[p] \in {0, 1}
  /\ Store(p, loc[p].f, 0)
  /\ IF f.type = "inode" THEN Iput(f.ip) ELSE UNCHANGED iref
  /\ IF f.type = "pipe" THEN page' = [page EXCEPT ![f.pipe] = Pipeclose(f.pipe, FALSE)]
                        ELSE UNCHANGED page
  /\ Goto(p, "clear")
  /\ UNCHANGED <<ofile, cwd, loc, stale, broken>>

\* The last reference: ref becomes 0, then iput (which may sleep) or pipeclose.  A file
\* without references is a panic; the lock of a freed page is not a lock any more.
CloseLast(p) ==
  LET f == file[loc[p].f] IN
  /\ At(p, "drop")
  /\ cnt[p] \in {0, 1}
  /\ Store(p, loc[p].f, 0)
  /\ IF f.type = "inode" THEN Iput(f.ip) ELSE UNCHANGED iref
  /\ IF f.type = "pipe" THEN page' = [page EXCEPT ![f.pipe] = Pipeclose(f.pipe, f.writable)]
                        ELSE UNCHANGED page
  /\ broken' = CASE cnt[p] = 0 -> "panic"
                 [] loc[p].f \in stale -> "freed"
                 [] OTHER -> broken
  /\ Goto(p, "clear")
  /\ UNCHANGED <<ofile, cwd, stale, loc>>

\* The code leaves pipe and writable as they are, and nobody reads them without a type.
CloseClear(p) ==
  /\ At(p, "clear")
  /\ file' = [file EXCEPT ![loc[p].f] = [NoFile EXCEPT !.ref = file[loc[p].f].ref]]
  /\ Resume(p)
  /\ UNCHANGED <<ofile, cwd, iref, page, stale, broken, cnt>>

-----------------------------------------------------------------------------
Close(p, fd) ==
  /\ At(p, "user")
  /\ ofile[p][fd] # 0
  /\ SetFd(p, fd, 0)
  /\ loc' = [loc EXCEPT ![p].f = ofile[p][fd]]
  /\ Goto(p, "drop")
  /\ UNCHANGED <<file, cwd, iref, page, stale, broken, cnt>>

\* sys_dup (from = 0) and fcntl(F_DUPFD): the descriptor first, then the count.
Dup(p, old, from) ==
  /\ At(p, "user")
  /\ ofile[p][old] # 0
  /\ FreeFds(p, from) # {}
  /\ SetFd(p, Least(FreeFds(p, from)), ofile[p][old])
  /\ loc' = [loc EXCEPT ![p].f = ofile[p][old], ![p].fd = Least(FreeFds(p, from))]
  /\ Goto(p, "dup_ref")
  /\ UNCHANGED <<file, cwd, iref, page, stale, broken, cnt>>

Filedup(p) ==
  /\ At(p, "dup_ref")
  /\ cnt[p] # NoCount
  /\ Store(p, loc[p].f, cnt[p] + 1)
  /\ Return(p)
  /\ UNCHANGED <<ofile, cwd, iref, page, stale, broken>>

\* sys_dup2 closes the file it replaces before it takes the descriptor off it.
Dup2(p, old, new) ==
  /\ At(p, "user")
  /\ old # new
  /\ ofile[p][old] # 0
  /\ loc' = [loc EXCEPT ![p].fd = old, ![p].new = new, ![p].f = ofile[p][new], ![p].ret = "dup2_set"]
  /\ Goto(p, IF ofile[p][new] # 0 THEN "drop" ELSE "dup2_set")
  /\ UNCHANGED <<file, ofile, cwd, iref, page, stale, broken, cnt>>

Dup2Set(p) ==
  /\ At(p, "dup2_set")
  /\ SetFd(p, loc[p].new, ofile[p][loc[p].fd])
  /\ loc' = [loc EXCEPT ![p] = [NoLocals EXCEPT !.f = ofile[p][loc[p].fd], !.fd = loc[p].new]]
  /\ Goto(p, "dup_ref")
  /\ UNCHANGED <<file, cwd, iref, page, stale, broken, cnt>>

-----------------------------------------------------------------------------
(* sys_pipe *)

Kalloc(p) ==
  /\ At(p, "user")
  /\ \E g \in Pages :
       /\ ~page[g].alloc
       /\ page' = [page EXCEPT ![g] = [alloc |-> TRUE, readopen |-> TRUE, writeopen |-> TRUE]]
       /\ loc' = [loc EXCEPT ![p].pg = g]
  /\ Goto(p, "rf_test")
  /\ UNCHANGED <<file, ofile, cwd, iref, stale, broken, cnt>>

PipeInit(p) ==
  /\ At(p, "pipe_init")
  /\ file' = [file EXCEPT ![loc[p].f] = [@ EXCEPT !.type = "pipe", !.pipe = loc[p].pg, !.writable = FALSE],
                          ![loc[p].g] = [@ EXCEPT !.type = "pipe", !.pipe = loc[p].pg, !.writable = TRUE]]
  /\ Goto(p, "pipe_fds")
  /\ UNCHANGED <<ofile, cwd, iref, page, loc, stale, broken, cnt>>

PipeFds(p) ==
  LET fd0 == Least(FreeFds(p, 0))
      fd1 == Least(FreeFds(p, 0) \ {fd0})
  IN
  /\ At(p, "pipe_fds")
  /\ Cardinality(FreeFds(p, 0)) >= 2
  /\ ofile' = [ofile EXCEPT ![p][fd0] = loc[p].f, ![p][fd1] = loc[p].g]
  /\ Return(p)
  /\ UNCHANGED <<file, cwd, iref, page, stale, broken, cnt>>

\* No descriptor, or the user's array is not mapped: the cleanup at bad frees the
\* page and closes rf (and then wf, which this model does not reach: the first word of
\* the page is the lock, and kfree has put the link of the free list there).
PipeBad(p) ==
  /\ At(p, "pipe_fds")
  /\ page' = [page EXCEPT ![loc[p].pg] = NoPipe]
  /\ stale' = stale \cup {f \in Files : file[f].ref > 0 /\ file[f].type = "pipe" /\ file[f].pipe = loc[p].pg}
  /\ Goto(p, "drop")
  /\ UNCHANGED <<file, ofile, cwd, iref, loc, broken, cnt>>

-----------------------------------------------------------------------------
(* sys_fork copies descriptor after descriptor; sys_exit closes them. *)

Fork(p, c) ==
  /\ At(p, "user")
  /\ At(c, "dead")
  /\ pc' = [pc EXCEPT ![p] = "fork", ![c] = "born"]
  /\ loc' = [loc EXCEPT ![p].child = c]
  /\ UNCHANGED <<file, ofile, cwd, iref, page, stale, broken, cnt>>

\* Mutant: the child shares the files without counting.
ForkCopyNoDup(p) ==
  LET f == ofile[p][loc[p].fd] IN
  /\ At(p, "fork")
  /\ loc[p].fd < NOFILE
  /\ IF f # 0 THEN SetFd(loc[p].child, loc[p].fd, f) ELSE UNCHANGED ofile
  /\ cnt' = [cnt EXCEPT ![p] = NoCount]
  /\ loc' = [loc EXCEPT ![p].fd = @ + 1]
  /\ UNCHANGED <<file, cwd, iref, page, pc, stale, broken>>

ForkCopy(p) ==
  LET f == ofile[p][loc[p].fd] IN
  /\ At(p, "fork")
  /\ loc[p].fd < NOFILE
  /\ IF f # 0 THEN /\ cnt[p] # NoCount
                   /\ SetFd(loc[p].child, loc[p].fd, f)
                   /\ Store(p, f, cnt[p] + 1)
              ELSE UNCHANGED <<ofile, file, cnt>>
  /\ loc' = [loc EXCEPT ![p].fd = @ + 1]
  /\ UNCHANGED <<cwd, iref, page, pc, stale, broken>>

\* Mutant: the child takes over the directory without idup.
ForkEndNoDup(p) ==
  /\ At(p, "fork")
  /\ loc[p].fd = NOFILE
  /\ cwd' = [cwd EXCEPT ![loc[p].child] = cwd[p]]
  /\ pc' = [pc EXCEPT ![p] = "user", ![loc[p].child] = "user"]
  /\ loc' = [loc EXCEPT ![p] = NoLocals]
  /\ UNCHANGED <<iref, file, ofile, page, stale, broken, cnt>>

ForkEnd(p) ==
  /\ At(p, "fork")
  /\ loc[p].fd = NOFILE
  /\ cwd' = [cwd EXCEPT ![loc[p].child] = cwd[p]]
  /\ Iget(cwd[p])
  /\ pc' = [pc EXCEPT ![p] = "user", ![loc[p].child] = "user"]
  /\ loc' = [loc EXCEPT ![p] = NoLocals]
  /\ UNCHANGED <<file, ofile, page, stale, broken, cnt>>

Exit(p) ==
  /\ At(p, "user")
  /\ Goto(p, "exit")
  /\ UNCHANGED <<file, ofile, cwd, iref, page, loc, stale, broken, cnt>>

OpenFds(p) == {fd \in Fds : ofile[p][fd] # 0}

ExitClose(p) ==
  /\ At(p, "exit")
  /\ OpenFds(p) # {}
  /\ LET fd == Least(OpenFds(p)) IN
       loc' = [loc EXCEPT ![p].fd = fd, ![p].f = ofile[p][fd], ![p].ret = "exit_clear"]
  /\ Goto(p, "drop")
  /\ UNCHANGED <<file, ofile, cwd, iref, page, stale, broken, cnt>>

ExitClear(p) ==
  /\ At(p, "exit_clear")
  /\ SetFd(p, loc[p].fd, 0)
  /\ loc' = [loc EXCEPT ![p] = NoLocals]
  /\ Goto(p, "exit")
  /\ UNCHANGED <<file, cwd, iref, page, stale, broken, cnt>>

ExitCwd(p) ==
  /\ At(p, "exit")
  /\ OpenFds(p) = {}
  /\ Iput(cwd[p])
  /\ cwd' = [cwd EXCEPT ![p] = 0]
  /\ Goto(p, "dead")
  /\ UNCHANGED <<file, ofile, page, loc, stale, broken, cnt>>

-----------------------------------------------------------------------------
(* sys_chdir takes the new directory, puts the old one and only then stores. *)

Chdir(p, i) ==
  /\ At(p, "user")
  /\ Iget(i)
  /\ loc' = [loc EXCEPT ![p].ip = i]
  /\ Goto(p, "chdir_put")
  /\ UNCHANGED <<file, ofile, cwd, page, stale, broken, cnt>>

\* It is no directory, or its path has become too long.
ChdirFail(p) ==
  /\ At(p, "chdir_put")
  /\ Iput(loc[p].ip)
  /\ Return(p)
  /\ UNCHANGED <<file, ofile, cwd, page, stale, broken, cnt>>

ChdirPut(p) ==
  /\ At(p, "chdir_put")
  /\ loc[p].ip \in Dirs
  /\ Iput(cwd[p])
  /\ Goto(p, "chdir_set")
  /\ UNCHANGED <<file, ofile, cwd, page, loc, stale, broken, cnt>>

ChdirSet(p) ==
  /\ At(p, "chdir_set")
  /\ cwd' = [cwd EXCEPT ![p] = loc[p].ip]
  /\ Return(p)
  /\ UNCHANGED <<file, ofile, iref, page, stale, broken, cnt>>

-----------------------------------------------------------------------------
Step(p) ==
  \/ FileTest(p) \/ FileTake(p) \/ FileNone(p)
  \/ OpenFd(p) \/ OpenInit(p)
  \/ LoadRef(p)
  \/ CloseDrop(p) \/ CloseLast(p) \/ CloseClear(p)
  \/ Filedup(p) \/ Dup2Set(p)
  \/ PipeInit(p) \/ PipeFds(p) \/ PipeBad(p)
  \/ ForkCopy(p) \/ ForkEnd(p)
  \/ ExitClose(p) \/ ExitClear(p) \/ ExitCwd(p)
  \/ ChdirFail(p) \/ ChdirPut(p) \/ ChdirSet(p)

Call(p) ==
  \/ \E i \in Inodes : Chdir(p, i) \/ Open(p, i)
  \/ \E fd \in Fds : Close(p, fd) \/ \E to \in Fds : Dup(p, fd, to) \/ Dup2(p, fd, to)
  \/ \E c \in Procs : Fork(p, c)
  \/ Kalloc(p) \/ Exit(p)

Next == \E p \in Procs : Call(p) \/ Step(p)

Spec == Init /\ [][Next]_vars

-----------------------------------------------------------------------------
PCs == Testing \cup Taking \cup
  {"dead", "born", "user", "open_fd", "open_init", "pipe_init", "pipe_fds", "drop", "clear",
   "dup_ref", "dup2_set", "fork", "exit", "exit_clear", "chdir_put", "chdir_set"}

\* The tables and the local variables have their types: pointers point into their tables
\* or are null.
TablesTyped ==
  /\ file \in [Files -> [ref : Nat, type : FileTypes, ip : 0 .. NINODE, pipe : 0 .. NPAGE,
                         writable : BOOLEAN]]
  /\ ofile \in [Procs -> [Fds -> 0 .. NFILE]]
  /\ cwd \in [Procs -> 0 .. NINODE]
  /\ iref \in [Inodes -> Nat]
  /\ page \in [Pages -> [alloc : BOOLEAN, readopen : BOOLEAN, writeopen : BOOLEAN]]
  /\ pc \in [Procs -> PCs]
  /\ loc \in [Procs -> [f : 0 .. NFILE, g : 0 .. NFILE, fd : 0 .. NOFILE, new : 0 .. NOFILE,
                        ip : 0 .. NINODE, pg : 0 .. NPAGE, child : 0 .. NPROC,
                        ret : {"user", "dup2_set", "exit_clear"}]]
  /\ stale \subseteq Files
  /\ broken \in {"no", "panic", "freed"}

\* And so has what a count has loaded.
TypeOK == TablesTyped /\ cnt \in [Procs -> Nat \cup {NoCount}]

\* A process in the middle of a call that has f in its hands.
Busy(f) == \E p \in Procs : f \in {loc[p].f, loc[p].g}

\* ref counts the descriptors (fs.h: "ref==2" for a file shared after fork): whenever no
\* call is working on a file, as many descriptors lead to it as ref says, through every
\* interleaving of open, dup, dup2, close, fork and exit that keeps one count out of
\* another (Atomic) and filealloc out of its windows (Serial).
RefsAreCounted ==
  \A f \in Files : Busy(f) \/
    file[f].ref = Cardinality({d \in Procs \X Fds : ofile[d[1]][d[2]] = f})

\* What a process can reach from user mode is an open file: no close by another process
\* takes away a file that a descriptor still leads to.
DescriptorsAreLive ==
  \A p \in Procs, fd \in Fds :
    pc[p] = "user" /\ ofile[p][fd] # 0 => file[ofile[p][fd]].ref > 0 /\ file[ofile[p][fd]].type # "none"

OpenEnd(g, w) == \E f \in Files :
  file[f].ref > 0 /\ file[f].type = "pipe" /\ file[f].pipe = g /\ file[f].writable = w

\* A reader of a pipe sees end of file when the last writing file is gone and not
\* before, and the page lives exactly as long as a file leads to it.
PipeEndsMatchFiles ==
  \A g \in Pages : (\E p \in Procs : loc[p].pg = g) \/
    /\ page[g].readopen = OpenEnd(g, FALSE)
    /\ page[g].writeopen = OpenEnd(g, TRUE)
    /\ page[g].alloc = (page[g].readopen \/ page[g].writeopen)

InodeUsers(i) ==
    Cardinality({f \in Files : file[f].ref > 0 /\ file[f].type = "inode" /\ file[f].ip = i})
  + Cardinality({p \in Procs : cwd[p] = i /\ pc[p] # "chdir_set"})
  + Cardinality({p \in Procs : loc[p].ip = i /\ pc[p] \in {"open_test", "open_take", "open_fd", "open_init",
                                                         "chdir_put", "chdir_set"}})

\* The cache slot of an inode is never free while a file, a current directory or a call
\* uses the inode: iget may reuse a slot once its ref is 0.  (It may stay occupied for
\* ever: sys_open without a free descriptor loses a reference.)
InodesInUseAreHeld == \A i \in Inodes : iref[i] >= InodeUsers(i)

\* The cleanup of sys_pipe gives back what it took ("must hand back all the resources
\* allocated before, to prevent a memory leak", sysproc.c:990, translated): pipeclose
\* never works on a page that kfree has taken.
PipeCleanupSound == broken # "freed"
=============================================================================
