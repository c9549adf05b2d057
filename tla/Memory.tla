------------------------------ MODULE Memory --------------------------------
(***************************************************************************)
(* Physical pages: the free list of kalloc.c and what fork, exec, sbrk,    *)
(* exit and wait do with pages (vm.c, proc.c, sysproc.c).                  *)
(*                                                                         *)
(* A page table is a root, a page of tables for the trampoline, one for    *)
(* the trapframe where it is not near the trampoline, and one for the      *)
(* user's addresses; where two levels of tables are missing they count as  *)
(* one page.  Sizes are in bytes, so that rounding to pages takes place.   *)
(* A process may lose the processor at every step.  kalloc reads the head  *)
(* of the list and unlinks it in two steps; Serial says whether a process  *)
(* is left alone in between, which the code does not ensure.  A process    *)
(* that panics stays where it is; interrupts are on, so the others go on.  *)
(***************************************************************************)
EXTENDS Integers, FiniteSets

CONSTANTS
  NPROC, NPAGE, PGSIZE,
  MaxSz,    \* bound on the size of a process, in bytes
  MaxCalls, \* bound on the number of system calls
  ImagePages, \* the pages exec's image spans, with its exit stub and its stack
  Near,     \* the pages in the 2 MB of the trampoline, which share its tables
  Spared,   \* those below 0x80100000, which proc_freepagetable does not free
  Serial

ASSUME MemoryAssumption ==
  /\ NPROC \in Nat \ {0} /\ PGSIZE \in Nat \ {0}
  /\ NPAGE \in Nat /\ NPAGE >= 8
  /\ MaxSz \in Nat /\ MaxSz >= 2 * PGSIZE
  /\ ImagePages \in Nat \ {0} /\ ImagePages * PGSIZE <= MaxSz
  /\ Spared \subseteq Near /\ Near \subseteq 9 .. NPAGE
  /\ MaxCalls \in Nat /\ Serial \in BOOLEAN

Procs == 1 .. NPROC
Pages == 1 .. NPAGE
None == NPAGE + 1           \* what kalloc returns when there is no page

\* PGROUNDUP, as a number of pages.
Up(sz) == (sz + PGSIZE - 1) \div PGSIZE
VPages == 0 .. Up(MaxSz) - 1

VARIABLES
  free,     \* the pages on free_mem_list
  status,   \* of each slot: "free", "alloc", "used" or "zombie"
  mem,      \* mem[p]: trapframe, kernel stack and address space of p
  pc, loc,
  calls,    \* the number of system calls made
  lost      \* history: pages nothing refers to any more

vars == <<free, status, mem, pc, loc, calls, lost>>

\* map[v] is the page at the user's virtual page v, or 0; low is the one of the tables that
\* serves the user's addresses, or 0.  History: holes are the virtual pages below the size
\* in which the program has no segment.
NoSpace == [root |-> 0, tables |-> {}, low |-> 0, map |-> [v \in VPages |-> 0], holes |-> {}, sz |-> 0]
NoMem == [tf |-> 0, kstack |-> 0, as |-> NoSpace]

\* job is the system call, np the child of fork, tmp the pages of exec's arguments, as the
\* address space being made, v the next page of it and end the size it will have, hold a
\* page not yet mapped, res the list's head as kalloc read it and pg what kalloc returned.
NoLocals == [job |-> "none", np |-> 0, tmp |-> {}, as |-> NoSpace, v |-> 0, end |-> 0,
             hold |-> 0, res |-> 0, pg |-> 0]

Mapped(as) == {v \in VPages : as.map[v] # 0}
SpacePages(as) == ({as.root} \cup as.tables \cup {as.map[v] : v \in VPages}) \ {0}
MemPages(m) == ({m.tf, m.kstack} \ {0}) \cup SpacePages(m.as)

\* The pages in the hands of p's system call (sbrk maps into the page table p has).
LocalPages(p) ==
  LET l == loc[p] IN
  l.tmp \cup ({l.hold, l.pg} \ {0, None}) \cup
    (SpacePages(l.as) \ (IF l.job = "grow" THEN SpacePages(mem[p].as) ELSE {}))

\* userinit: the first process, with one page of code and one of stack.
Init ==
  /\ free = 9 .. NPAGE
  /\ status = [p \in Procs |-> IF p = 1 THEN "used" ELSE "free"]
  /\ mem = [p \in Procs |->
       IF p # 1 THEN NoMem
       ELSE [tf |-> 1, kstack |-> 2,
             as |-> [root |-> 3, tables |-> {4, 5, 6}, low |-> 6, holes |-> {}, sz |-> 2 * PGSIZE,
                     map |-> [v \in VPages |-> CASE v = 0 -> 7 [] v = 1 -> 8 [] OTHER -> 0]]]]
  /\ pc = [p \in Procs |-> "idle"]
  /\ loc = [p \in Procs |-> NoLocals]
  /\ calls = 0
  /\ lost = {}

-----------------------------------------------------------------------------
At(p, s) == pc[p] = s
Goto(p, s) == pc' = [pc EXCEPT ![p] = s]
Done(p) == Goto(p, "idle") /\ loc' = [loc EXCEPT ![p] = NoLocals]
Idle(p) == status[p] = "used" /\ At(p, "idle")
Enter(p) == Idle(p) /\ calls < MaxCalls /\ calls' = calls + 1

\* Nobody else is in the middle of kalloc, or this does not matter.
Undisturbed(p) == Serial => \A q \in Procs \ {p} : loc[q].res = 0

\* kfree of every page of S.
Kfree(p, S) == Undisturbed(p) /\ free' = free \cup S

\* The head of the list; the order of the list is not kept.
Head == CHOOSE g \in free : TRUE

\* kalloc, for the steps that ask for a page.
Asking == {"tf", "kstack", "arg", "root", "high", "trap", "page", "low"}

KallocRead(p) ==
  /\ pc[p] \in Asking /\ loc[p].pg = 0 /\ loc[p].res = 0
  /\ Undisturbed(p)
  /\ loc' = IF free = {} THEN [loc EXCEPT ![p].pg = None]
                            ELSE [loc EXCEPT ![p].res = Head]
  /\ UNCHANGED <<free, status, mem, pc, lost, calls>>

KallocTake(p) ==
  /\ loc[p].res # 0 /\ free # {}
  /\ free' = free \ {Head}
  /\ loc' = [loc EXCEPT ![p].pg = loc[p].res, ![p].res = 0]
  /\ UNCHANGED <<status, mem, pc, lost, calls>>

Failed(p) == loc[p].pg = None
Granted(p) == loc[p].pg \in Pages

-----------------------------------------------------------------------------
(* sys_fork: allocproc with the trapframe, the kernel stack, then a page table.   *)
(* allocproc has interrupts off; its steps are apart here, which only adds to the *)
(* interleavings.                                                                 *)

Fork(p) ==
  /\ Enter(p)
  /\ \E np \in Procs :
       /\ status[np] = "free" /\ \A q \in 1 .. np - 1 : status[q] # "free"
       /\ status' = [status EXCEPT ![np] = "alloc"]
       /\ loc' = [loc EXCEPT ![p].job = "fork", ![p].np = np, ![p].end = mem[p].as.sz]
  /\ Goto(p, "tf")
  /\ UNCHANGED <<free, mem, lost>>

ForkTrapframe(p) ==
  /\ At(p, "tf") /\ Granted(p)
  /\ mem' = [mem EXCEPT ![loc[p].np].tf = loc[p].pg]
  /\ loc' = [loc EXCEPT ![p].pg = 0]
  /\ Goto(p, "kstack")
  /\ UNCHANGED <<free, status, lost, calls>>

ForkKstack(p) ==
  /\ At(p, "kstack") /\ Granted(p)
  /\ mem' = [mem EXCEPT ![loc[p].np].kstack = loc[p].pg]
  /\ loc' = [loc EXCEPT ![p].pg = 0]
  /\ Goto(p, "root")
  /\ UNCHANGED <<free, status, lost, calls>>

\* Without a page for any of these the child gives back what it has, and its slot.
ForkFail(p) ==
  /\ loc[p].job = "fork" /\ Failed(p)
  /\ pc[p] \in {"tf", "kstack", "root", "high", "trap"}
  /\ Kfree(p, ({mem[loc[p].np].tf, mem[loc[p].np].kstack}) \ {0})
  /\ mem' = [mem EXCEPT ![loc[p].np] = NoMem]
  /\ status' = [status EXCEPT ![loc[p].np] = "free"]
  /\ lost' = lost \cup SpacePages(loc[p].as)
  /\ Done(p)
  /\ UNCHANGED calls

-----------------------------------------------------------------------------
(* proc_pagetable; when it fails after its first page, what it has is forgotten. *)

Root(p) ==
  /\ At(p, "root") /\ Granted(p)
  /\ loc' = [loc EXCEPT ![p].as.root = loc[p].pg, ![p].pg = 0]
  /\ Goto(p, "high")
  /\ UNCHANGED <<free, status, mem, lost, calls>>

\* The process the page table is for.
Owner(p) == IF loc[p].job = "fork" THEN loc[p].np ELSE p

\* The trampoline; the trapframe too, where it is near.
High(p) ==
  /\ At(p, "high") /\ Granted(p)
  /\ loc' = [loc EXCEPT ![p].as.tables = @ \cup {loc[p].pg}, ![p].pg = 0]
  /\ Goto(p, IF mem[Owner(p)].tf \in Near THEN "next" ELSE "trap")
  /\ UNCHANGED <<free, status, mem, lost, calls>>

Trap(p) ==
  /\ At(p, "trap") /\ Granted(p)
  /\ loc' = [loc EXCEPT ![p].as.tables = @ \cup {loc[p].pg}, ![p].pg = 0]
  /\ Goto(p, "next")
  /\ UNCHANGED <<free, status, mem, lost, calls>>

-----------------------------------------------------------------------------
(* The loops of uvmcopy, exec and uvmalloc over pages: kalloc, then mappages, whose *)
(* walk may have to kalloc a table.                                                 *)

\* uvmcopy skips what the parent has not mapped, exec what is in no segment.
More(p) == loc[p].v < Up(loc[p].end)
Skip(p) == IF loc[p].job = "fork" THEN loc[p].v \notin Mapped(mem[p].as)
                                  ELSE loc[p].v \in loc[p].as.holes

NextPage(p) ==
  /\ At(p, "next") /\ More(p)
  /\ IF Skip(p) THEN loc' = [loc EXCEPT ![p].v = @ + 1] /\ UNCHANGED pc
                ELSE Goto(p, "page") /\ UNCHANGED loc
  /\ UNCHANGED <<free, status, mem, lost, calls>>

\* mappages of page g at loc[p].v.
MapAt(l, g) == [l EXCEPT !.as.map[l.v] = g, !.v = @ + 1, !.hold = 0, !.pg = 0]

Page(p) ==
  /\ At(p, "page") /\ Granted(p)
  /\ IF loc[p].as.low # 0
     THEN loc' = [loc EXCEPT ![p] = MapAt(loc[p], loc[p].pg)] /\ Goto(p, "next")
     ELSE loc' = [loc EXCEPT ![p].hold = loc[p].pg, ![p].pg = 0] /\ Goto(p, "low")
  /\ UNCHANGED <<free, status, mem, lost, calls>>

Low(p) ==
  /\ At(p, "low") /\ Granted(p)
  /\ loc' = [loc EXCEPT ![p] = [MapAt(loc[p], loc[p].hold) EXCEPT
                                  !.as.tables = @ \cup {loc[p].pg}, !.as.low = loc[p].pg]]
  /\ Goto(p, "next")
  /\ UNCHANGED <<free, status, mem, lost, calls>>

\* uvmcopy fails: sys_fork returns, and the child's slot stays as it is.
UvmcopyFail(p) ==
  /\ loc[p].job = "fork" /\ Failed(p)
  /\ pc[p] \in {"page", "low"}
  /\ Kfree(p, {loc[p].hold} \ {0})
  /\ mem' = [mem EXCEPT ![loc[p].np].as = loc[p].as]
  /\ Done(p)
  /\ UNCHANGED <<status, lost, calls>>

ForkDone(p) ==
  /\ loc[p].job = "fork" /\ At(p, "next") /\ ~More(p)
  /\ mem' = [mem EXCEPT ![loc[p].np].as = [loc[p].as EXCEPT !.sz = mem[p].as.sz,
                                                              !.holes = mem[p].as.holes]]
  /\ status' = [status EXCEPT ![loc[p].np] = "used"]
  /\ Done(p)
  /\ UNCHANGED <<free, lost, calls>>

-----------------------------------------------------------------------------
(* sys_exec: a page for each argument, then the new image, then the change. *)

\* One argument.  No segment need be at the first page or between two others; the exit
\* stub and the stack come last.
Exec(p, holes) ==
  /\ Enter(p)
  /\ loc' = [loc EXCEPT ![p].job = "exec", ![p].as.holes = holes, ![p].end = ImagePages * PGSIZE]
  /\ Goto(p, "arg")
  /\ UNCHANGED <<free, status, mem, lost>>

ExecArg(p) ==
  /\ At(p, "arg") /\ Granted(p)
  /\ loc' = [loc EXCEPT ![p].tmp = @ \cup {loc[p].pg}, ![p].pg = 0]
  /\ Goto(p, "root")
  /\ UNCHANGED <<free, status, mem, lost, calls>>

UserPages(as) == {as.map[v] : v \in VPages} \ {0}

\* Mutant: the trapframe, which the page table maps, is freed with it.
FreepagetableAll(p, as) ==
  (({as.root} \cup as.tables) \ {0}) \cup ((UserPages(as) \cup {mem[p].tf}) \ Spared)

\* What proc_freepagetable frees: the tables, and of the pages they map those that are
\* neither below 0x80100000 nor the trapframe of the caller.
Freepagetable(p, as) ==
  (({as.root} \cup as.tables) \ {0}) \cup
    {g \in UserPages(as) \cup {mem[p].tf} : g \notin Spared /\ g # mem[p].tf}

\* Mutant: the arguments' pages are not given back on failure.
ExecFailKeepsArgs(p) ==
  /\ loc[p].job = "exec"
  /\ \/ Failed(p)
     \/ At(p, "root") /\ loc[p].pg = 0 /\ loc[p].res = 0
     \/ At(p, "next")
  /\ IF pc[p] \in {"high", "trap"}
     THEN Kfree(p, {}) /\ lost' = lost \cup SpacePages(loc[p].as)
     ELSE /\ Kfree(p, ({loc[p].hold} \ {0}) \cup Freepagetable(p, loc[p].as))
          /\ lost' = lost \cup (UserPages(loc[p].as) \cap Spared)
  /\ Done(p)
  /\ UNCHANGED <<status, mem, calls>>

\* bad: there is no page, or the file or its contents are not as they should be.  There is
\* a page table to free once proc_pagetable has returned one.
ExecFail(p) ==
  /\ loc[p].job = "exec"
  /\ \/ Failed(p)
     \/ At(p, "root") /\ loc[p].pg = 0 /\ loc[p].res = 0
     \/ At(p, "next")
  /\ IF pc[p] \in {"high", "trap"}
     THEN Kfree(p, loc[p].tmp) /\ lost' = lost \cup SpacePages(loc[p].as)
     ELSE /\ Kfree(p, loc[p].tmp \cup ({loc[p].hold} \ {0}) \cup Freepagetable(p, loc[p].as))
          /\ lost' = lost \cup (UserPages(loc[p].as) \cap Spared)
  /\ Done(p)
  /\ UNCHANGED <<status, mem, calls>>

ExecDone(p) ==
  /\ loc[p].job = "exec" /\ At(p, "next") /\ ~More(p)
  /\ mem' = [mem EXCEPT ![p].as = [loc[p].as EXCEPT !.sz = loc[p].end]]
  /\ Kfree(p, loc[p].tmp \cup Freepagetable(p, mem[p].as))
  /\ lost' = lost \cup (UserPages(mem[p].as) \cap Spared)
  /\ Done(p)
  /\ UNCHANGED <<status, calls>>

-----------------------------------------------------------------------------
(* sys_sbrk: growproc with uvmalloc or uvmdealloc. *)

\* uvmdealloc to the size sz: the pages it unmaps, and what is left.
Unmapped(as, sz) == {as.map[v] : v \in {u \in VPages : Up(sz) <= u /\ u < Up(as.sz)}} \ {0}
Shrunk(as, sz) == [as EXCEPT !.sz = sz, !.map = [v \in VPages |-> IF v >= Up(sz) THEN 0 ELSE @[v]]]

Grow(p, n) ==
  /\ Enter(p) /\ mem[p].as.sz + n <= MaxSz
  /\ loc' = [loc EXCEPT ![p].job = "grow", ![p].as = mem[p].as, ![p].v = Up(mem[p].as.sz),
                        ![p].end = mem[p].as.sz + n]
  /\ Goto(p, "next")
  /\ UNCHANGED <<free, status, mem, lost>>

GrowDone(p) ==
  /\ loc[p].job = "grow" /\ At(p, "next") /\ ~More(p)
  /\ mem' = [mem EXCEPT ![p].as = [loc[p].as EXCEPT !.sz = loc[p].end]]
  /\ Done(p)
  /\ UNCHANGED <<free, status, lost, calls>>

\* Mutant: the pages mapped before the failure stay.
GrowFailKeeps(p) ==
  /\ loc[p].job = "grow" /\ Failed(p)
  /\ Kfree(p, {loc[p].hold} \ {0})
  /\ mem' = [mem EXCEPT ![p].as = loc[p].as]
  /\ Done(p)
  /\ UNCHANGED <<status, lost, calls>>

\* uvmalloc unmaps what it has mapped; a page of tables stays.
GrowFail(p) ==
  LET full == [loc[p].as EXCEPT !.sz = loc[p].v * PGSIZE] IN
  /\ loc[p].job = "grow" /\ Failed(p)
  /\ Kfree(p, ({loc[p].hold} \ {0}) \cup Unmapped(full, mem[p].as.sz))
  /\ mem' = [mem EXCEPT ![p].as = Shrunk(full, mem[p].as.sz)]
  /\ Done(p)
  /\ UNCHANGED <<status, lost, calls>>

\* The pages that going down to the size sz would unmap and that are not mapped.
Gaps(as, sz) == {v \in VPages : Up(sz) <= v /\ v < Up(as.sz) /\ as.map[v] = 0}

\* growproc has no check of its own.  (With n > sz the new size wraps around and uvmdealloc,
\* which takes it for a larger one, does nothing.)
Shrink(p, n) ==
  LET as == mem[p].as IN
  /\ Enter(p) /\ n <= as.sz /\ Gaps(as, as.sz - n) = {}
  /\ Kfree(p, Unmapped(as, as.sz - n))
  /\ mem' = [mem EXCEPT ![p].as = Shrunk(as, as.sz - n)]
  /\ UNCHANGED <<status, pc, loc, lost>>

\* uvmunmap, which goes up, has freed the pages before the first that is not mapped, h,
\* when it panics.
ShrinkPanic(p, n) ==
  LET as == mem[p].as IN
  /\ Enter(p) /\ n <= as.sz
  /\ \E h \in Gaps(as, as.sz - n) :
       LET done == {v \in VPages : Up(as.sz - n) <= v /\ v < h} IN
       /\ \A v \in done : as.map[v] # 0
       /\ Kfree(p, {as.map[v] : v \in done})
       /\ mem' = [mem EXCEPT ![p].as.map = [v \in VPages |-> IF v \in done THEN 0 ELSE @[v]]]
  /\ Goto(p, "panic")
  /\ UNCHANGED <<status, loc, lost>>

-----------------------------------------------------------------------------
(* proc_exit keeps the pages.  sys_wait frees the slot and none of them; the next *)
(* fork overwrites the pointers.                                                  *)

Exit(p) ==
  /\ Enter(p) /\ p # 1
  /\ status' = [status EXCEPT ![p] = "zombie"]
  /\ UNCHANGED <<free, mem, pc, loc, lost>>

Wait(p) ==
  /\ Enter(p)
  /\ \E q \in Procs :
       /\ status[q] = "zombie"
       /\ status' = [status EXCEPT ![q] = "free"]
       /\ lost' = lost \cup MemPages(mem[q])
       /\ mem' = [mem EXCEPT ![q] = NoMem]
  /\ UNCHANGED <<free, pc, loc>>

Call(p) ==
  \/ Fork(p) \/ Exit(p) \/ Wait(p)
  \/ \E holes \in SUBSET (0 .. ImagePages - 2) : Exec(p, holes)
  \/ \E n \in {1, PGSIZE + 1} : Grow(p, n) \/ Shrink(p, n) \/ ShrinkPanic(p, n)

Step(p) ==
  \/ KallocRead(p) \/ KallocTake(p)
  \/ ForkTrapframe(p) \/ ForkKstack(p) \/ ForkFail(p) \/ UvmcopyFail(p) \/ ForkDone(p)
  \/ Root(p) \/ High(p) \/ Trap(p) \/ NextPage(p) \/ Page(p) \/ Low(p)
  \/ ExecArg(p) \/ ExecFail(p) \/ ExecDone(p)
  \/ GrowDone(p) \/ GrowFail(p)

Next == \E p \in Procs : Call(p) \/ Step(p)

Spec == Init /\ [][Next]_vars

-----------------------------------------------------------------------------
SpaceType ==
  [root : 0 .. NPAGE, tables : SUBSET Pages, low : 0 .. NPAGE, map : [VPages -> 0 .. NPAGE],
   holes : SUBSET VPages, sz : 0 .. MaxSz]

\* Every variable has its type; in particular no size passes its bound.
TypeOK ==
  /\ free \subseteq Pages
  /\ status \in [Procs -> {"free", "alloc", "used", "zombie"}]
  /\ \A p \in Procs :
       /\ mem[p].tf \in 0 .. NPAGE /\ mem[p].kstack \in 0 .. NPAGE
       /\ mem[p].as \in SpaceType /\ loc[p].as \in SpaceType
       /\ loc[p].job \in {"none", "fork", "exec", "grow"}
       /\ loc[p].np \in 0 .. NPROC /\ loc[p].tmp \subseteq Pages
       /\ loc[p].v \in 0 .. Up(MaxSz) /\ loc[p].end \in 0 .. MaxSz
       /\ loc[p].hold \in 0 .. NPAGE /\ loc[p].res \in 0 .. NPAGE /\ loc[p].pg \in 0 .. None
  /\ pc \in [Procs -> Asking \cup {"idle", "next", "panic"}]
  /\ calls \in 0 .. MaxCalls
  /\ lost \subseteq Pages

\* No page is in two hands: the free list holds none that a process, a call
\* or a page table has, and no two of these share one.  So nothing is freed twice, exec
\* frees the old image and keeps the trapframe it maps, and a failing call gives back only
\* what it took.
PagesHaveOneOwner ==
  \A p \in Procs :
    /\ free \cap (MemPages(mem[p]) \cup LocalPages(p)) = {}
    /\ \A q \in Procs :
         /\ MemPages(mem[p]) \cap LocalPages(q) = {}
         /\ p # q => /\ MemPages(mem[p]) \cap MemPages(mem[q]) = {}
                     /\ LocalPages(p) \cap LocalPages(q) = {}
    /\ Cardinality(MemPages(mem[p])) =
         Cardinality({mem[p].tf} \ {0}) + Cardinality({mem[p].kstack} \ {0})
         + Cardinality({mem[p].as.root} \ {0}) + Cardinality(mem[p].as.tables)
         + Cardinality(Mapped(mem[p].as))

\* Pages get lost in three ways only: all those of a child that wait reaps; the root and the
\* tables of a page table that proc_pagetable could not finish; and the user's pages below
\* 0x80100000 of a page table that exec frees.  At any other moment, in the middle of calls
\* and after calls that failed, each page is on the list or somebody has it.
NoOtherLeak ==
  Pages = free \cup lost \cup UNION {MemPages(mem[p]) \cup LocalPages(p) : p \in Procs}

\* Between calls a process has mapped each page its size counts but the holes its image
\* came with, and no page above, whatever sequence of sbrk, fork and exec, failing or not,
\* led there: fork copies all of them, exec leaves none of the old ones behind, and a process
\* whose image has no hole finds each page that a negative sbrk unmaps.
SizeIsMapped ==
  \A p \in Procs :
    /\ Idle(p) => Mapped(mem[p].as) = {v \in VPages : v < Up(mem[p].as.sz)} \ mem[p].as.holes
    /\ At(p, "panic") => mem[p].as.holes # {}

\* uvmunmap is only asked for pages that are mapped (its panics).
UnmapsWhatIsMapped == \A p \in Procs : ~ At(p, "panic")
=============================================================================
