-------------------------------- MODULE Proc --------------------------------
(***************************************************************************)
(* The process table of the kernel and everything that moves a process     *)
(* between its states: the scheduler loop, the timer interrupt that        *)
(* preempts user and kernel code, fork, exit, wait, sleep and wakeup, a    *)
(* disk request as the example of a sleeping system call, and Ctrl-C.      *)
(*                                                                         *)
(* There is one CPU (NCPU = 1).  A spinlock disables interrupts, so the    *)
(* code between acquire and release is one step; everywhere else a running *)
(* process may be interrupted, and pc[s] names the places of the kernel    *)
(* code at which that makes a difference.  Slots of the table are numbered *)
(* 0 .. NPROC-1 as in proc[]; the null pointer is None.                    *)
(***************************************************************************)
EXTENDS Integers, FiniteSets

CONSTANTS
  NPROC,       \* slots of the process table
  MaxForks,    \* bound: calls of fork in a behaviour
  ExitBlocks,  \* may proc_exit drop the last reference to an unlinked file?
  MemFails     \* may kalloc return 0?

ASSUME ProcAssumption ==
  /\ NPROC \in Nat \ {0}
  /\ MaxForks \in Nat
  /\ ExitBlocks \in BOOLEAN
  /\ MemFails \in BOOLEAN

Slots == 0 .. NPROC - 1
None == -1

\* Sleep channels are addresses: a process slot, or the buffer of a request.
BufOf(s) == NPROC + s
Chans == {None} \cup (0 .. 2 * NPROC - 1)

Statuses == {"FREE", "ALLOCATED", "READY", "RUNNING", "SLEEPING", "ZOMBIE"}

\* Where the process in a slot stands: "user" user code, "ret" usertrap_finish,
\* "forkScan" .. "forkReady" sys_fork, "wait" sys_wait, "io" the completion loop
\* of virtio_disk_rw, "exit..." proc_exit, "dead" no code left to execute: the
\* slot was never used or its process has switched away for the last time.
ForkPcs == {"forkInit", "forkLink", "forkReady"}
ExitPcs == {"exitClose", "exitIo", "exitWake", "exitSched"}
Pcs == {"user", "ret", "forkScan", "wait", "io", "dead"}
         \cup ForkPcs \cup ExitPcs

VARIABLES
  status, pid, parent, killed, chan,  \* fields of struct proc
  pc,        \* where each process stands in the kernel
  np,        \* local np of sys_fork
  at,        \* slot the loop of allocproc looks at
  io,        \* io[s]: b->disk of the request that s waits for
  cpu,       \* mycpu()->proc
  scan,      \* loop variable of scheduler
  nextpid,
  forks,     \* calls of fork so far, for the bound
  forker,    \* history: pid of the process whose fork made this one
  panicked   \* panic was called; the machine has stopped

table == <<status, pid, parent, killed, chan>>
vars == <<table, pc, np, at, io, cpu, scan, nextpid, forks, forker, panicked>>

Init ==
  /\ status = [s \in Slots |-> IF s = 0 THEN "READY" ELSE "FREE"]
  /\ pid = [s \in Slots |-> IF s = 0 THEN 1 ELSE 0]
  /\ parent = [s \in Slots |-> None]
  /\ killed = [s \in Slots |-> FALSE]
  /\ chan = [s \in Slots |-> None]
  /\ pc = [s \in Slots |-> IF s = 0 THEN "user" ELSE "dead"]
  /\ np = [s \in Slots |-> None]
  /\ at = [s \in Slots |-> 0]
  /\ io = [s \in Slots |-> FALSE]
  /\ cpu = None
  /\ scan = 0
  /\ nextpid = 2
  /\ forks = 0
  /\ forker = [s \in Slots |-> 0]
  /\ panicked = FALSE

-----------------------------------------------------------------------------
(* The scheduler loop: one slot per step, in the order of the table.       *)

\* Mutant: the outer loop never goes back to the first slot.
NextSlotNoWrap(s) == s + 1

\* p++ of the inner loop, and the outer loop's return to the first slot.
NextSlot(s) == IF s = NPROC - 1 THEN 0 ELSE s + 1

\* status after wakeup(c) called by the process on the CPU (or by none).
Woken(c) ==
  [t \in Slots |->
     IF t # cpu /\ status[t] = "SLEEPING" /\ chan[t] = c THEN "READY" ELSE status[t]]

\* Mutant: after every switch the loop starts again at the first slot.
DispatchFromFirst ==
  /\ cpu = None
  /\ status[scan] = "READY"
  /\ status' = [status EXCEPT ![scan] = "RUNNING"]
  /\ chan' = [chan EXCEPT ![scan] = None]
  /\ cpu' = scan
  /\ scan' = 0
  /\ UNCHANGED <<pid, parent, killed, pc, np, at, io, nextpid, forks, forker, panicked>>

\* The slot is READY: switch to it.  If the process had been asleep, sleep()
\* continues behind sched() and clears p->chan before p->lock is released.
Dispatch ==
  /\ cpu = None
  /\ status[scan] = "READY"
  /\ status' = [status EXCEPT ![scan] = "RUNNING"]
  /\ chan' = [chan EXCEPT ![scan] = None]
  /\ cpu' = scan
  /\ scan' = NextSlot(scan)
  /\ UNCHANGED <<pid, parent, killed, pc, np, at, io, nextpid, forks, forker, panicked>>

SchedSkip ==
  /\ cpu = None
  /\ status[scan] # "READY"
  /\ scan' = NextSlot(scan)
  /\ UNCHANGED <<table, pc, np, at, io, cpu, nextpid, forks, forker, panicked>>

\* yield() up to the switch to the scheduler.
Yields(s) ==
  /\ status' = [status EXCEPT ![s] = "READY"]
  /\ cpu' = None

\* Mutant: the timer yields whatever status the process has.
PreemptAny(s) ==
  /\ cpu = s
  /\ Yields(s)
  /\ pc' = [pc EXCEPT ![s] = IF @ = "user" THEN "ret" ELSE @]
  /\ UNCHANGED <<pid, parent, killed, chan, np, at, io, scan, nextpid, forks, forker, panicked>>

\* Mutant: the timer switches away from a process that is exiting.
PreemptZombie(s) ==
  /\ cpu = s
  /\ status' = [status EXCEPT ![s] = IF @ = "RUNNING" THEN "READY" ELSE @]
  /\ cpu' = None
  /\ pc' = [pc EXCEPT ![s] = IF @ = "user" THEN "ret" ELSE @]
  /\ UNCHANGED <<pid, parent, killed, chan, np, at, io, scan, nextpid, forks, forker, panicked>>

\* The timer interrupt.  In user mode usertrap yields and then runs
\* usertrap_finish; in the kernel sys_trap_handler yields, but only a process
\* that is RUNNING, and the interrupted code goes on later.
Preempt(s) ==
  /\ cpu = s
  /\ status[s] = "RUNNING"
  /\ Yields(s)
  /\ pc' = [pc EXCEPT ![s] = IF @ = "user" THEN "ret" ELSE @]
  /\ UNCHANGED <<pid, parent, killed, chan, np, at, io, scan, nextpid, forks, forker, panicked>>

\* What goto-sleep does to the table: sleep(c, lk) up to the switch.
Sleeps(s, c) ==
  /\ status' = [status EXCEPT ![s] = "SLEEPING"]
  /\ chan' = [chan EXCEPT ![s] = c]
  /\ cpu' = None

-----------------------------------------------------------------------------
(* fork                                                                    *)

UserFork(s) ==
  /\ cpu = s /\ pc[s] = "user"
  /\ forks < MaxForks
  /\ forks' = forks + 1
  /\ pc' = [pc EXCEPT ![s] = "forkScan"]
  /\ at' = [at EXCEPT ![s] = 0]
  /\ UNCHANGED <<table, np, io, cpu, scan, nextpid, forker, panicked>>

\* Mutant: the slot is not marked before its lock is released.
AllocprocUnmarked(s, t, ok) ==
  /\ status[t] = "FREE"
  /\ pid' = [pid EXCEPT ![t] = nextpid]
  /\ nextpid' = nextpid + 1
  /\ killed' = [killed EXCEPT ![t] = FALSE]
  /\ chan' = [chan EXCEPT ![t] = None]
  /\ parent' = [parent EXCEPT ![t] = None]
  /\ np' = [np EXCEPT ![s] = IF ok THEN t ELSE None]
  /\ pc' = [pc EXCEPT ![s] = IF ok THEN "forkInit" ELSE "ret"]
  /\ UNCHANGED <<at, status>>

\* allocproc found a FREE slot t: everything up to the release of its lock.
\* If the trapframe page cannot be had the slot stays FREE and fork fails.
Allocproc(s, t, ok) ==
  /\ status[t] = "FREE"
  /\ pid' = [pid EXCEPT ![t] = nextpid]
  /\ nextpid' = nextpid + 1
  /\ killed' = [killed EXCEPT ![t] = FALSE]
  /\ chan' = [chan EXCEPT ![t] = None]
  /\ parent' = [parent EXCEPT ![t] = None]
  /\ status' = [status EXCEPT ![t] = IF ok THEN "ALLOCATED" ELSE "FREE"]
  /\ np' = [np EXCEPT ![s] = IF ok THEN t ELSE None]
  /\ pc' = [pc EXCEPT ![s] = IF ok THEN "forkInit" ELSE "ret"]
  /\ UNCHANGED at

\* One turn of allocproc's loop; each slot is locked and released by itself,
\* so the caller may be preempted between two slots.
ForkScan(s) ==
  /\ cpu = s /\ pc[s] = "forkScan"
  /\ \/ /\ at[s] < NPROC
        /\ \E ok \in {TRUE, ~MemFails} : Allocproc(s, at[s], ok)
     \/ /\ at[s] < NPROC
        /\ status[at[s]] # "FREE"
        /\ at' = [at EXCEPT ![s] = @ + 1]
        /\ UNCHANGED <<table, pc, np, nextpid>>
     \/ /\ at[s] = NPROC                                  \* table full
        /\ pc' = [pc EXCEPT ![s] = "ret"]
        /\ UNCHANGED <<table, np, at, nextpid>>
  /\ UNCHANGED <<io, cpu, scan, forks, forker, panicked>>

\* Kernel stack, page table and copy of the address space.  Without a stack or
\* a page table the slot is given back; when uvmcopy fails it is not.
ForkInit(s) ==
  /\ cpu = s /\ pc[s] = "forkInit"
  /\ \/ /\ pc' = [pc EXCEPT ![s] = "forkLink"]
        /\ UNCHANGED <<status, np>>
     \/ /\ MemFails
        /\ status' = [status EXCEPT ![np[s]] = "FREE"]
        /\ np' = [np EXCEPT ![s] = None]
        /\ pc' = [pc EXCEPT ![s] = "ret"]
     \/ /\ MemFails                                       \* uvmcopy
        /\ np' = [np EXCEPT ![s] = None]
        /\ pc' = [pc EXCEPT ![s] = "ret"]
        /\ UNCHANGED status
  /\ UNCHANGED <<pid, parent, killed, chan, at, io, cpu, scan, nextpid, forks, forker, panicked>>

ForkLink(s) ==
  /\ cpu = s /\ pc[s] = "forkLink"
  /\ parent' = [parent EXCEPT ![np[s]] = s]
  /\ forker' = [forker EXCEPT ![np[s]] = pid[s]]
  /\ pc' = [pc EXCEPT ![s] = "forkReady"]
  /\ UNCHANGED <<status, pid, killed, chan, np, at, io, cpu, scan, nextpid, forks, panicked>>

\* The child starts in forkret, which returns to user mode at once.
ForkReady(s) ==
  /\ cpu = s /\ pc[s] = "forkReady"
  /\ status' = [status EXCEPT ![np[s]] = "READY"]
  /\ pc' = [pc EXCEPT ![s] = "ret", ![np[s]] = "user"]
  /\ np' = [np EXCEPT ![s] = None]
  /\ UNCHANGED <<pid, parent, killed, chan, at, io, cpu, scan, nextpid, forks, forker, panicked>>

-----------------------------------------------------------------------------
(* wait: the whole loop body runs under p->lock, with interrupts off.      *)

UserWait(s) ==
  /\ cpu = s /\ pc[s] = "user"
  /\ pc' = [pc EXCEPT ![s] = "wait"]
  /\ UNCHANGED <<table, np, at, io, cpu, scan, nextpid, forks, forker, panicked>>

Kids(s) == {t \in Slots : parent[t] = s}
Zombies(s) == {t \in Kids(s) : status[t] = "ZOMBIE"}

\* The first zombie child in table order is freed and its pid returned.
Reap(s, t) ==
  /\ cpu = s /\ pc[s] = "wait"
  /\ t \in Zombies(s)
  /\ \A u \in Zombies(s) : t <= u
  /\ status' = [status EXCEPT ![t] = "FREE"]
  /\ pid' = [pid EXCEPT ![t] = 0]
  /\ parent' = [parent EXCEPT ![t] = None]
  /\ killed' = [killed EXCEPT ![t] = FALSE]
  /\ chan' = [chan EXCEPT ![t] = None]
  /\ pc' = [pc EXCEPT ![s] = "ret"]
  /\ UNCHANGED <<np, at, io, cpu, scan, nextpid, forks, forker, panicked>>

\* wait returns -1: copyout of the status failed, there is no child, or the
\* caller was killed.
WaitFails(s) ==
  /\ cpu = s /\ pc[s] = "wait"
  /\ Zombies(s) # {} \/ Kids(s) = {} \/ killed[s]
  /\ pc' = [pc EXCEPT ![s] = "ret"]
  /\ UNCHANGED <<table, np, at, io, cpu, scan, nextpid, forks, forker, panicked>>

WaitSleep(s) ==
  /\ cpu = s /\ pc[s] = "wait"
  /\ Zombies(s) = {} /\ Kids(s) # {} /\ ~killed[s]
  /\ Sleeps(s, s)
  /\ UNCHANGED <<pid, parent, killed, pc, np, at, io, scan, nextpid, forks, forker, panicked>>

-----------------------------------------------------------------------------
(* A system call that reads or writes a block: submit the request, sleep   *)
(* on its buffer until the interrupt has cleared b->disk.                  *)

UserIo(s) ==
  /\ cpu = s /\ pc[s] = "user"
  /\ io' = [io EXCEPT ![s] = TRUE]
  /\ pc' = [pc EXCEPT ![s] = "io"]
  /\ Sleeps(s, BufOf(s))
  /\ UNCHANGED <<pid, parent, killed, np, at, scan, nextpid, forks, forker, panicked>>

\* Mutant: if (b->disk == 1) sleep(...), without the loop.
IoLoopOnce(s, e) ==
  /\ pc' = [pc EXCEPT ![s] = e]
  /\ UNCHANGED <<status, chan, cpu>>

\* while (b->disk == 1) sleep(b, &vdisk_lock); the loop ends at pc e.
IoLoop(s, e) ==
  \/ /\ io[s]
     /\ Sleeps(s, BufOf(s))
     /\ UNCHANGED pc
  \/ /\ ~io[s]
     /\ pc' = [pc EXCEPT ![s] = e]
     /\ UNCHANGED <<status, chan, cpu>>

IoResume(s) ==
  /\ cpu = s /\ pc[s] = "io"
  /\ IoLoop(s, "ret")
  /\ UNCHANGED <<pid, parent, killed, np, at, io, scan, nextpid, forks, forker, panicked>>

-----------------------------------------------------------------------------
(* exit                                                                    *)

\* proc_exit up to the loop over the open files.
ExitBegin(s) ==
  /\ status' = [status EXCEPT ![s] = "ZOMBIE"]
  /\ pc' = [pc EXCEPT ![s] = "exitClose"]

\* exit(2).  The program of process 1, the shell of user/initcode.c, loops for
\* ever; only the processes it forks call exit.
UserExit(s) ==
  /\ cpu = s /\ pc[s] = "user"
  /\ pid[s] # 1
  /\ ExitBegin(s)
  /\ UNCHANGED <<pid, parent, killed, chan, np, at, io, cpu, scan, nextpid, forks, forker, panicked>>

\* Mutant: the killed flag is not looked at on the way out.
RetNoCheck(s) ==
  /\ cpu = s /\ pc[s] = "ret"
  /\ pc' = [pc EXCEPT ![s] = "user"]
  /\ UNCHANGED <<table, np, at, io, cpu, scan, nextpid, forks, forker, panicked>>

\* usertrap_finish: a killed process exits, any other returns to user mode.
Ret(s) ==
  /\ cpu = s /\ pc[s] = "ret"
  /\ \/ killed[s] /\ ExitBegin(s)
     \/ /\ ~killed[s]
        /\ pc' = [pc EXCEPT ![s] = "user"]
        /\ UNCHANGED status
  /\ UNCHANGED <<pid, parent, killed, chan, np, at, io, cpu, scan, nextpid, forks, forker, panicked>>

\* Closing the files and releasing cwd.  If that drops the last reference to an
\* unlinked inode, iput truncates it on disk, and the disk driver sleeps.
ExitClose(s) ==
  /\ cpu = s /\ pc[s] = "exitClose"
  /\ \/ /\ pc' = [pc EXCEPT ![s] = "exitWake"]
        /\ UNCHANGED <<status, chan, cpu, io>>
     \/ /\ ExitBlocks
        /\ io' = [io EXCEPT ![s] = TRUE]
        /\ pc' = [pc EXCEPT ![s] = "exitIo"]
        /\ Sleeps(s, BufOf(s))
  /\ UNCHANGED <<pid, parent, killed, np, at, scan, nextpid, forks, forker, panicked>>

ExitIo(s) ==
  /\ cpu = s /\ pc[s] = "exitIo"
  /\ IoLoop(s, "exitWake")
  /\ UNCHANGED <<pid, parent, killed, np, at, io, scan, nextpid, forks, forker, panicked>>

\* Mutant: the exiting process wakes its own channel.
ExitWakeSelf(s) ==
  /\ cpu = s /\ pc[s] = "exitWake"
  /\ status' = Woken(s)
  /\ pc' = [pc EXCEPT ![s] = "exitSched"]
  /\ UNCHANGED <<pid, parent, killed, chan, np, at, io, cpu, scan, nextpid, forks, forker, panicked>>

ExitWake(s) ==
  /\ cpu = s /\ pc[s] = "exitWake"
  /\ status' = Woken(parent[s])
  /\ pc' = [pc EXCEPT ![s] = "exitSched"]
  /\ UNCHANGED <<pid, parent, killed, chan, np, at, io, cpu, scan, nextpid, forks, forker, panicked>>

\* acquire(&p->lock); sched(): a process that is RUNNING must not get here.
ExitSched(s) ==
  /\ cpu = s /\ pc[s] = "exitSched"
  /\ \/ /\ status[s] = "RUNNING"
        /\ panicked' = TRUE
        /\ UNCHANGED <<pc, cpu>>
     \/ /\ status[s] # "RUNNING"
        /\ cpu' = None
        /\ pc' = [pc EXCEPT ![s] = "dead"]
        /\ UNCHANGED panicked
  /\ UNCHANGED <<table, np, at, io, scan, nextpid, forks, forker>>

-----------------------------------------------------------------------------
(* Device interrupts.  Taken in user mode they end in usertrap_finish.     *)

IrqReturn == pc' = [s \in Slots |-> IF s = cpu /\ pc[s] = "user" THEN "ret" ELSE pc[s]]

\* Mutant: b->disk is cleared and nobody is woken.
DiskIntrNoWakeup(s) ==
  /\ io[s]
  /\ io' = [io EXCEPT ![s] = FALSE]
  /\ IrqReturn
  /\ UNCHANGED <<table, np, at, cpu, scan, nextpid, forks, forker, panicked>>

\* virtio_disk_intr: the request of process s has completed.
DiskIntr(s) ==
  /\ io[s]
  /\ io' = [io EXCEPT ![s] = FALSE]
  /\ status' = Woken(BufOf(s))
  /\ IrqReturn
  /\ UNCHANGED <<pid, parent, killed, chan, np, at, cpu, scan, nextpid, forks, forker, panicked>>

\* consoleintr(3): every process but the shell, which has pid 1.
Victims == {s \in Slots : pid[s] > 1 /\ status[s] \notin {"FREE", "ZOMBIE"}}

\* Mutant: every victim is made READY, asleep or not.
CtrlCAll ==
  /\ killed' = [s \in Slots |-> s \in Victims \/ killed[s]]
  /\ status' = [s \in Slots |-> IF s \in Victims THEN "READY" ELSE status[s]]
  /\ IrqReturn
  /\ UNCHANGED <<pid, parent, chan, np, at, io, cpu, scan, nextpid, forks, forker, panicked>>

CtrlC ==
  /\ killed' = [s \in Slots |-> s \in Victims \/ killed[s]]
  /\ status' = [s \in Slots |->
        IF s \in Victims /\ status[s] = "SLEEPING" THEN "READY" ELSE status[s]]
  /\ IrqReturn
  /\ UNCHANGED <<pid, parent, chan, np, at, io, cpu, scan, nextpid, forks, forker, panicked>>

-----------------------------------------------------------------------------
Scheduler == ~panicked /\ (Dispatch \/ SchedSkip)

User(s) == UserFork(s) \/ UserWait(s) \/ UserIo(s) \/ UserExit(s)

Kernel(s) ==
  \/ ForkScan(s) \/ ForkInit(s) \/ ForkLink(s) \/ ForkReady(s)
  \/ (\E t \in Slots : Reap(s, t)) \/ WaitFails(s) \/ WaitSleep(s)
  \/ IoResume(s) \/ Ret(s)
  \/ ExitClose(s) \/ ExitIo(s) \/ ExitWake(s) \/ ExitSched(s)

Next ==
  \/ Scheduler
  \/ /\ ~panicked
     /\ \/ \E s \in Slots : User(s) \/ Kernel(s) \/ Preempt(s) \/ DiskIntr(s)
        \/ CtrlC

Spec == Init /\ [][Next]_vars

(***************************************************************************)
(* Fairness.  The scheduler loop never stops and the timer ticks for ever, *)
(* so a process that stays in user mode is preempted.  A time slice is     *)
(* long compared with one of the kernel steps above, so a process that is  *)
(* given the CPU again and again gets on with its system call although the *)
(* timer may preempt it anywhere: strong fairness.  A device completes     *)
(* every request.                                                          *)
(***************************************************************************)
Fairness ==
  /\ WF_vars(Scheduler)
  /\ \A s \in Slots :
       /\ WF_vars(~panicked /\ Preempt(s))
       /\ SF_vars(~panicked /\ Kernel(s))
       /\ WF_vars(~panicked /\ DiskIntr(s))

FairSpec == Spec /\ Fairness

-----------------------------------------------------------------------------
(* Properties                                                              *)

\* Every variable has its type.
TypeOK ==
  /\ status \in [Slots -> Statuses]
  /\ pid \in [Slots -> Nat]
  /\ parent \in [Slots -> Slots \cup {None}]
  /\ killed \in [Slots -> BOOLEAN]
  /\ chan \in [Slots -> Chans]
  /\ pc \in [Slots -> Pcs]
  /\ np \in [Slots -> Slots \cup {None}]
  /\ at \in [Slots -> 0 .. NPROC]
  /\ io \in [Slots -> BOOLEAN]
  /\ cpu \in Slots \cup {None}
  /\ scan \in Slots
  /\ nextpid \in Nat
  /\ forks \in 0 .. MaxForks
  /\ forker \in [Slots -> Nat]
  /\ panicked \in BOOLEAN

\* A process marked RUNNING is the one on the CPU, and the CPU executes a process
\* that is RUNNING or on its way out: status and mycpu()->proc never disagree,
\* whichever of yield, sleep, exit or an interrupt moved the process.
CurrentIsRunning ==
  /\ \A s \in Slots : status[s] = "RUNNING" => cpu = s
  /\ cpu # None => status[cpu] \in {"RUNNING", "ZOMBIE"}

\* wait frees a child's slot only when the child has left the CPU for good: a
\* FREE or ALLOCATED slot has no process executing on its kernel stack.
NoStackReuse ==
  \A s \in Slots : status[s] \in {"FREE", "ALLOCATED"} => cpu # s /\ pc[s] = "dead"

\* No lost wakeup between exit and wait: while a parent sleeps in wait, each
\* of its zombie children is still in proc_exit ahead of wakeup(p->parent).
NoLostExit ==
  \A s, t \in Slots :
    /\ status[s] = "SLEEPING" /\ pc[s] = "wait"
    /\ parent[t] = s /\ status[t] = "ZOMBIE"
    => cpu = t /\ pc[t] \in {"exitClose", "exitWake"}

\* Two forks under way never set up the same slot, and nobody else takes the slot
\* for anything before sys_fork makes it READY.
ForksAreDisjoint ==
  \A s \in Slots :
    pc[s] \in ForkPcs =>
      /\ status[np[s]] = "ALLOCATED"
      /\ \A t \in Slots \ {s} : pc[t] \in ForkPcs => np[t] # np[s]

\* A sleeper never misses the completion of its request: a process asleep in
\* virtio_disk_rw has a request that is still with the device, also after Ctrl-C
\* made it run and sleep again.
NoLostCompletion ==
  \A s \in Slots : status[s] = "SLEEPING" /\ pc[s] \in {"io", "exitIo"} => io[s]

\* The kernel does not stop: sched() is never entered by a RUNNING process.
NoPanic == ~panicked

\* A process leaves its system call only after the request it submitted has
\* completed, so the descriptor and the buffer are not given up while the
\* device still writes to them.
IoDoneBeforeReturn == \A s \in Slots : io[s] => pc[s] \in {"io", "exitIo"}

\* wait collects a process that the caller has forked.
WaitReapsOwnChild ==
  [][\A s, t \in Slots : Reap(s, t) => forker[t] = pid[s]]_vars

\* Ctrl-C reaches the whole foreground program: no process made by a killed
\* process is let loose alive and not killed.
CtrlCReachesChildren ==
  [][\A s \in Slots : ForkReady(s) /\ killed[s] => killed[np[s]]]_vars

\* Round robin starves nobody: a READY process gets the CPU.
NoStarvation == \A s \in Slots : status[s] = "READY" ~> status[s] = "RUNNING"

\* Ctrl-C ends every process it hits, whatever system call it is in.
KilledProcessesEnd ==
  \A s \in Slots : killed[s] ~> status[s] \in {"ZOMBIE", "FREE"}

\* A parent that waits while a child has exited returns from wait.
WaitReturns ==
  \A s, t \in Slots :
    (pc[s] = "wait" /\ parent[t] = s /\ status[t] = "ZOMBIE") ~> pc[s] # "wait"

-----------------------------------------------------------------------------
(* What the invariants above rest on: the status of a process says where   *)
(* in the kernel it can stand.                                             *)

SleepPcs == {"wait", "io", "exitIo"}

StatusAgrees ==
  \A s \in Slots :
    /\ status[s] \in {"READY", "RUNNING"} => pc[s] # "dead"
    /\ status[s] = "SLEEPING" =>
         /\ pc[s] \in SleepPcs
         /\ chan[s] = IF pc[s] = "wait" THEN s ELSE BufOf(s)
    /\ status[s] = "ZOMBIE" =>
         pc[s] \in IF cpu = s THEN {"exitClose", "exitWake", "exitSched"} ELSE {"dead"}

\* Without disk I/O in exit, an exiting process stays a ZOMBIE.
ExitsStayZombie ==
  ~ExitBlocks => \A s \in Slots : pc[s] \in ExitPcs => status[s] = "ZOMBIE"

\* sys_fork works on a slot of the table.
ForkHasSlot == \A s \in Slots : pc[s] \in ForkPcs => np[s] \in Slots

IInv ==
  /\ TypeOK
  /\ CurrentIsRunning
  /\ NoStackReuse
  /\ StatusAgrees
  /\ NoLostExit
  /\ ForkHasSlot
  /\ ForksAreDisjoint
  /\ NoLostCompletion
  /\ IoDoneBeforeReturn
  /\ ExitsStayZombie
  /\ ~ExitBlocks => NoPanic

=============================================================================
