-------------------------------- MODULE Trap --------------------------------
(***************************************************************************)
(* Interrupts on one hart: the registers sstatus, sepc and stvec, the      *)
(* traps of trap.c, the nesting of push_off and pop_off in spinlock.c, and *)
(* the switches between the scheduler and processes (proc.c).              *)
(*                                                                         *)
(* Every context, 0 for the scheduler, has a stack of activations: its own *)
(* code and, above it, one sys_trap_handler for each interrupt taken in    *)
(* the kernel.  noff and intena belong to the hart and are not saved by    *)
(* sched, so a process resumes with the intena that the scheduler left.    *)
(* What system calls do is left out but for a lock they take, and for      *)
(* yielding and sleeping.  Quiet says that no interrupt comes between the  *)
(* handler's writes of sepc and sstatus, which the code does not ensure.   *)
(***************************************************************************)
EXTENDS Integers, Sequences, FiniteSets

CONSTANTS
  NPROC,
  MaxDepth,   \* bound on the activations of a context
  Quiet

ASSUME TrapAssumption ==
  NPROC \in Nat \ {0} /\ MaxDepth \in Nat /\ MaxDepth >= 2 /\ Quiet \in BOOLEAN

Procs == 1 .. NPROC
Contexts == 0 .. NPROC

VARIABLES
  mode,     \* "user" or "kernel"
  sstatus,  \* SIE, SPIE and SPP
  sepc, stvec,
  noff, intena,
  cur,      \* the context that runs; c->proc is 0 in the scheduler
  stack,    \* stack[c]: the activations of c
  tepc,     \* trapframe->epc
  status,   \* of each process
  plock,    \* the processes whose p->lock is locked
  klock,    \* the process that has the lock of the system calls, or 0
  idx       \* the scheduler's p

regs == <<mode, sstatus, sepc, stvec>>
vars == <<regs, noff, intena, cur, stack, tepc, status, plock, klock, idx>>

\* A place in the code: context, number of the activation, point in it.
Place(c) == [c |-> c, d |-> Len(stack[c]), at |-> stack[c][Len(stack[c])].at]
UserCode(p) == [c |-> p, d |-> 0, at |-> "user"]
NoPlace == [c |-> 0, d |-> 0, at |-> "user"]

KernelTrap == [sie |-> FALSE, spie |-> TRUE, spp |-> "kernel"]
Fresh(at) == [at |-> at, ret |-> "sys", epc |-> NoPlace, sst |-> KernelTrap]

\* main turned paging and traps on; the scheduler is about to enter its loop, and the
\* processes were made by userinit and fork.
Init ==
  /\ mode = "kernel" /\ stvec = "kernel" /\ sepc = NoPlace
  /\ sstatus = [sie |-> FALSE, spie |-> FALSE, spp |-> "user"]
  /\ noff = 0 /\ intena = FALSE
  /\ cur = 0
  /\ stack = [c \in Contexts |-> <<Fresh(IF c = 0 THEN "loop" ELSE "forkret")>>]
  /\ tepc = [p \in Procs |-> UserCode(p)]
  /\ status = [p \in Procs |-> "ready"]
  /\ plock = {} /\ klock = 0 /\ idx = 1

-----------------------------------------------------------------------------
Depth == Len(stack[cur])
Top == stack[cur][Depth]
At(s) == mode = "kernel" /\ Top.at = s
Goto(s) == stack' = [stack EXCEPT ![cur][Depth].at = s]
GotoWith(s, r) == stack' = [stack EXCEPT ![cur][Depth].at = s, ![cur][Depth].ret = r]

\* Mutant: interrupts are left on.
PushOffNot == noff' = noff + 1 /\ UNCHANGED <<intena, sstatus>>

PushOff ==
  /\ noff' = noff + 1
  /\ intena' = IF noff = 0 THEN sstatus.sie ELSE intena
  /\ sstatus' = [sstatus EXCEPT !.sie = FALSE]

\* Mutant: the nesting is not looked at.
PopOffEager ==
  /\ noff' = noff - 1
  /\ sstatus' = [sstatus EXCEPT !.sie = @ \/ intena]
  /\ UNCHANGED intena

PopOff ==
  /\ noff' = noff - 1
  /\ sstatus' = [sstatus EXCEPT !.sie = @ \/ (noff = 1 /\ intena)]
  /\ UNCHANGED intena

Csrs == <<mode, sepc, stvec>>
Offs == <<noff, intena>>
Locks == <<plock, klock>>

\* The interrupt of a device: its handler takes and releases locks, interrupts being off,
\* and wakes up some of the sleeping processes.
Device ==
  /\ intena' = FALSE /\ UNCHANGED noff
  /\ \E W \in SUBSET {p \in Procs : status[p] = "sleeping"} :
       status' = [p \in Procs |-> IF p \in W THEN "ready" ELSE status[p]]

-----------------------------------------------------------------------------
(* The scheduler. *)

Loop ==
  /\ At("loop")
  /\ sstatus' = [sstatus EXCEPT !.sie = TRUE]
  /\ idx' = 1 /\ Goto("scan")
  /\ UNCHANGED <<Csrs, Offs, cur, tepc, status, Locks>>

\* acquire(&p->lock)
Scan ==
  /\ At("scan") /\ idx \notin plock
  /\ PushOff
  /\ plock' = plock \cup {idx}
  /\ Goto(IF status[idx] = "ready" THEN "switch" ELSE "back")
  /\ UNCHANGED <<Csrs, cur, tepc, status, klock, idx>>

Switch ==
  /\ At("switch")
  /\ status' = [status EXCEPT ![idx] = "running"]
  /\ cur' = idx
  /\ Goto("back")
  /\ UNCHANGED <<regs, Offs, tepc, Locks, idx>>

\* release(&p->lock) and the next one
Back ==
  /\ At("back") /\ cur = 0
  /\ PopOff
  /\ plock' = plock \ {idx}
  /\ IF idx = NPROC THEN Goto("loop") /\ UNCHANGED idx ELSE Goto("scan") /\ idx' = idx + 1
  /\ UNCHANGED <<Csrs, cur, tepc, status, klock>>

-----------------------------------------------------------------------------
(* Leaving the processor: yield, or sleep with the lock of the system call. *)

Yield ==
  /\ At("yield") /\ cur \notin plock
  /\ PushOff
  /\ plock' = plock \cup {cur}
  /\ status' = [status EXCEPT ![cur] = "ready"]
  /\ Goto("sched")
  /\ UNCHANGED <<Csrs, cur, tepc, klock, idx>>

\* sleep takes p->lock before it releases the other.
Sleep ==
  /\ At("locked") /\ cur \notin plock
  /\ PushOff
  /\ plock' = plock \cup {cur}
  /\ Goto("swap")
  /\ UNCHANGED <<Csrs, cur, tepc, status, klock, idx>>

SleepSwap ==
  /\ At("swap")
  /\ PopOff
  /\ klock' = 0
  /\ status' = [status EXCEPT ![cur] = "sleeping"]
  /\ GotoWith("sched", "relock")
  /\ UNCHANGED <<Csrs, cur, tepc, plock, idx>>

\* sched: swtch to the scheduler.
Sched ==
  /\ At("sched")
  /\ Goto("resumed")
  /\ cur' = 0
  /\ UNCHANGED <<regs, Offs, tepc, status, Locks, idx>>

\* After swtch, the p->lock taken by the scheduler is released.
Resumed ==
  /\ At("resumed")
  /\ PopOff
  /\ plock' = plock \ {cur}
  /\ Goto(Top.ret)
  /\ UNCHANGED <<Csrs, cur, tepc, status, klock, idx>>

Forkret ==
  /\ At("forkret")
  /\ PopOff
  /\ plock' = plock \ {cur}
  /\ Goto("finish")
  /\ UNCHANGED <<Csrs, cur, tepc, status, klock, idx>>

-----------------------------------------------------------------------------
(* A system call: it takes a lock and releases it, yields, or ends. *)

SysAcquire ==
  /\ At("sys") \/ At("relock")
  /\ klock = 0
  /\ PushOff
  /\ klock' = cur
  /\ Goto("locked")
  /\ UNCHANGED <<Csrs, cur, tepc, status, plock, idx>>

SysRelease ==
  /\ At("locked")
  /\ PopOff
  /\ klock' = 0
  /\ Goto("sys")
  /\ UNCHANGED <<Csrs, cur, tepc, status, plock, idx>>

SysYield ==
  /\ At("sys")
  /\ GotoWith("yield", "sys")
  /\ UNCHANGED <<regs, Offs, cur, tepc, status, Locks, idx>>

SysReturn ==
  /\ At("sys")
  /\ Goto("finish")
  /\ UNCHANGED <<regs, Offs, cur, tepc, status, Locks, idx>>

-----------------------------------------------------------------------------
(* From and to the user. *)

\* Mutant: the clock's trap from user mode does not yield.
UserTrapStays(cause) ==
  /\ mode = "user"
  /\ mode' = "kernel" /\ stvec' = "kernel"
  /\ sepc' = UserCode(cur) /\ tepc' = [tepc EXCEPT ![cur] = UserCode(cur)]
  /\ sstatus' = [sie |-> cause = "ecall", spie |-> sstatus.sie, spp |-> "user"]
  /\ Goto(IF cause = "ecall" THEN "sys" ELSE "finish")
  /\ UNCHANGED <<Offs, cur, status, Locks, idx>>

\* uservec saves sepc; usertrap sets stvec and looks at the cause.
UserTrap(cause) ==
  /\ mode = "user"
  /\ mode' = "kernel" /\ stvec' = "kernel"
  /\ sepc' = UserCode(cur) /\ tepc' = [tepc EXCEPT ![cur] = UserCode(cur)]
  /\ LET trapped == [sie |-> FALSE, spie |-> sstatus.sie, spp |-> "user"] IN
     \/ /\ cause = "ecall"
        /\ sstatus' = [trapped EXCEPT !.sie = TRUE]      \* intr_on
        /\ Goto("sys")
        /\ UNCHANGED <<Offs, status>>
     \/ /\ cause = "timer"
        /\ sstatus' = trapped
        /\ GotoWith("yield", "finish")
        /\ UNCHANGED <<Offs, status>>
     \/ /\ cause = "device"
        /\ sstatus' = trapped
        /\ Device
        /\ Goto("finish")
  /\ UNCHANGED <<cur, Locks, idx>>

\* Mutant: usertrapret does not turn interrupts off first.
UsertrapretOn ==
  /\ At("finish")
  /\ Goto("vector")
  /\ UNCHANGED <<regs, Offs, cur, tepc, status, Locks, idx>>

Usertrapret ==
  /\ At("finish")
  /\ sstatus' = [sstatus EXCEPT !.sie = FALSE]
  /\ Goto("vector")
  /\ UNCHANGED <<Csrs, Offs, cur, tepc, status, Locks, idx>>

RetVector ==
  /\ At("vector")
  /\ stvec' = "user"
  /\ Goto("csrs")
  /\ UNCHANGED <<mode, sstatus, sepc, Offs, cur, tepc, status, Locks, idx>>

RetCsrs ==
  /\ At("csrs")
  /\ sstatus' = [sstatus EXCEPT !.spp = "user", !.spie = TRUE]
  /\ sepc' = tepc[cur]
  /\ Goto("userret")
  /\ UNCHANGED <<mode, stvec, Offs, cur, tepc, status, Locks, idx>>

\* sret
Sret == [sie |-> sstatus.spie, spie |-> TRUE, spp |-> "user"]

Userret ==
  /\ At("userret")
  /\ mode' = sstatus.spp /\ sstatus' = Sret
  /\ UNCHANGED <<sepc, stvec, Offs, cur, stack, tepc, status, Locks, idx>>

-----------------------------------------------------------------------------
(* sys_trap_handler. *)

Interrupt ==
  /\ mode = "kernel" /\ sstatus.sie
  /\ Depth < MaxDepth
  /\ Quiet => Top.at # "status"
  /\ sstatus' = KernelTrap
  /\ sepc' = Place(cur)
  /\ stack' = [stack EXCEPT ![cur] =
       Append(@, [at |-> "handler", ret |-> "restore", epc |-> Place(cur), sst |-> KernelTrap])]
  /\ UNCHANGED <<mode, stvec, Offs, cur, tepc, status, Locks, idx>>

HandleTimer ==
  /\ At("handler")
  /\ Goto(IF cur # 0 /\ status[cur] = "running" THEN "yield" ELSE "restore")
  /\ UNCHANGED <<regs, Offs, cur, tepc, status, Locks, idx>>

HandleDevice ==
  /\ At("handler")
  /\ Device
  /\ Goto("restore")
  /\ UNCHANGED <<regs, cur, tepc, Locks, idx>>

\* Mutant: sepc is not restored.
RestoreSepcNot ==
  /\ At("restore")
  /\ Goto("status")
  /\ UNCHANGED <<regs, Offs, cur, tepc, status, Locks, idx>>

RestoreSepc ==
  /\ At("restore")
  /\ sepc' = Top.epc
  /\ Goto("status")
  /\ UNCHANGED <<mode, sstatus, stvec, Offs, cur, tepc, status, Locks, idx>>

RestoreSstatus ==
  /\ At("status")
  /\ sstatus' = Top.sst
  /\ Goto("sret")
  /\ UNCHANGED <<Csrs, Offs, cur, tepc, status, Locks, idx>>

HandlerSret ==
  /\ At("sret")
  /\ mode' = sstatus.spp /\ sstatus' = Sret
  /\ stack' = [stack EXCEPT ![cur] = SubSeq(@, 1, Depth - 1)]
  /\ UNCHANGED <<sepc, stvec, Offs, cur, tepc, status, Locks, idx>>

-----------------------------------------------------------------------------
\* The kernel's code, and its interrupt handler.
Code ==
  \/ Loop \/ Scan \/ Switch \/ Back
  \/ Yield \/ Sleep \/ SleepSwap \/ Sched \/ Resumed \/ Forkret
  \/ SysAcquire \/ SysRelease \/ SysYield \/ SysReturn
  \/ Usertrapret \/ RetVector \/ RetCsrs \/ Userret

Handler == HandleTimer \/ HandleDevice \/ RestoreSepc \/ RestoreSstatus \/ HandlerSret

Next == Code \/ Handler \/ Interrupt \/ \E cause \in {"ecall", "timer", "device"} : UserTrap(cause)

Spec == Init /\ [][Next]_vars

\* The hart goes on, and interrupts are not so many that the code they interrupt, which
\* may be another handler, does not get on; a system call does not take locks for ever; the
\* clock ticks.
FairSpec ==
  /\ Spec
  /\ \A d \in 1 .. MaxDepth : SF_vars(Depth = d /\ (Code \/ Handler))
  /\ SF_vars(SysReturn)
  /\ SF_vars(UserTrap("timer"))

-----------------------------------------------------------------------------
Ats == {"loop", "scan", "switch", "back", "yield", "sched", "resumed", "forkret", "sys",
        "locked", "swap", "relock", "finish", "vector", "csrs", "userret",
        "handler", "restore", "status", "sret"}
Places == [c : Contexts, d : 0 .. MaxDepth, at : Ats \cup {"user"}]
Sstatus == [sie : BOOLEAN, spie : BOOLEAN, spp : {"user", "kernel"}]
Running(s) == mode = "kernel" /\ Top.at = s

\* Every variable has its type; in particular noff is never negative and at most 2.
TypeOK ==
  /\ mode \in {"user", "kernel"} /\ stvec \in {"user", "kernel"}
  /\ sstatus \in Sstatus /\ sepc \in Places
  /\ noff \in 0 .. 2 /\ intena \in BOOLEAN
  /\ cur \in Contexts
  /\ \A c \in Contexts :
       /\ Len(stack[c]) \in 1 .. MaxDepth
       /\ \A d \in 1 .. Len(stack[c]) :
            stack[c][d] \in [at : Ats, ret : {"sys", "relock", "finish", "restore"},
                             epc : Places, sst : Sstatus]
  /\ tepc \in [Procs -> Places]
  /\ status \in [Procs -> {"ready", "running", "sleeping"}]
  /\ plock \subseteq Procs /\ klock \in Contexts /\ idx \in Procs

\* While the hart holds a spinlock interrupts are off, and noff counts the locks that are
\* held, over all switches between contexts, nested interrupts and the intena of others.
LocksMaskInterrupts ==
  /\ noff > 0 => ~sstatus.sie
  /\ noff = Cardinality(plock) + Cardinality({klock} \ {0})

\* The hart never meets a lock that is taken, on which it would spin with interrupts off
\* for ever: nobody is switched away from or interrupted with a lock but p->lock.
LocksAreFree ==
  /\ Running("scan") => idx \notin plock
  /\ Running("yield") \/ Running("locked") => cur \notin plock
  /\ Running("sys") \/ Running("relock") => klock = 0

\* The trap vector fits the mode whenever a trap may come: in user mode it is uservec, and
\* in the kernel, while interrupts are on, it is sys_trap_vector.
VectorMatchesMode ==
  /\ mode = "user" => stvec = "user" /\ sstatus.sie
  /\ mode = "kernel" /\ sstatus.sie => stvec = "kernel"

\* sys_trap_handler returns to the code it interrupted, in supervisor mode and with
\* interrupts on, though nested interrupts and other processes used sepc and sstatus
\* meanwhile; and usertrapret returns to the user code of its own process.
ReturnsToInterrupted ==
  /\ Running("sret") => sepc = Top.epc /\ sstatus = Top.sst
  /\ Running("userret") => sepc = UserCode(cur) /\ sstatus.spp = "user" /\ sstatus.spie

\* A process that is ready runs in the end, whatever the others do, since the clock takes
\* the processor from user code and every handler returns: the trap from user mode yields.
ReadyProcessesRun == \A p \in Procs : status[p] = "ready" ~> status[p] = "running"
=============================================================================
