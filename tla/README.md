# Verification of the MyOS kernel

MyOS is a small Unix-like kernel for one RISC-V hart (`NCPU` is 1): processes,
preemption, pipes, a buffer cache over a virtio disk, an xv6-style file system,
a console, and a user land with a shell and ported tools. This directory holds
TLA+ models of the kernel's concurrent core, of its memory, open files and file
system, the TLC configurations that check them on small instances, and proofs,
checked by TLAPS, of the invariants of the process table, traps, pipes, disk driver,
buffer cache, memory, open files and file system for every value of their constants.

All source paths below are relative to `src/`.

## 1. Inventory

Who runs when. The kernel is preemptible: a system call runs with interrupts on
(`usertrap` calls `intr_on`), and the timer handler calls `yield` for any process
whose status is `TASK_RUNNING` (`kernel/trap/trap.c:86`). A spinlock turns
interrupts off, so with one hart the code between `acquire` and `release` is one
step. `ilock` gives no mutual exclusion, and the file table, the page allocator,
the buffer cache and the inode cache take no lock at all. These are the places
where the order of steps matters.

| component | state | operations | talks to | what makes it correct |
|---|---|---|---|---|
| processes and scheduler (`proc/proc.c`, `syscall/sysproc.c`, `trap/trap.c`) | `proc[]` (status, pid, parent, killed, chan), `mycpu()->proc`, scheduler position | scheduler loop, yield, fork, exit, wait, sleep, wakeup, kill by Ctrl-C | everything that sleeps | one process on the CPU, no lost wakeup, no slot or stack reused under a live process, every READY process runs, killed processes end |
| pipes (`syscall/sysfile.c`) | `struct pipe`: ring, counters, open flags | `pipewrite`, `piperead`, `pipeclose` | sleep/wakeup, file table | bounded FIFO of bytes, end of file and broken pipe delivered, page freed once |
| disk driver (`driver/virtio_disk.c`) | descriptors, `info[]`, rings, `b->disk` | `virtio_disk_rw`, `virtio_disk_intr` | device, sleep/wakeup | no descriptor lost or shared, no request in flight loses its owner |
| buffer cache (`fs/bio.c`) | `struct buf`, LRU list | `bget`, `bread`, `bwrite`, `brelse` | disk driver | `bread` returns current data, held buffers are not evicted |
| interrupt state (`proc/spinlock.c`, `trap/trap.c`) | `noff`, `intena`, SIE, sepc, sstatus | `push_off`, `pop_off`, kernel trap handler | all locks | nesting balanced, a trap returns to where it struck |
| open files (`fs/file.c`, `syscall/sysfile.c`) | `ftable`, `ofile[]`, reference counts | open, dup, dup2, close, fork, exit, pipe | pipes, inodes | reference counts equal the references |
| file system (`fs/fs.c`, `fs/bio.c`, `syscall/sysproc.c`) | inodes, bitmap, directories | `ialloc`, `iget`, `iput`, `itrunc`, `dirlink`, unlink, mkdir, rename | buffer cache | link counts, no block in two files, names found again |
| memory (`mm/kalloc.c`, `mm/vm.c`) | free list, page tables | `kalloc`, `kfree`, `uvmcopy`, `uvmfree` | fork, exec, exit | a page has one owner |
| console (`driver/console.c`) | input ring | `consoleintr`, `consgetc`, Ctrl-C | UART, processes | lines delivered once and in order |
| exec, system-call table, boot, assembly | - | - | - | sequential |
| user land (`user/`, `ports/`, `mkfs.c`) | - | shell pipelines, malloc, build tool | system calls | a pipeline closes and reaps what it makes |

Hard behaviours: preemption inside unlocked kernel code, wakeups that arrive
between a test and a sleep, Ctrl-C waking every sleeper whether its event has
happened or not, completion of disk requests in any order, a process exiting
while its parent waits and while it still does disk I/O, reuse of slots, buffers
and descriptors, allocations failing in the middle of fork, counters at their
limit. `PROJECT.json` lists each hazard at its line.

## 2. Modules

| module | models | extends |
|---|---|---|
| `Proc` | process table and scheduler | |
| `ProcProofs` | proofs about the process table | `Proc` |
| `Trap` | traps, interrupt state, spinlocks, context switches on the hart | |
| `TrapProofs` | proofs about traps and spinlocks | `Trap` |
| `Channel` | what a pipe promises: a bounded byte queue | |
| `Pipe` | `pipewrite`, `piperead`, `pipeclose`; refinement to `Channel` | |
| `MCPipe` | symmetry for TLC | `Pipe` |
| `PipeProofs` | proofs about pipes, refinement included | `Pipe` |
| `FileTable` | open files, descriptors, pipe ends, references to inodes | |
| `FileProofs` | proofs about files, descriptors, pipe ends and references to inodes | `FileTable` |
| `Fs` | inodes, inode cache, bitmap, root directory, power failure | |
| `MCFs` | a long name, symmetry and a view for TLC | `Fs` |
| `FsProofs` | proofs about the file system, over power failures | `Fs` |
| `Memory` | physical pages, address spaces | |
| `MemoryProofs` | proofs about page ownership | `Memory` |
| `VirtioDisk` | the disk driver and the device | |
| `DiskProofs` | proofs about the driver | `VirtioDisk` |
| `Bio` | the buffer cache on top of the driver | `VirtioDisk` |
| `BioProofs` | proofs about the cache on top of the driver | `Bio`, `DiskProofs` |
| `MCBio` | symmetry for TLC | `Bio` |

How they fit together. `Trap` shows why the others may take a region between
`acquire` and `release` as one step, and that a process in the kernel is resumed
where it was interrupted. `Proc` shows that a READY process runs and that a wakeup
is not lost, which `Pipe` and `VirtioDisk` use as fairness. `Bio` is composed with
`VirtioDisk`. `FileTable` says when `pipeclose` and `iput` are called; `Pipe` and `Fs`
say what they do. `Fs` takes `bwrite` as one synchronous step, which is what `Bio`
shows of it. Several modules have a constant that states an exclusion
the kernel does not enforce (`Serial`, `Atomic`, `Exclusive`, `Excl`, `Quiet`): with `TRUE` a
run shows what holds of the model as long as nothing enters these windows, with `FALSE` it
shows the harm (section 4). Shorter unlocked sections are one step and are named where the
module is described; a run says nothing of an interrupt inside them.

Operators named "Mutant" in a comment are deliberately wrong variants of the
definition that follows them. They are used to show that each property notices a
plausible bug; no specification uses them.

### Proc

`status`, `pid`, `parent`, `killed`, `chan` are the fields of `struct proc`; a
pointer to a slot is its number. `cpu` is `mycpu()->proc` and `scan` the loop
variable of `scheduler`. `pc[s]` says where the process of slot `s` stands, at the
granularity at which an interrupt can make a difference:

* `Dispatch`, `SchedSkip`: one turn of the scheduler's inner loop.
* `Preempt`: the timer, in user mode (`usertrap`) or in the kernel, where only a
  RUNNING process is preempted.
* `UserFork`, `ForkScan`, `ForkInit`, `ForkLink`, `ForkReady`: `sys_fork` and
  `allocproc`. `allocproc` locks each slot by itself, so `ForkScan` is one slot
  per step. Failing allocations take the code's three ways out; the one after
  `uvmcopy` leaves the slot ALLOCATED, as in the code.
* `UserWait`, `Reap`, `WaitFails`, `WaitSleep`: `sys_wait`, whose loop body runs
  under `p->lock`.
* `UserIo`, `IoResume`: any system call that sleeps in `virtio_disk_rw`.
* `UserExit`, `Ret`, `ExitClose`, `ExitIo`, `ExitWake`, `ExitSched`: `proc_exit`,
  entered by `exit` or by `usertrap_finish` for a killed process. `ExitBlocks`
  says whether closing the files may drop the last reference to an unlinked
  inode, which truncates it on disk.
* `DiskIntr`, `CtrlC`: the two device interrupts that change the table.

Left out: priorities (there are none), `exec` (it changes no field modelled here),
files and memory of a process (`FileTable`, `Memory`).

### Trap

`mode`, `sstatus`, `sepc`, `stvec` are the hart's registers, `noff` and `intena` the
fields of `struct cpu`. Each context (0 is the scheduler) has a stack of activations:
its own code and one `sys_trap_handler` per interrupt that struck it in the kernel.
A place in the code is a record of context, activation and point, so "returns to
where it struck" can be stated. Actions are the code between two points at which an
interrupt makes a difference: `Loop`, `Scan`, `Switch`, `Back` are the scheduler;
`Yield`, `Sleep`, `SleepSwap`, `Sched`, `Resumed` leave the processor and come back;
`SysAcquire`, `SysRelease`, `SysYield`, `SysReturn` are what a system call does, as
far as locks go; `UserTrap`, `Usertrapret`, `RetVector`, `RetCsrs`, `Userret` the way
from and to the user; `Interrupt`, `HandleTimer`, `HandleDevice`, `RestoreSepc`,
`RestoreSstatus`, `HandlerSret` the kernel's trap. One lock stands for all that
system calls take. `sched` does not save `intena`, so neither does the model.

### Pipe and Channel

`data`, `nread`, `nwrite`, `readopen`, `writeopen` are the fields of
`struct pipe`; `nread` and `nwrite` are unsigned integers modulo `W`. Each action
is the code between two points at which `pi->lock` is free, that is up to the next
sleep or return; the byte-by-byte loops are the operators `Filled` and `Take`.
`rfd` and `wfd` are the processes whose descriptors keep an end open; the last
close of an end calls `pipeclose`. `PipeReadFaults` is the path on which the
reader's buffer is not mapped.

`Channel` knows what each call asked for: `rest` is what a write has still to put into
the queue, `want` the size of a read. Its steps are: a call, bytes in, bytes out, end
of file, failure, close of an end. `ImplementsChannel` maps the contents of the ring to
its queue and the return values to its observations: "wrote" only with the last byte of
the request in the queue, "got" with the next bytes, as many as were asked for and as
there are, "eof" only when the queue is empty and no writer is left. A `pipewrite` that
returned when the ring is full is its mutant.

### FileTable

`file`, `ofile`, `cwd` are `ftable.file`, `p->ofile` and `p->cwd`; `iref` is `ip->ref` as far
as files and directories hold it; `page` holds the two open flags of each pipe. A
system call is a sequence of steps with its local variables in `loc`: `FileTest` and
`FileTake` are the two halves of `filealloc`; `CloseDrop`, `CloseLast`, `CloseClear` are
`fileclose`, which after the drop to 0 may sleep in `iput` and only then clears the
fields. `ForkCopy` copies one descriptor per step, `ExitClose` closes one. The error paths that
hand back resources are there: no file, no descriptor, an unmapped array for
`pipe`, a `chdir` to what is no directory or has too long a path; those that fail before
anything was taken are not. `f->ref++` and `--f->ref` are a load (`LoadRef`) and a store
(`Store`, in `Filedup`, `CloseDrop`, `CloseLast`, `ForkCopy`), with the loaded value in `cnt`. `Serial`
keeps `filealloc` out of its two windows, `Atomic` a count out of other counts. `ip->ref` is
counted without a lock as well, in `idup` and `iput`; here it changes in one step.

### Fs

`dinode`, `used`, `dir`, `rootLink` are what is on the disk, `icache` what is in memory,
`handle` the file a process has open. Each synchronous write of a block is a step of
its own (`Ialloc`, `Iupdate`, `Link`, the bitmap), in the order of the code, and `Crash` may
happen between any two: it empties the cache and keeps the disk. `Iput`, `Bfree`, `TruncSize`,
`FreeType` are `iput` with its `itrunc`. `opened` and `torn` are history variables: the inode a
process opened, and whether power failed at one of the two places that do
harm, between the two writes of a truncation and between the two of a rename. `Excl` makes calls
exclude each other. A file has at most one block; only names in the root are
modelled. Where the kernel panics for want of something the call stops.

`Cut` is what `safestrcpy` in `dirlink` does to a name: an entry keeps `DIRSIZ` - 1 characters,
while `dirlookup` compares `DIRSIZ`. A name with `Cut[n] # n` is never found, and may become
equal to a shorter one. `OpenNoFd` is `sys_open` without a free descriptor, which unlocks the
inode and does not put it; `lost[s]` counts the references to slot `s` that were forgotten
in this way, until a reboot empties the cache.

### Memory

`free` is `free_mem_list` as a set; `mem` holds trapframe, kernel stack and address space of
each process; `loc` what a call has in its hands. `KallocRead` and `KallocTake` are
the two halves of `kalloc`. Fork, exec and sbrk share the loop "`kalloc`, then `mappages`, which may
`kalloc` a table" (`NextPage`, `Page`, `Low`), and each of these may fail. `High` and `Trap` are
the two mappings of `proc_pagetable`; the trapframe needs a table of its own unless its page is
in the same 2 MB as the trampoline (`Near`). `Freepagetable` is `proc_freepagetable`, which
spares the trapframe and the pages below 0x80100000 (`Spared`). Sizes are in bytes and
pages hold two, so sizes that end inside a page occur. An image need not have a segment at its
first page or between two others: these pages are its `holes`, which `sz` counts and
nothing maps. A negative `sbrk` that reaches one ends in the panic of `uvmunmap`
(`ShrinkPanic`), where the process stays; `panic` leaves interrupts on, so the others go on.
`lost` collects the pages that nothing refers to any more: those of a child that `wait` reaps
(`sys_wait` frees the slot only), the root and tables of a page table that `proc_pagetable`
gave up, and the spared pages of a page table that exec frees. The two lower levels of
tables count as one page. The two assignments of `kfree` are one step.

### VirtioDisk and Bio

A request is a set of three descriptors named by its head. `Submit` is
`virtio_disk_rw` from entry to its first sleep, `AllocAgain` and `SleepAgain` its two
loops after a wakeup, `Finish` the rest; `Intr` handles all completions at once,
as the handler's loop does. The device is external: it completes requests in any
order, and never with an error, so the handler's panic on a status other than 0 is left
out. The driver relies on its callers not to use one buffer twice at a time;
`Exclusive` says whether they comply.

`Bio` adds the fields of `struct buf` and the LRU list. None of `bio.c` takes a
lock. `Bread` is `bget` up to the point where a victim has been found, `BgetTake`
its reuse: the timer may strike in between. `Exclusive` and `Serial` restrict the
callers (different blocks; one process in `bget` at a time). The kernel guarantees
neither: with `FALSE` the configurations of section 4 show harm, with `TRUE` the run
shows what these two exclusions buy. They do not make the cache safe by themselves:
the unlocked `refcnt++` of `bget`, `refcnt--` of `brelse` and the four pointer
assignments that move a buffer in the list are one step each here, and a preemption
inside them, which could lose a count or damage the list, is not modelled.

## 3. Runs

| run | instance | what it shows |
|---|---|---|
| `proc_table` | 3 slots, 3 forks, all failures, I/O in exit | `TypeOK`, `CurrentIsRunning`, `NoStackReuse`, `NoLostExit`, `ForksAreDisjoint`, `NoLostCompletion`, `IoDoneBeforeReturn` |
| `proc_live` | 3 slots, 2 forks, fair | `NoPanic`, `NoStarvation`, `KilledProcessesEnd`, `WaitReturns` |
| `proc_exit_panic` | 2 slots | violates `NoPanic` |
| `traps` | 2 processes, 3 activations per context, fair | `LocksMaskInterrupts`, `LocksAreFree`, `VectorMatchesMode`, `ReturnsToInterrupted`, `ReadyProcessesRun` |
| `trap_return` | the same, interrupts at every moment they are on | violates `ReturnsToInterrupted` |
| `pipe_data` | 2 writers, 2 readers, ring of 2, counters modulo 4 | `RingIsFifo`, `NoLostWakeup`, `NoUseAfterFree`, refinement `ImplementsChannel` |
| `pipe_live` | 2 writers, 1 reader, writes longer than the ring, faulting reads | `ClosedEndIsSeen`, `KilledLeaves` |
| `files` | 2 processes, 3 files, 2 descriptors each, 1 pipe, 2 inodes | `RefsAreCounted`, `DescriptorsAreLive`, `PipeEndsMatchFiles`, `InodesInUseAreHeld` (with `Serial` and `Atomic`) |
| `fs_crash` | 2 processes, 3 names of which one is too long, 2 inodes, 2 blocks, one power failure, one forgotten reference per slot | `EntriesNameLiveInodes`, `BlocksHaveOneOwner`, `OpenFilesStay`, `NothingElseLeaks`, `LinksAreCounted` |
| `mem_pages` | 2 processes, 16 pages of which 4 are near the trampoline and 2 of these spared, images of 3 pages, 6 calls | `PagesHaveOneOwner`, `NoOtherLeak`, `SizeIsMapped` |
| `disk_queue` | 3 callers, 8 descriptors | `DescsPartition`, `InFlightIsOwned`, `CallsReturn` |
| `bio_cache` | 3 processes, 2 buffers, 3 blocks | `BreadReturnsBlock`, `HeldBufferKeepsBlock`, `RefcntCountsHolders` |

Bounds. Three slots are the smallest table with a shell, a parent and an orphan,
or with two forks under way and a third slot; three forks allow a slot to be
reused. A ring of two bytes distinguishes empty, half full and full, and counters
modulo 4 wrap around within the bytes written. In `pipe_live` writes of three bytes
exceed the ring. Eight descriptors are the kernel's number and hold two requests, so the
third caller has to wait; two buffers for three processes make `bget` evict and
run out. Three files and two descriptors let `open` and `pipe` fail at each of their
allocations while the other process shares, closes or forks. Two inodes and names
suffice for a rename over another file, for an unlinked file that stays
open, and for an inode that is freed and allocated again; the third name is cut to one of
the two. An inode has one slot, so two slots suffice for two inodes. `fs_crash` has a
view (`MCFs`) that leaves out what is in a slot and not valid, since `iget` and `ilock` write it
before anybody reads it. A second power failure would start from
a state the first one can leave as well. Sixteen pages are eight for the first
process and eight for the rest: fork and exec both succeed with them and run out
of them at each of their allocations, depending on what went before. The near pages lie so that
trapframes and user pages land in them and outside. An image of three pages may have a hole at
its start, between two segments, both or none. An activation that interrupts an
interrupt handler needs a depth of three. `MaxForks`, `MaxBytes`, `MaxCalls`, `MaxLost`
and `MaxCrashes` only bound the length of behaviours. `MaxIref` and `MaxIrefs` bound the references
that failed calls of `open` leave behind: open is called for the current directory and for
another inode, for one inode twice and for two at the same time.
`proc_table` and the pipe, file, memory, disk and cache runs do not check deadlock:
the kernel stops after a panic, and programs may stop calling (the bounds make
them). The process runs without a panic and `traps` do check it.

Fairness. `Proc`: the scheduler loop and the timer go on for ever (weak
fairness); a kernel step is short compared with a time slice, so a process that
gets the CPU again and again makes progress even though the timer may preempt it
anywhere (strong fairness of its kernel steps); the device completes requests.
Nothing is assumed about user code. `Trap`: the hart executes; an interrupt does not
come again so soon that the code it interrupts, which may be a handler, never
gets a step in (strong fairness per depth); a system call does not take locks
for ever; the clock ticks. `Pipe` and `VirtioDisk`: a process that is awake
is scheduled, which is what `NoStarvation` of `Proc` says, and a killed process
closes its descriptors on its way out. `CallsReturn` is about a bounded number of
calls: a process woken for free descriptors may lose them to a newcomer, and with
callers that never stop the code does not exclude that this goes on for ever.

## 4. What the runs found

* `proc_exit_panic`. `proc_exit` marks the process ZOMBIE before it closes its
  files. If that does disk I/O, `sleep` overwrites the status, the process comes
  back RUNNING and fails the assertion of `sched()`.
* `trap_return`. `intena` belongs to the hart. A handler that yielded is resumed by the
  scheduler, which had interrupts on, so `pop_off` turns them on in the handler; an
  interrupt between `w_sepc` and `w_sstatus` (`kernel/trap/trap.c:131`) then leaves its own
  `sepc` behind, and the outer handler returns to itself.

Three more disagreements between the code and what it says of itself have a configuration each,
outside the list of runs. The runs contain these behaviours and check what holds in spite of
them.

* `FsNames.cfg` (`MCFs`, `NamesAreDistinct`). `dirlink` checks that a name is not there, and
  stores it without its last character when it has 14 (`kernel/fs/fs.c:637`). The next
  `dirlookup` compares all 14 and does not find it, so the same name can be created
  again. Links stay counted.
* `FsNoFd.cfg` (`MCFs`, `FailedOpensPut`). When `fdalloc` fails, `sys_open` closes a file that
  does not have the inode yet (`kernel/syscall/sysfile.c:203`, whose comment says that
  `fileclose` puts it), and nothing puts the inode: its slot stays in use until the machine is
  switched off, and the file is not freed when its last name goes.
* `MemShrink.cfg` (`Memory`, `UnmapsWhatIsMapped`). `sys_exec` sets `sz` to the end of the image,
  whatever its segments leave out, and `growproc` (`kernel/proc/proc.c:345`) takes any negative
  number. A program that is not linked at address 0, or has a gap between two segments, and
  gives back that much makes `uvmunmap` panic (`kernel/mm/vm.c:358`). `SizeIsMapped` says
  that a hole of the image is the only way to get there.

The exclusions that other runs suppose are not enforced by the kernel. For each there is a
configuration, outside the list of runs, in which the named property fails:

| configuration | module | property | what goes wrong |
|---|---|---|---|
| `ProcAdopt.cfg` | `Proc` | `WaitReapsOwnChild` | children of an exiting process are not reparented, and the next process in the slot collects them |
| `ProcEscape.cfg` | `Proc` | `CtrlCReachesChildren` | Ctrl-C between the entry of fork and `allocproc` marks the parent and not the child |
| `DiskShared.cfg` | `VirtioDisk` | `NoNullBuf` | `virtio_disk_rw` waits for the buffer, not for its request; two requests for one buffer end in a write through a null pointer |
| `BioStale.cfg` | `MCBio` | `BreadReturnsBlock` | `bread` sets `valid` before the data have been read |
| `BioRace.cfg` | `MCBio` | `HeldBufferKeepsBlock` | `bget` is preempted between its test of `refcnt` and the reuse |
| `FilesPipe.cfg` | `FileTable` | `PipeCleanupSound` | the cleanup of `sys_pipe` frees the page and then closes the files that lead to it |
| `FilesCount.cfg` | `FileTable` | `RefsAreCounted` | two processes count the references of a shared file at the same time, and one of the counts is lost |
| `FsReuse.cfg` | `MCFs` | `OpenFilesStay` | `iput` sleeps in `itrunc` with `ref` 0; `iget` gives the slot to a new file, whose inode the rest of `iput` frees |

With `Serial = FALSE` `Files.cfg` and `MemPages.cfg` fail as well: two processes get one
file, or one page.

Further observations. A faulting read of a pipe takes bytes out of the ring without
waking a writer (`kernel/syscall/sysfile.c:401`), so `NoLostWakeup` is checked for
reads that do not fault. `sys_wait` frees no page of the child it reaps, and
`proc_freepagetable` none that lies below 0x80100000, where `kalloc` has pages too. A removed directory keeps a link
count of 1 and its block. `sys_exec` tests `ip` on jumps taken before it is set.

## 5. Proofs

Every theorem holds for all values of the constants that the named assumption of
its module allows. Each inductive invariant was checked with TLC on a small instance
before it was proved; the proofs have a lemma per action, split by conjunct, and the
last step combines them by propositional temporal logic. Where the kernel does not
enforce an exclusion, the theorem has it as an explicit hypothesis (`ASSUME Serial`
and so on), the same that the corresponding run sets to `TRUE`; section 4 shows
what happens without it.

**`ProcProofs`**, for every `NPROC > 0`, every number of forks and both values of
`ExitBlocks` and `MemFails` (assumption `ProcAssumption`):

* `ProcInvariant`: `Spec => []IInv`, from which follow
* `ProcTypes`, `ProcCurrent`, `ProcStacks`, `ProcWakeup`, `ProcForks`, `ProcIo`,
  `ProcCompletion`: the invariants of `proc_table`;
* `ProcNoPanic`: without disk I/O in exit the assertion of `sched()` holds.

`IInv` strengthens the invariants by what relates status and position:
`StatusAgrees` (a SLEEPING process is at one of the three sleeps, on the channel
of that sleep; a ZOMBIE is on the CPU inside `proc_exit`, or dead),
`ForkHasSlot` and `ExitsStayZombie`. Without `StatusAgrees` the others are not
inductive: that `wait` frees a zombie child whose stack is not in use
(`NoStackReuse`) needs that a zombie off the CPU is dead, and that `wakeup` reaches
the sleeping parent (`NoLostExit`) needs that a process asleep in `wait` sleeps on
its own slot.

**`TrapProofs`**, for every number of processes and every depth of nested interrupts
(`TrapAssumption`): `TrapTypes`, `TrapLocks`, `TrapNoSpin`, `TrapVector`, and for
`Quiet` (no interrupt between `w_sepc` and `w_sstatus`) `TrapReturns` and
`TrapReturnsBelow`. The properties speak of the running code only, and a switch
brings back code that was left long ago, so `TrapInv` says what every context and
every activation on its stack may be: the point reached determines the locks held
(`HeldAt`) and the registers (`RegsAt`), a context that does not run stands right
after `swtch` with just its `p->lock` (`AwayOK`), and an activation below another
one stands at a point where interrupts may be on, which its handler has in `epc`
(`BelowOK`). `intena` appears nowhere in it: no property depends on what `pop_off`
restores, except that it can be on in a handler, which is why `Quiet` is needed.

**`PipeProofs`**, for every set of readers and writers, ring size, and counter width `W`
that is a multiple of it (`PipeAssumption`; writers, readers and bytes exist):
`PipeFifo`, `PipePage`, and for reads that do not fault `PipeWakeups` and
`PipeRefines`, the step-by-step simulation of `Channel`. `PipeInv` adds to the
invariants that an end is open exactly while a descriptor refers to it and that a call
under way has one (`EndsAgree`); without that a reader asleep is not known to have a
writer to wait for. The lemmas on `Filled` and `Take` say what the byte loops do to
the window of the ring, with `nread` and `nwrite` modulo `W`: `W` being a
multiple of the ring size is what makes `nwrite % PIPESIZE` the next slot after a
wrap, and it is used there. The refinement uses that a step of the pipe changes the
window by appending, by removing at the front, or not at all, and `LocalsAgree`, an
invariant next to `PipeInv`: a process is in `write` exactly while a part of its request
is left, and in `read` exactly while it asks for something.

**`DiskProofs`**, for every set of processes and buffers and every queue of at least three
descriptors (`DiskAssumption`): `DiskDescriptors` whatever the callers do; for
callers with different buffers (`Exclusive`) `DiskInFlight` and `DiskNoNull`.
`DiskInv` adds that exactly the waiting processes have descriptors, that their
buffers differ, and that the buffer of a request in flight is marked (`InFlightIsBusy`):
the last is what keeps `virtio_disk_rw` from leaving and freeing the chain while
the device still has it.

**`BioProofs`**, for every finite set of processes and buffers and every set of blocks
(`BioAssumption`): for `Serial`, `BioCounts` and `BioHeldBuffers`; with `Exclusive` as
well, `BioContents`; and `BioDescriptors` always. The driver's lemmas are cited from
`DiskProofs`, since the cache takes the driver's steps. The invariant has three
layers. `BioTypes` and `PositionsAgree` hold of any callers; `SerialInv` adds
`TakersAreAlone` and `OneBufferPerBlock` (no block is cached twice), which a `bget`
preempted after its scan would break; `ContentInv` adds that disk and valid buffers
are current unless someone is about to write or read them (`MediaIsCurrent`,
`DataIsCurrent`, with `Pending` for the moment at which the device has acted).
`RefcntCountsHolders` is about cardinalities and uses the theorems on finite sets.

**`MemoryProofs`**, for every number of processes, of pages (at least the eight of the first
process), of bytes per page and of pages of an image with any holes, and for every set of near
and of spared pages (`MemoryAssumption`), where `kalloc` is not
preempted by another `kalloc` (`Serial`): `MemOwners`, `MemNoLeak`, `MemSizes`.
A step moves pages between the free list, one slot of the table and the hands of one
call; `OwnersMove` says that such a step keeps all owners apart, and each action is
shown to be one (`Changed`, `Alone`, `Moves`). That the moves are disjoint needs
the rest of `MemInv`: what a call has reached determines what it holds (`CallOK`), which
pages of the new address space are mapped so far (`Progress`), that the slot of a fork under
way is worked on by no other call (`ChildrenDiffer`), that the space `sbrk` extends agrees
with the process's own up to the old size (`HandOK`), so that giving up frees just
the new pages, that what is below the size and not mapped is a hole (`SlotOK`), and that the head `kalloc` has read is still the head (`OneInKalloc`). The cardinalities
in `PagesHaveOneOwner` follow from a bijection between mapped virtual pages and
their frames.

**`FileProofs`**, for every number of processes, files, descriptors, inodes and pages
(`FileAssumption`), where `filealloc` keeps out of the windows of other processes
(`Serial`) and a count out of other counts (`Atomic`): `FileCounts`, `FileLive`, `FilePipeEnds`, `FileInodes`, and `FileNoPanic`
(`fileclose` never meets a file without references). That `ref` counts descriptors is
true only between calls. `FileInv` says what a reference is in the middle of one
(`IsRef`): a descriptor, unless `dup` or `dup2` has stored it and `filedup` has not counted it
yet, or `dup2` or `exit` has closed its file and not cleared it yet; or a file in the hands of
`open`, `pipe` or `fileclose`. Then `ref` is the number of references at all times
(`Counts`), and every action moves, adds or removes one (`MovedRef`, `MoreRefs`,
`FewerRefs`) with the theorems on finite sets. A process with a reference is safe from the
others (`OwnFile`), because whoever relies on what a file is either has its only
reference or knows that it has none: a `filealloc` that has found a file (`TakeOK`, the
place where `Serial` is used), a `fileclose` that has dropped the last reference. Every
pipe has one file per end (`OneEnd`), so that the last `fileclose` of an end is the
moment to call `pipeclose`; the page of a `sys_pipe` in its cleanup, which section 4
shows to be freed under its files, is the one exception (`Spoiling`). The lemmas on
`filedup` and `fileclose` are about a count in one step (`AtomicDup` and so on); `CountsOK`
says that at most one count is under way and that its file still has the count it has
loaded, so that the store does just that (`StoreIs`). `iref` bounds
the users of an inode from above only, since `sys_open` without a free descriptor loses a
reference.

**`FsProofs`**, for every set of names and every `Cut` on it, every finite set of processes, every number of
inodes, blocks, cache slots, directory entries and power failures (`FsAssumption`), where
system calls on the file system exclude each other (`Excl`): `FsNames`, `FsBlocks`,
`FsOpen`, `FsLeaks`, `FsLinks` and `FsTypes`, all from `FsInvariant`. Since calls exclude
each other, `FsInv` says of some process `p` that no other is in a call (`Good`); it
has three layers, by what they survive.
`CacheInv` is about the inode cache: `ref` counts the open files of a slot, the
references of the call under way and those that failed opens have forgotten, no inode has two slots, and an open file has the slot
it was opened with. It says nothing of the disk and so holds even after a crash that
did harm. `DiskInv` holds as long as nothing is torn: slots in use agree with the
disk unless the call is about to write them (`CoherentOK`), blocks of inodes that can be
reached are marked and not shared (`BlocksOK`), and the point a call has reached says what
it has yet to write (`DiskOK`). Its core is `CountsOK`: an inode has at least as many
links as names plus what the call still owes (`Owed`, +1 after an entry is erased and
before the count is written, -1 the other way round). "At least" is what a power failure
keeps: create, mkdir and unlink err on the side of too many links, so `iput` never frees
an inode with a name. Rename alone has it the other way round, a second name before the
first is erased, which is why a crash there is torn. `LeakInv` holds until the first
crash and has the same sums with equality, for the bitmap and the root as well.
The window of `FsReuse.cfg`, in which `iput` works on a slot with `ref` 0, is `Freeing`:
such a slot counts as in use (`InUse`), which only exclusion makes true.

Only model-checked: the liveness properties (`NoStarvation`, `KilledProcessesEnd`,
`WaitReturns`, `ReadyProcessesRun`, `ClosedEndIsSeen`, `KilledLeaves`, `CallsReturn`), since
fairness and ENABLED are outside the prover. Every invariant that a passing run checks is
stated by a theorem, and so is the refinement of `Channel`.

## 6. Plan

The modules are written and the invariants proved. What would come next: the console's
input ring, names in nested directories with `namei`'s walk, indirect blocks, and the
termination arguments behind the liveness properties.

## 7. Not modelled

* Console input ring: one writer (the interrupt handler) and one reader, no
  lock, bytes dropped when full; only Ctrl-C and the waiting loop are modelled.
* Nested directories and `namei`'s walk; indirect blocks; reading; file
  offsets, `lseek`, `fstat`, `ioctl`; truncation to a length other than 0.
* ELF contents, page-table indices, `copyin` and `copyout`, the kernel's page table,
  system-call dispatch, boot, the saving of general registers, and the boot-time
  polling path of the disk driver: sequential, or below the level of the models.
* User land: shell, allocator, tests and build tool are sequential programs over the
  system calls. `mkfs.c` runs on the host. `ports/myos` is a C library; `ports/tinycc`,
  `ports/neatvi` and `ports/kilo` are third-party programs. They make up nearly all of the
  repository's lines (about 136,000 of 143,000, most of them TinyCC and the
  Windows headers in it), so the modelled part, the kernel, is a few percent of the whole.
