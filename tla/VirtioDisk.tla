----------------------------- MODULE VirtioDisk -----------------------------
(***************************************************************************)
(* The disk driver of virtio_disk.c: descriptors, requests in flight, the  *)
(* completion interrupt, and the processes that sleep for a descriptor or  *)
(* for their buffer.  vdisk_lock is held, with interrupts off, from entry  *)
(* or the end of a sleep to the next sleep or the return, so each of these *)
(* segments is one step.  The path without a process (myproc() == 0, the   *)
(* boot code, which polls) runs alone and is left out.                     *)
(*                                                                         *)
(* The driver does not keep two callers off the same buffer; that is left  *)
(* to its callers.  Exclusive says whether they do.                        *)
(***************************************************************************)
EXTENDS Integers, FiniteSets

CONSTANTS
  Procs,      \* processes
  Bufs,       \* buffers of the cache
  NUM,        \* descriptors of the queue
  MaxCalls,   \* bound: calls of virtio_disk_rw by each process
  Exclusive,  \* do the callers never use a buffer that another one uses?
  NoBuf       \* the null pointer in info[].b

ASSUME DiskAssumption ==
  /\ NUM \in Nat /\ NUM >= 3
  /\ MaxCalls \in Nat
  /\ Exclusive \in BOOLEAN
  /\ NoBuf \notin Bufs

Descs == 0 .. NUM - 1

VARIABLES
  free,     \* descriptors with free[i] = 1
  infob,    \* info[i].b
  busy,     \* buffers with b->disk = 1
  dpc,      \* dpc[p]: "out" of the driver, "alloc" or "wait" in one of its loops
  dbuf,     \* dbuf[p]: the argument b
  idx,      \* idx[p]: the three descriptors of the request
  asleep,   \* asleep[p]: "no", on "free" (&disk.free[0]) or on "buf" (b)
  avail,    \* heads the device has not completed yet
  used,     \* heads completed and not yet seen by the interrupt handler
  calls,    \* calls[p]: calls so far, for the bound
  crashed   \* the handler dereferenced a null pointer

driver == <<free, infob, busy, dpc, dbuf, idx, asleep, avail, used, crashed>>
diskVars == <<driver, calls>>

DiskInit ==
  /\ free = Descs
  /\ infob = [i \in Descs |-> NoBuf]
  /\ busy = {}
  /\ dpc = [p \in Procs |-> "out"]
  /\ dbuf = [p \in Procs |-> NoBuf]
  /\ idx = [p \in Procs |-> {}]
  /\ asleep = [p \in Procs |-> "no"]
  /\ avail = {} /\ used = {}
  /\ calls = [p \in Procs |-> 0]
  /\ crashed = FALSE

-----------------------------------------------------------------------------
Lowest(S) == CHOOSE x \in S : \A y \in S : x <= y

\* alloc3_desc: the three free descriptors with the lowest numbers.
Three ==
  LET a == Lowest(free)
      b == Lowest(free \ {a})
  IN {a, b, Lowest(free \ {a, b})}

\* The first descriptor of the request, which names it in the rings.
HeadOf(D) == Lowest(D)

\* Mutant: a failed alloc3_desc keeps the descriptors it has taken.
SubmitKeeps(p, b) ==
  /\ dbuf' = [dbuf EXCEPT ![p] = b]
  /\ \/ /\ Cardinality(free) < 3
        /\ dpc' = [dpc EXCEPT ![p] = "alloc"]
        /\ asleep' = [asleep EXCEPT ![p] = "free"]
        /\ free' = {}
        /\ UNCHANGED <<infob, busy, idx, avail>>
     \/ /\ Cardinality(free) >= 3
        /\ free' = free \ Three
        /\ idx' = [idx EXCEPT ![p] = Three]
        /\ infob' = [infob EXCEPT ![HeadOf(Three)] = b]
        /\ busy' = busy \cup {b}
        /\ avail' = avail \cup {HeadOf(Three)}
        /\ dpc' = [dpc EXCEPT ![p] = "wait"]
        /\ asleep' = [asleep EXCEPT ![p] = "buf"]
  /\ UNCHANGED <<used, crashed>>

\* From the loop around alloc3_desc to the next sleep: with fewer than three
\* free descriptors give back what was taken and sleep; otherwise fill in the
\* descriptors, mark the buffer, hand the request to the device and sleep.
Submit(p, b) ==
  /\ dbuf' = [dbuf EXCEPT ![p] = b]
  /\ \/ /\ Cardinality(free) < 3
        /\ dpc' = [dpc EXCEPT ![p] = "alloc"]
        /\ asleep' = [asleep EXCEPT ![p] = "free"]
        /\ UNCHANGED <<free, infob, busy, idx, avail>>
     \/ /\ Cardinality(free) >= 3
        /\ free' = free \ Three
        /\ idx' = [idx EXCEPT ![p] = Three]
        /\ infob' = [infob EXCEPT ![HeadOf(Three)] = b]
        /\ busy' = busy \cup {b}
        /\ avail' = avail \cup {HeadOf(Three)}
        /\ dpc' = [dpc EXCEPT ![p] = "wait"]
        /\ asleep' = [asleep EXCEPT ![p] = "buf"]
  /\ UNCHANGED <<used, crashed>>

\* A buffer that some process has in the driver.
InUse(b) == \E q \in Procs : dpc[q] # "out" /\ dbuf[q] = b

\* virtio_disk_rw is entered.
Rw(p, b) ==
  /\ dpc[p] = "out"
  /\ Exclusive => ~InUse(b)
  /\ Submit(p, b)

AllocAgain(p) ==
  /\ dpc[p] = "alloc" /\ asleep[p] = "no"
  /\ Submit(p, dbuf[p])

\* while (b->disk == 1): woken too early, by Ctrl-C or for another's request.
SleepAgain(p) ==
  /\ dpc[p] = "wait" /\ asleep[p] = "no" /\ dbuf[p] \in busy
  /\ asleep' = [asleep EXCEPT ![p] = "buf"]
  /\ UNCHANGED <<free, infob, busy, dpc, dbuf, idx, avail, used, crashed>>

\* Mutant: one sleep, without looking at b->disk again.
FinishUnchecked(p) ==
  /\ dpc[p] = "wait" /\ asleep[p] = "no"
  /\ infob' = [infob EXCEPT ![HeadOf(idx[p])] = NoBuf]
  /\ free' = free \cup idx[p]
  /\ idx' = [idx EXCEPT ![p] = {}]
  /\ asleep' = [q \in Procs |-> IF asleep[q] = "free" THEN "no" ELSE asleep[q]]
  /\ dpc' = [dpc EXCEPT ![p] = "out"]
  /\ dbuf' = [dbuf EXCEPT ![p] = NoBuf]
  /\ UNCHANGED <<busy, avail, used, crashed>>

\* Mutant: free_desc wakes nobody.
FinishQuietly(p) ==
  /\ dpc[p] = "wait" /\ asleep[p] = "no" /\ dbuf[p] \notin busy
  /\ infob' = [infob EXCEPT ![HeadOf(idx[p])] = NoBuf]
  /\ free' = free \cup idx[p]
  /\ idx' = [idx EXCEPT ![p] = {}]
  /\ dpc' = [dpc EXCEPT ![p] = "out"]
  /\ dbuf' = [dbuf EXCEPT ![p] = NoBuf]
  /\ UNCHANGED <<asleep, busy, avail, used, crashed>>

\* info[idx[0]].b = 0; free_chain(idx[0]), which wakes the sleepers on free[0];
\* return.
Finish(p) ==
  /\ dpc[p] = "wait" /\ asleep[p] = "no" /\ dbuf[p] \notin busy
  /\ infob' = [infob EXCEPT ![HeadOf(idx[p])] = NoBuf]
  /\ free' = free \cup idx[p]
  /\ idx' = [idx EXCEPT ![p] = {}]
  /\ asleep' = [q \in Procs |-> IF asleep[q] = "free" THEN "no" ELSE asleep[q]]
  /\ dpc' = [dpc EXCEPT ![p] = "out"]
  /\ dbuf' = [dbuf EXCEPT ![p] = NoBuf]
  /\ UNCHANGED <<busy, avail, used, crashed>>

\* The device has done the request with head i (external).
DeviceDone(i) ==
  /\ i \in avail
  /\ avail' = avail \ {i}
  /\ used' = used \cup {i}
  /\ UNCHANGED <<free, infob, busy, dpc, dbuf, idx, asleep, crashed>>

\* virtio_disk_intr handles all completed requests.  The device reports no errors: the panic
\* on a status other than 0 is left out.
Intr ==
  /\ used # {}
  /\ LET done == {infob[i] : i \in used} IN
       /\ crashed' = (NoBuf \in done)
       /\ busy' = busy \ done
       /\ asleep' = [p \in Procs |->
             IF asleep[p] = "buf" /\ dbuf[p] \in done THEN "no" ELSE asleep[p]]
  /\ used' = {}
  /\ UNCHANGED <<free, infob, dpc, dbuf, idx, avail>>

\* consoleintr(3) makes a sleeping process run.
CtrlC(p) ==
  /\ asleep[p] # "no"
  /\ asleep' = [asleep EXCEPT ![p] = "no"]
  /\ UNCHANGED <<free, infob, busy, dpc, dbuf, idx, avail, used, crashed>>

DriverStep(p) == AllocAgain(p) \/ SleepAgain(p) \/ Finish(p)

Interrupts == Intr \/ (\E i \in Descs : DeviceDone(i)) \/ (\E p \in Procs : CtrlC(p))

DiskNext ==
  /\ ~crashed
  /\ \/ \E p \in Procs, b \in Bufs :
          /\ calls[p] < MaxCalls
          /\ calls' = [calls EXCEPT ![p] = @ + 1]
          /\ Rw(p, b)
     \/ (\E p \in Procs : DriverStep(p)) /\ UNCHANGED calls
     \/ Interrupts /\ UNCHANGED calls

DiskSpec == DiskInit /\ [][DiskNext]_diskVars

(***************************************************************************)
(* Fairness.  An awake process is scheduled, the device completes every    *)
(* request and its interrupt is taken (the scheduler loop turns interrupts *)
(* on in every round).                                                     *)
(***************************************************************************)
DiskFairSpec ==
  /\ DiskSpec
  /\ WF_diskVars(~crashed /\ Intr /\ UNCHANGED calls)
  /\ \A i \in Descs : WF_diskVars(~crashed /\ DeviceDone(i) /\ UNCHANGED calls)
  /\ \A p \in Procs : WF_diskVars(~crashed /\ DriverStep(p) /\ UNCHANGED calls)

-----------------------------------------------------------------------------
(* Properties                                                              *)

\* Every variable has its type.
DiskTypeOK ==
  /\ free \subseteq Descs
  /\ infob \in [Descs -> Bufs \cup {NoBuf}]
  /\ busy \subseteq Bufs
  /\ dpc \in [Procs -> {"out", "alloc", "wait"}]
  /\ dbuf \in [Procs -> Bufs \cup {NoBuf}]
  /\ idx \in [Procs -> SUBSET Descs]
  /\ asleep \in [Procs -> {"no", "free", "buf"}]
  /\ avail \subseteq Descs /\ used \subseteq Descs
  /\ calls \in [Procs -> 0 .. MaxCalls]
  /\ crashed \in BOOLEAN

\* No descriptor leaks and none is given out twice: the free ones and those of
\* the requests under way partition the queue, through failed allocations too.
DescsPartition ==
  /\ \A p \in Procs : idx[p] \cap free = {}
  /\ \A p, q \in Procs : p # q => idx[p] \cap idx[q] = {}
  /\ free \cup UNION {idx[p] : p \in Procs} = Descs

\* A request that the device or the interrupt handler still works on belongs to
\* a process that waits for it, and info[] leads the handler to its buffer: the
\* driver never frees or reuses the descriptors of a request in flight.
InFlightIsOwned ==
  \A i \in avail \cup used :
    \E p \in Procs : dpc[p] = "wait" /\ HeadOf(idx[p]) = i /\ infob[i] = dbuf[p]

\* The interrupt handler does not write through a null pointer.
NoNullBuf == ~crashed

\* Every call of virtio_disk_rw returns, with more callers than the queue has
\* room for too, as long as the others do not call without end.
CallsReturn == \A p \in Procs : dpc[p] # "out" ~> dpc[p] = "out"

=============================================================================
