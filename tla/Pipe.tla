-------------------------------- MODULE Pipe --------------------------------
(***************************************************************************)
(* A pipe: pipewrite, piperead and pipeclose of sysfile.c on the ring      *)
(* buffer of struct pipe, called by processes that share its two ends.     *)
(*                                                                         *)
(* pi->lock is held, with interrupts off, from the entry of a call or the  *)
(* end of a sleep to the next sleep or the return; each such segment is    *)
(* one step.  nread and nwrite are unsigned integers that wrap around at   *)
(* W (2^32 in the kernel), which PIPESIZE divides.                         *)
(***************************************************************************)
EXTENDS Integers, Sequences, FiniteSets

CONSTANTS
  Writers, Readers,  \* processes that hold the write end, the read end
  Bytes,             \* values of a byte
  PIPESIZE,          \* size of the ring
  W,                 \* modulus of uint
  MaxLen,            \* bound: bytes of one call (sys_write cuts at 128)
  MaxBytes,          \* bound: bytes written to the pipe in a behaviour
  Faults             \* may a read hit an unmapped user page?

ASSUME PipeAssumption ==
  /\ PIPESIZE \in Nat \ {0}
  /\ W \in Nat /\ W > PIPESIZE /\ W % PIPESIZE = 0
  /\ MaxLen \in Nat \ {0}
  /\ MaxBytes \in Nat
  /\ Faults \in BOOLEAN
  /\ Writers # {} /\ Readers # {} /\ Bytes # {}

Procs == Writers \cup Readers
Buffers == UNION {[1 .. n -> Bytes] : n \in 1 .. MaxLen}

VARIABLES
  data, nread, nwrite, readopen, writeopen,  \* struct pipe
  freed,      \* kfree(pi) was called
  call,       \* call[p]: "none", "write" or "read"
  rest,       \* rest[p]: bytes of the write not yet in the ring
  want,       \* want[p]: size of the read
  slept,      \* slept[p]: the read under way has slept
  chan,       \* chan[p]: "none" awake, "nread" or "nwrite" asleep there
  killed,     \* p->killed
  rfd, wfd,   \* processes whose descriptor refers to the end
  asked,      \* bytes that writes were called with, for the bound
  ret,        \* which process returned last from a call, and what
  sent, rcvd  \* history: all bytes put into the ring, taken out of it

pipe == <<data, nread, nwrite, readopen, writeopen, freed>>
vars == <<pipe, call, rest, want, slept, chan, killed, rfd, wfd, ret, asked, sent, rcvd>>

\* n++, k times, on a uint.
Plus(n, k) == (n + k) % W

\* nwrite - nread in unsigned arithmetic.
Count == (nwrite - nread) % W

Init ==
  /\ data = [i \in 0 .. PIPESIZE - 1 |-> CHOOSE b \in Bytes : TRUE]
  /\ nread = 0 /\ nwrite = 0
  /\ readopen = TRUE /\ writeopen = TRUE
  /\ freed = FALSE
  /\ call = [p \in Procs |-> "none"]
  /\ rest = [p \in Procs |-> << >>]
  /\ want = [p \in Procs |-> 0]
  /\ slept = [p \in Procs |-> FALSE]
  /\ chan = [p \in Procs |-> "none"]
  /\ killed = [p \in Procs |-> FALSE]
  /\ rfd = Readers /\ wfd = Writers
  /\ ret = << >>
  /\ asked = 0
  /\ sent = << >> /\ rcvd = << >>

-----------------------------------------------------------------------------
\* Mutant: wakeup stops after the first sleeper it finds.
WakeupOneThenSleep(c, p, d) ==
  LET s == {x \in Procs \ {p} : chan[x] = c}
      w == CHOOSE x \in s : TRUE
  IN chan' = [x \in Procs |-> IF x = p THEN d ELSE IF s # {} /\ x = w THEN "none" ELSE chan[x]]

\* wakeup(c), and then sleep(d) of process p (d = "none": p does not sleep).
WakeupThenSleep(c, p, d) ==
  chan' = [x \in Procs |-> IF x = p THEN d ELSE IF chan[x] = c THEN "none" ELSE chan[x]]

\* Return from the call; its local variables are gone.
Return(p, r) ==
  /\ call' = [call EXCEPT ![p] = "none"]
  /\ rest' = [rest EXCEPT ![p] = << >>]
  /\ want' = [want EXCEPT ![p] = 0]
  /\ slept' = [slept EXCEPT ![p] = FALSE]
  /\ ret' = <<p, r>>

\* A process that is killed does not come back to user mode to call again.
Idle(p) == call[p] = "none"

WriteCall(p, b) ==
  /\ Idle(p) /\ ~killed[p] /\ p \in wfd
  /\ asked + Len(b) <= MaxBytes
  /\ asked' = asked + Len(b)
  /\ call' = [call EXCEPT ![p] = "write"]
  /\ rest' = [rest EXCEPT ![p] = b]
  /\ UNCHANGED <<pipe, want, slept, chan, killed, rfd, wfd, ret, sent, rcvd>>

\* Mutant: the slot is computed after the counter was incremented.
FilledLate(b, k) ==
  [i \in 0 .. PIPESIZE - 1 |->
     LET j == (i - nwrite - 1) % PIPESIZE IN IF j < k THEN b[j + 1] ELSE data[i]]

\* The ring after the first k bytes of b have been written to it.
Filled(b, k) ==
  [i \in 0 .. PIPESIZE - 1 |->
     LET j == (i - nwrite) % PIPESIZE IN IF j < k THEN b[j + 1] ELSE data[i]]

\* Mutant: pipewrite returns when the ring is full, with a part of the buffer in it.
PipeWriteShort(p) ==
  /\ call[p] = "write" /\ chan[p] = "none"
  /\ ~killed[p] /\ readopen
  /\ LET b == rest[p]
         room == PIPESIZE - Count
         k == IF Len(b) <= room THEN Len(b) ELSE room
     IN /\ data' = Filled(b, k)
        /\ nwrite' = Plus(nwrite, k)
        /\ sent' = sent \o SubSeq(b, 1, k)
  /\ WakeupThenSleep("nread", p, "none")
  /\ Return(p, "wrote")
  /\ UNCHANGED <<nread, readopen, writeopen, freed, killed, rfd, wfd, asked, rcvd>>

\* pipewrite between two places where the lock is free: copy until the ring is
\* full or the buffer is done; sleep in the first case, return in the second.
PipeWrite(p) ==
  /\ call[p] = "write" /\ chan[p] = "none"
  /\ ~killed[p] /\ readopen
  /\ LET b == rest[p]
         room == PIPESIZE - Count
         k == IF Len(b) <= room THEN Len(b) ELSE room
     IN /\ data' = Filled(b, k)
        /\ nwrite' = Plus(nwrite, k)
        /\ sent' = sent \o SubSeq(b, 1, k)
        /\ \/ /\ k < Len(b)
              /\ rest' = [rest EXCEPT ![p] = SubSeq(b, k + 1, Len(b))]
              /\ WakeupThenSleep("nread", p, "nwrite")
              /\ UNCHANGED <<call, want, slept, ret>>
           \/ /\ k = Len(b)
              /\ WakeupThenSleep("nread", p, "none")
              /\ Return(p, "wrote")
  /\ UNCHANGED <<nread, readopen, writeopen, freed, killed, rfd, wfd, asked, rcvd>>

\* pipewrite returns -1: killed, or nobody can read.
PipeWriteFails(p) ==
  /\ call[p] = "write" /\ chan[p] = "none"
  /\ killed[p] \/ ~readopen
  /\ Return(p, "error")
  /\ UNCHANGED <<pipe, chan, killed, rfd, wfd, asked, sent, rcvd>>

-----------------------------------------------------------------------------
ReadCall(p, n) ==
  /\ Idle(p) /\ ~killed[p] /\ p \in rfd
  /\ call' = [call EXCEPT ![p] = "read"]
  /\ want' = [want EXCEPT ![p] = n]
  /\ UNCHANGED <<pipe, rest, slept, chan, killed, rfd, wfd, ret, asked, sent, rcvd>>

\* A killed reader gives up where it looks at the flag: when the ring is empty
\* and when it comes out of sleep, but not when it finds data at once.
GivesUp(p) == killed[p] /\ (Count = 0 \/ slept[p])

Take(k) ==
  /\ nread' = Plus(nread, k)
  /\ rcvd' = rcvd \o [i \in 1 .. k |-> data[(nread + i - 1) % PIPESIZE]]

PipeRead(p) ==
  /\ call[p] = "read" /\ chan[p] = "none"
  /\ Count > 0 /\ ~GivesUp(p)
  /\ Take(IF want[p] <= Count THEN want[p] ELSE Count)
  /\ WakeupThenSleep("nwrite", p, "none")
  /\ Return(p, "got")
  /\ UNCHANGED <<data, nwrite, readopen, writeopen, freed, killed, rfd, wfd, asked, sent>>

\* The buffer of the reader ends in an unmapped page: what was taken out of the
\* ring before is gone, and no writer is woken.
PipeReadFaults(p) ==
  /\ Faults
  /\ call[p] = "read" /\ chan[p] = "none"
  /\ Count > 0 /\ ~GivesUp(p)
  /\ \E k \in 0 .. (IF want[p] <= Count THEN want[p] ELSE Count) - 1 : Take(k)
  /\ Return(p, "error")
  /\ UNCHANGED <<data, nwrite, readopen, writeopen, freed, chan,
                 killed, rfd, wfd, asked, sent>>

PipeReadSleeps(p) ==
  /\ call[p] = "read" /\ chan[p] = "none"
  /\ Count = 0 /\ ~killed[p] /\ writeopen
  /\ slept' = [slept EXCEPT ![p] = TRUE]
  /\ WakeupThenSleep("nwrite", p, "nread")
  /\ UNCHANGED <<pipe, call, rest, want, killed, rfd, wfd, ret, asked, sent, rcvd>>

\* Mutant: an empty ring is the end of the file, open writers or not.
PipeReadEofEarly(p) ==
  /\ call[p] = "read" /\ chan[p] = "none"
  /\ Count = 0 /\ ~killed[p]
  /\ Return(p, "eof")
  /\ UNCHANGED <<pipe, chan, killed, rfd, wfd, asked, sent, rcvd>>

PipeReadEof(p) ==
  /\ call[p] = "read" /\ chan[p] = "none"
  /\ Count = 0 /\ ~killed[p] /\ ~writeopen
  /\ Return(p, "eof")
  /\ UNCHANGED <<pipe, chan, killed, rfd, wfd, asked, sent, rcvd>>

PipeReadFails(p) ==
  /\ call[p] = "read" /\ chan[p] = "none"
  /\ GivesUp(p)
  /\ Return(p, "error")
  /\ UNCHANGED <<pipe, chan, killed, rfd, wfd, asked, sent, rcvd>>

-----------------------------------------------------------------------------
\* Mutant: the page is freed with the first end that is closed.
CloseWriteFrees(p) ==
  /\ Idle(p) /\ p \in wfd
  /\ wfd' = wfd \ {p}
  /\ writeopen' = (wfd' # {})
  /\ chan' = [x \in Procs |-> IF wfd' = {} /\ chan[x] = "nread" THEN "none" ELSE chan[x]]
  /\ freed' = (wfd' = {})
  /\ UNCHANGED <<data, nread, nwrite, readopen, call, rest, want, slept, killed, rfd,
                 ret, asked, sent, rcvd>>

\* Mutant: closing the last write end wakes nobody.
CloseWriteQuietly(p) ==
  /\ Idle(p) /\ p \in wfd
  /\ wfd' = wfd \ {p}
  /\ writeopen' = (wfd' # {})
  /\ freed' = (wfd' = {} /\ ~readopen)
  /\ UNCHANGED <<data, nread, nwrite, readopen, call, rest, want, slept, chan, killed, rfd,
                 ret, asked, sent, rcvd>>

\* fileclose of the descriptor of p; the last one of an end calls pipeclose.
CloseWrite(p) ==
  /\ Idle(p) /\ p \in wfd
  /\ wfd' = wfd \ {p}
  /\ writeopen' = (wfd' # {})
  /\ chan' = [x \in Procs |-> IF wfd' = {} /\ chan[x] = "nread" THEN "none" ELSE chan[x]]
  /\ freed' = (wfd' = {} /\ ~readopen)
  /\ UNCHANGED <<data, nread, nwrite, readopen, call, rest, want, slept, killed, rfd,
                 ret, asked, sent, rcvd>>

CloseRead(p) ==
  /\ Idle(p) /\ p \in rfd
  /\ rfd' = rfd \ {p}
  /\ readopen' = (rfd' # {})
  /\ chan' = [x \in Procs |-> IF rfd' = {} /\ chan[x] = "nwrite" THEN "none" ELSE chan[x]]
  /\ freed' = (rfd' = {} /\ ~writeopen)
  /\ UNCHANGED <<data, nread, nwrite, writeopen, call, rest, want, slept, killed, wfd,
                 ret, asked, sent, rcvd>>

\* Mutant: the flag is set and a sleeper goes on sleeping.
CtrlCFlagOnly(p) ==
  /\ killed' = [killed EXCEPT ![p] = TRUE]
  /\ UNCHANGED <<pipe, call, rest, want, slept, chan, rfd, wfd, ret, asked, sent, rcvd>>

\* consoleintr(3) for process p: the flag, and READY if it was asleep.
CtrlC(p) ==
  /\ killed' = [killed EXCEPT ![p] = TRUE]
  /\ chan' = [chan EXCEPT ![p] = "none"]
  /\ UNCHANGED <<pipe, call, rest, want, slept, rfd, wfd, ret, asked, sent, rcvd>>

-----------------------------------------------------------------------------
PipeStep(p) ==
  \/ PipeWrite(p) \/ PipeWriteFails(p)
  \/ PipeRead(p) \/ PipeReadFaults(p) \/ PipeReadSleeps(p) \/ PipeReadEof(p) \/ PipeReadFails(p)

Close(p) == CloseWrite(p) \/ CloseRead(p)

Next ==
  \E p \in Procs :
    \/ \E b \in Buffers : WriteCall(p, b)
    \/ \E n \in 1 .. MaxLen : ReadCall(p, n)
    \/ PipeStep(p) \/ Close(p) \/ CtrlC(p)

Spec == Init /\ [][Next]_vars

(***************************************************************************)
(* Fairness.  A process that is awake inside a call is scheduled (module   *)
(* Proc, NoStarvation), and a killed process leaves through proc_exit,     *)
(* which closes its descriptors.  Programs need not call or close.         *)
(***************************************************************************)
Fairness ==
  \A p \in Procs : WF_vars(PipeStep(p)) /\ WF_vars(killed[p] /\ Close(p))

FairSpec == Spec /\ Fairness

-----------------------------------------------------------------------------
(* Properties                                                              *)

\* Every variable has its type.
TypeOK ==
  /\ data \in [0 .. PIPESIZE - 1 -> Bytes]
  /\ nread \in 0 .. W - 1 /\ nwrite \in 0 .. W - 1
  /\ readopen \in BOOLEAN /\ writeopen \in BOOLEAN /\ freed \in BOOLEAN
  /\ call \in [Procs -> {"none", "write", "read"}]
  /\ DOMAIN rest = Procs /\ \A p \in Procs : rest[p] \in Buffers \cup {<< >>}
  /\ want \in [Procs -> 0 .. MaxLen]
  /\ slept \in [Procs -> BOOLEAN]
  /\ chan \in [Procs -> {"none", "nread", "nwrite"}]
  /\ killed \in [Procs -> BOOLEAN]
  /\ rfd \subseteq Readers /\ wfd \subseteq Writers
  /\ ret \in {<< >>} \cup (Procs \X {"wrote", "got", "eof", "error"})
  /\ asked \in 0 .. MaxBytes

\* The ring holds exactly the bytes written and not yet read, in order, also
\* when the counters have wrapped around: readers get what writers put in,
\* nothing is overwritten, lost, duplicated or invented.
RingIsFifo ==
  /\ Count <= PIPESIZE
  /\ Len(sent) = Len(rcvd) + Count
  /\ \A i \in 1 .. Len(rcvd) : rcvd[i] = sent[i]
  /\ \A i \in 1 .. Count :
       data[(nread + i - 1) % PIPESIZE] = sent[Len(rcvd) + i]

\* Nobody sleeps past the event it waits for: a reader asleep has an empty ring
\* and a writer that may still come, a writer asleep has a full ring and a
\* reader that may still come.
NoLostWakeup ==
  \A p \in Procs :
    /\ chan[p] = "nread" => Count = 0 /\ writeopen
    /\ chan[p] = "nwrite" => Count = PIPESIZE /\ readopen

\* The page of the pipe is freed only when no call on it is under way and no
\* descriptor is left that could start one.
NoUseAfterFree ==
  freed => rfd = {} /\ wfd = {} /\ \A p \in Procs : call[p] = "none"

\* The pipe implements the bounded byte channel: write returns its length only when
\* every byte it was called with is in the queue, read returns the next bytes, as many
\* as it asked for and as there are, and end of file only when nothing can come any more.
Window == [i \in 1 .. Count |-> data[(nread + i - 1) % PIPESIZE]]
Ch == INSTANCE Channel WITH q <- Window, ropen <- readopen, wopen <- writeopen,
                            Cap <- PIPESIZE
ImplementsChannel == Ch!Spec

\* When the last writer has closed its end every reader returns, and when the last
\* reader has, every writer: end of file and broken pipe are delivered whatever the
\* order of close, read and write, to calls that are asleep too.
ClosedEndIsSeen ==
  \A p \in Procs :
    \/ call[p] = "read" /\ ~writeopen
    \/ call[p] = "write" /\ ~readopen
    ~> call[p] = "none"

\* A process hit by Ctrl-C gets out of the pipe and drops both ends.
KilledLeaves == \A p \in Procs : killed[p] ~> p \notin rfd \cup wfd

=============================================================================
