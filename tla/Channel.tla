------------------------------ MODULE Channel ------------------------------
(***************************************************************************)
(* What a pipe promises to the programs at its two ends: a bounded queue   *)
(* of bytes.  A write puts its bytes into the queue in order and returns   *)
(* its length only when all of them are in.  A read returns as many bytes  *)
(* from the front of the queue as there are and as it asked for, and it    *)
(* reports the end of the file only when the queue is empty and no process *)
(* can write any more.                                                     *)
(***************************************************************************)
EXTENDS Integers, Sequences

CONSTANTS Procs,   \* processes that use the channel
          Cap,     \* bytes the channel can hold
          Bytes,   \* values of a byte
          MaxLen   \* bytes of one call

VARIABLES q,       \* bytes under way
          rest,    \* rest[p]: what the write of p has still to put into the queue
          want,    \* want[p]: how many bytes the read of p asks for
          ropen,   \* some process can still read
          wopen,   \* some process can still write
          ret      \* which process returned last from a call, and what

chanVars == <<q, rest, want, ropen, wopen, ret>>

Requests == UNION {[1 .. n -> Bytes] : n \in 1 .. MaxLen}

Init ==
  /\ q = << >>
  /\ rest = [p \in Procs |-> << >>] /\ want = [p \in Procs |-> 0]
  /\ ropen = TRUE /\ wopen = TRUE
  /\ ret = << >>

NoCall(p) == rest[p] = << >> /\ want[p] = 0

Write(p, b) ==
  /\ NoCall(p)
  /\ rest' = [rest EXCEPT ![p] = b]
  /\ UNCHANGED <<q, want, ropen, wopen, ret>>

Read(p, n) ==
  /\ NoCall(p)
  /\ want' = [want EXCEPT ![p] = n]
  /\ UNCHANGED <<q, rest, ropen, wopen, ret>>

\* The next k bytes of a write enter the queue; with the last of them it returns.
Put(p, k) ==
  /\ ropen /\ wopen
  /\ rest[p] # << >> /\ k <= Len(rest[p]) /\ Len(q) + k <= Cap
  /\ q' = q \o SubSeq(rest[p], 1, k)
  /\ rest' = [rest EXCEPT ![p] = SubSeq(rest[p], k + 1, Len(rest[p]))]
  /\ ret' = IF k = Len(rest[p]) THEN <<p, "wrote">> ELSE ret
  /\ UNCHANGED <<want, ropen, wopen>>

\* Bytes leave the queue at its front.
Get(p) ==
  LET k == IF want[p] <= Len(q) THEN want[p] ELSE Len(q) IN
  /\ ropen
  /\ k > 0
  /\ q' = SubSeq(q, k + 1, Len(q))
  /\ want' = [want EXCEPT ![p] = 0]
  /\ ret' = <<p, "got">>
  /\ UNCHANGED <<rest, ropen, wopen>>

Eof(p) ==
  /\ want[p] > 0
  /\ q = << >> /\ ~wopen
  /\ want' = [want EXCEPT ![p] = 0]
  /\ ret' = <<p, "eof">>
  /\ UNCHANGED <<q, rest, ropen, wopen>>

\* A call may fail at any time (Ctrl-C, no reader); what it has put stays in the queue.
Fail(p) ==
  /\ ~NoCall(p)
  /\ rest' = [rest EXCEPT ![p] = << >>]
  /\ want' = [want EXCEPT ![p] = 0]
  /\ ret' = <<p, "error">>
  /\ UNCHANGED <<q, ropen, wopen>>

\* An end is closed for good.
Shut ==
  /\ \/ ropen' = FALSE /\ wopen' = wopen
     \/ wopen' = FALSE /\ ropen' = ropen
  /\ UNCHANGED <<q, rest, want, ret>>

Next ==
  \/ \E p \in Procs :
       \/ \E b \in Requests : Write(p, b)
       \/ \E n \in 1 .. MaxLen : Read(p, n)
       \/ \E k \in 0 .. MaxLen : Put(p, k)
       \/ Get(p) \/ Eof(p) \/ Fail(p)
  \/ Shut

Spec == Init /\ [][Next]_chanVars

=============================================================================
