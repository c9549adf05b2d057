----------------------------- MODULE DiskProofs -----------------------------
(***************************************************************************)
(* Proofs about module VirtioDisk, for every set of processes and buffers, *)
(* every length of the queue and every number of calls.                    *)
(*                                                                         *)
(* The lemmas are about the actions of the driver alone: BioProofs cites   *)
(* them for the buffer cache, which takes the same steps.                  *)
(***************************************************************************)
EXTENDS VirtioDisk, FiniteSetTheorems, WellFoundedInduction, TLAPS

\* Exactly the processes that wait for the device have descriptors.
WaitersHoldDescs == \A p \in Procs : dpc[p] = "wait" <=> idx[p] # {}

\* A process inside the driver has a buffer, not the null pointer.
CallersHaveBufs == \A p \in Procs : dpc[p] # "out" => dbuf[p] \in Bufs

\* Two processes inside the driver have different buffers.
BufsDiffer ==
  \A p, q \in Procs : dpc[p] # "out" /\ dpc[q] # "out" /\ dbuf[p] = dbuf[q] => p = q

\* The buffer of a request in flight is marked, so that its process does not go on, and a
\* request is not with the device and in the used ring at once.
InFlightIsBusy ==
  /\ avail \cap used = {}
  /\ \A p \in Procs : dpc[p] = "wait" /\ HeadOf(idx[p]) \in avail \cup used => dbuf[p] \in busy

\* The inductive invariant.  Callers that share buffers break its second half.
DiskInv ==
  /\ DiskTypeOK
  /\ DescsPartition
  /\ WaitersHoldDescs
  /\ CallersHaveBufs
  /\ Exclusive => BufsDiffer /\ InFlightIsOwned /\ InFlightIsBusy /\ NoNullBuf

-----------------------------------------------------------------------------
\* Every nonempty set of numbers has a least one.
LEMMA LeastExists ==
  ASSUME NEW S \in SUBSET Nat, S # {}
  PROVE  \E x \in S : \A y \in S : x <= y
<1> DEFINE R == {ss \in Nat \X Nat : ss[1] < ss[2]}
<1>1. IsWellFoundedOn(R, Nat)
  BY NatLessThanWellFounded DEF OpToRel
<1> HIDE DEF R
<1>2. \E x \in S : \A y \in S : ~(<<y, x>> \in R)
  BY <1>1, WFMin
<1>3. \A x, y \in Nat : ~(<<y, x>> \in R) => x <= y
  BY DEF R
<1>4. QED BY <1>2, <1>3

\* The head of a chain is one of its descriptors.
LEMMA LowestIsMember ==
  ASSUME NEW S \in SUBSET Descs, S # {}
  PROVE  Lowest(S) \in S
<1>1. S \in SUBSET Nat
  BY DiskAssumption DEF Descs
<1>2. \E x \in S : \A y \in S : x <= y
  BY <1>1, LeastExists
<1>3. QED BY <1>2 DEF Lowest

\* alloc3_desc takes free descriptors, and at least one.
LEMMA ThreeAreFree ==
  ASSUME DiskTypeOK, Cardinality(free) >= 3
  PROVE  Three \subseteq free /\ Three # {}
<1> DEFINE a == Lowest(free)
           b == Lowest(free \ {a})
           c == Lowest(free \ {a, b})
<1>1. free \in SUBSET Descs /\ IsFiniteSet(free)
  <2>1. IsFiniteSet(Descs)
    BY DiskAssumption, FS_Interval DEF Descs
  <2>2. QED BY <2>1, FS_Subset DEF DiskTypeOK
<1>2. free # {}
  BY FS_EmptySet
<1>3. a \in free
  BY <1>1, <1>2, LowestIsMember
<1>4. Cardinality(free \ {a}) >= 2 /\ IsFiniteSet(free \ {a})
  <2>1. Cardinality(free \ {a}) = Cardinality(free) - 1 /\ IsFiniteSet(free \ {a})
    BY <1>1, <1>3, FS_RemoveElement
  <2>2. Cardinality(free) \in Nat
    BY <1>1, FS_CardinalityType
  <2>3. QED BY <2>1, <2>2
<1>5. b \in free \ {a}
  <2>1. free \ {a} # {}
    BY <1>4, FS_EmptySet
  <2>2. QED BY <1>1, <2>1, LowestIsMember
<1>6. free \ {a, b} # {}
  <2>1. Cardinality((free \ {a}) \ {b}) = Cardinality(free \ {a}) - 1
    BY <1>4, <1>5, FS_RemoveElement
  <2>2. Cardinality(free \ {a}) \in Nat
    BY <1>4, FS_CardinalityType
  <2>3. (free \ {a}) \ {b} # {}
    BY <1>4, <2>1, <2>2, FS_EmptySet
  <2>4. QED BY <2>3
<1>7. c \in free \ {a, b}
  BY <1>1, <1>6, LowestIsMember
<1>8. QED BY <1>3, <1>5, <1>7 DEF Three

\* A request that waits is named by one of its own descriptors, and two requests have
\* different names.
LEMMA HeadsDiffer ==
  ASSUME DiskTypeOK, DescsPartition, WaitersHoldDescs
  PROVE  /\ \A p \in Procs : dpc[p] = "wait" => HeadOf(idx[p]) \in idx[p]
         /\ \A p, q \in Procs : dpc[p] = "wait" /\ dpc[q] = "wait" /\ HeadOf(idx[p]) = HeadOf(idx[q])
                                => p = q
<1>1. ASSUME NEW p \in Procs, dpc[p] = "wait" PROVE HeadOf(idx[p]) \in idx[p]
  <2>1. idx[p] \in SUBSET Descs /\ idx[p] # {}
    BY <1>1 DEF DiskTypeOK, WaitersHoldDescs
  <2>2. QED BY <2>1, LowestIsMember DEF HeadOf
<1>2. QED BY <1>1 DEF DescsPartition

-----------------------------------------------------------------------------
\* Nothing is in flight or taken when the driver starts.
LEMMA DiskInitInv == DiskInit => DiskInv
<1> SUFFICES ASSUME DiskInit PROVE DiskInv
  OBVIOUS
<1>1. DiskTypeOK
  <2>1. 0 \in 0 .. MaxCalls
    BY DiskAssumption
  <2>2. calls \in [Procs -> 0 .. MaxCalls] /\ crashed \in BOOLEAN
    BY <2>1 DEF DiskInit
  <2>3. QED BY <2>2 DEF DiskInit, DiskTypeOK
<1>2. DescsPartition
  BY DEF DiskInit, DescsPartition
<1>3. WaitersHoldDescs /\ CallersHaveBufs /\ BufsDiffer
  BY DEF DiskInit, WaitersHoldDescs, CallersHaveBufs, BufsDiffer
<1>4. InFlightIsOwned /\ InFlightIsBusy /\ NoNullBuf
  BY DEF DiskInit, InFlightIsOwned, InFlightIsBusy, NoNullBuf
<1>5. QED BY <1>1, <1>2, <1>3, <1>4 DEF DiskInv

\* Without three free descriptors the caller sleeps; otherwise its request is submitted.
LEMMA SubmitKeepsInv ==
  ASSUME DiskInv, NEW p \in Procs, NEW b \in Bufs, dpc[p] # "wait",
         Exclusive => \A q \in Procs : dpc[q] # "out" /\ dbuf[q] = b => q = p,
         Submit(p, b), calls' \in [Procs -> 0 .. MaxCalls]
  PROVE  DiskInv'
<1> USE DEF DiskInv
<1>1. CASE Cardinality(free) < 3
  <2>1. ~(Cardinality(free) >= 3)
    <3>1. IsFiniteSet(Descs)
      BY DiskAssumption, FS_Interval DEF Descs
    <3>2. Cardinality(free) \in Nat
      BY <3>1, FS_Subset, FS_CardinalityType DEF DiskTypeOK
    <3>3. QED BY <1>1, <3>2
  <2>2. /\ dbuf' = [dbuf EXCEPT ![p] = b]
        /\ dpc' = [dpc EXCEPT ![p] = "alloc"]
        /\ asleep' = [asleep EXCEPT ![p] = "free"]
        /\ UNCHANGED <<free, infob, busy, idx, avail, used, crashed>>
    BY <2>1 DEF Submit
  <2>3. DiskTypeOK' /\ DescsPartition'
    BY <2>2 DEF DiskTypeOK, DescsPartition
  <2>4. WaitersHoldDescs' /\ CallersHaveBufs'
    BY <2>2 DEF DiskTypeOK, WaitersHoldDescs, CallersHaveBufs
  <2>5. ASSUME Exclusive PROVE (BufsDiffer /\ InFlightIsOwned /\ InFlightIsBusy /\ NoNullBuf)'
    <3>1. \A q \in Procs : /\ dpc'[q] = IF q = p THEN "alloc" ELSE dpc[q]
                           /\ dbuf'[q] = IF q = p THEN b ELSE dbuf[q]
      BY <2>2 DEF DiskTypeOK
    <3>2. BufsDiffer' /\ NoNullBuf'
      BY <2>2, <2>5, <3>1 DEF BufsDiffer, NoNullBuf
    <3>3. InFlightIsOwned' /\ InFlightIsBusy'
      BY <2>2, <2>5, <3>1 DEF InFlightIsOwned, InFlightIsBusy
    <3>4. QED BY <3>2, <3>3
  <2>6. QED BY <2>3, <2>4, <2>5
<1>2. CASE Cardinality(free) >= 3
  <2> DEFINE D == Three
             h == HeadOf(D)
  <2>1. D \subseteq free /\ D # {} /\ D \subseteq Descs
    BY <1>2, ThreeAreFree DEF DiskTypeOK
  <2>2. h \in D
    BY <2>1, LowestIsMember DEF HeadOf
  <2>3. idx[p] = {}
    BY DEF WaitersHoldDescs
  <2>4. ~(Cardinality(free) < 3)
    <3>1. IsFiniteSet(Descs)
      BY DiskAssumption, FS_Interval DEF Descs
    <3>2. Cardinality(free) \in Nat
      BY <3>1, FS_Subset, FS_CardinalityType DEF DiskTypeOK
    <3>3. QED BY <1>2, <3>2
  <2> HIDE DEF D
  <2>5. /\ free' = free \ D
        /\ idx' = [idx EXCEPT ![p] = D]
        /\ infob' = [infob EXCEPT ![h] = b]
        /\ busy' = busy \cup {b}
        /\ avail' = avail \cup {h}
        /\ dpc' = [dpc EXCEPT ![p] = "wait"]
        /\ asleep' = [asleep EXCEPT ![p] = "buf"]
        /\ dbuf' = [dbuf EXCEPT ![p] = b]
        /\ UNCHANGED <<used, crashed>>
    BY <2>4 DEF Submit, D
  <2> HIDE DEF h
  <2>6. DiskTypeOK'
    BY <2>1, <2>2, <2>5 DEF DiskTypeOK
  <2>7. WaitersHoldDescs' /\ CallersHaveBufs'
    BY <2>1, <2>5 DEF DiskTypeOK, WaitersHoldDescs, CallersHaveBufs
  <2>8. DescsPartition'
    <3>1. \A q \in Procs : idx'[q] = IF q = p THEN D ELSE idx[q]
      BY <2>5 DEF DiskTypeOK
    <3>2. \A q \in Procs : idx'[q] \cap free' = {}
      BY <3>1, <2>1, <2>5 DEF DescsPartition
    <3>3. \A q, r \in Procs : q # r => idx'[q] \cap idx'[r] = {}
      BY <3>1, <2>1 DEF DescsPartition
    <3>4. free' \cup UNION {idx'[q] : q \in Procs} = Descs
      <4>1. ASSUME NEW i \in Descs PROVE i \in free' \/ \E q \in Procs : i \in idx'[q]
        <5>1. i \in free \/ \E q \in Procs : i \in idx[q]
          BY <4>1 DEF DescsPartition
        <5>2. QED BY <5>1, <3>1, <2>1, <2>3, <2>5
      <4>2. free' \subseteq Descs /\ \A q \in Procs : idx'[q] \subseteq Descs
        BY <2>6 DEF DiskTypeOK
      <4>3. QED BY <4>1, <4>2
    <3>5. QED BY <3>2, <3>3, <3>4 DEF DescsPartition
  <2>9. ASSUME Exclusive PROVE (BufsDiffer /\ InFlightIsOwned /\ InFlightIsBusy /\ NoNullBuf)'
    <3>1. \A q \in Procs : dpc[q] = "wait" => HeadOf(idx[q]) \in idx[q]
      BY HeadsDiffer
    <3>2. \A i \in avail \cup used : i \notin D
      BY <2>1, <2>9, <3>1 DEF InFlightIsOwned, DescsPartition
    <3>3. \A q \in Procs : /\ idx'[q] = IF q = p THEN D ELSE idx[q]
                           /\ dpc'[q] = IF q = p THEN "wait" ELSE dpc[q]
                           /\ dbuf'[q] = IF q = p THEN b ELSE dbuf[q]
      BY <2>5 DEF DiskTypeOK
    <3>4. BufsDiffer' /\ NoNullBuf'
      BY <2>9, <3>3, <2>5 DEF BufsDiffer, NoNullBuf
    <3>5. ASSUME NEW i \in (avail \cup used)'
          PROVE  \E q \in Procs : dpc'[q] = "wait" /\ HeadOf(idx'[q]) = i /\ infob'[i] = dbuf'[q]
      <4>1. CASE i = h
        <5>1. infob'[h] = b
          BY <2>1, <2>2, <2>5 DEF DiskTypeOK
        <5>2. QED BY <4>1, <5>1, <3>3 DEF h
      <4>2. CASE i # h
        <5>1. i \in avail \cup used
          BY <4>2, <2>5
        <5>2. PICK q \in Procs : dpc[q] = "wait" /\ HeadOf(idx[q]) = i /\ infob[i] = dbuf[q]
          BY <5>1, <2>9 DEF InFlightIsOwned
        <5>3. q # p /\ infob'[i] = infob[i]
          BY <5>1, <5>2, <4>2, <2>5 DEF DiskTypeOK
        <5>4. QED BY <5>2, <5>3, <3>3
      <4>3. QED BY <4>1, <4>2
    <3>6. InFlightIsOwned'
      BY <3>5 DEF InFlightIsOwned
    <3>7. InFlightIsBusy'
      <4>1. (avail \cap used)' = {}
        BY <2>9, <2>2, <2>5, <3>2 DEF InFlightIsBusy
      <4>2. ASSUME NEW q \in Procs, dpc'[q] = "wait", HeadOf(idx'[q]) \in (avail \cup used)'
            PROVE  dbuf'[q] \in busy'
        <5>1. CASE q = p
          BY <5>1, <3>3, <2>5
        <5>2. CASE q # p
          <6>1. dpc[q] = "wait" /\ HeadOf(idx[q]) \in avail \cup used \cup {h}
            BY <5>2, <4>2, <3>3, <2>5
          <6>2. HeadOf(idx[q]) # h
            BY <6>1, <3>1, <2>1, <2>2 DEF DescsPartition
          <6>3. QED BY <5>2, <6>1, <6>2, <2>9, <3>3, <2>5 DEF InFlightIsBusy
        <5>3. QED BY <5>1, <5>2
      <4>3. QED BY <4>1, <4>2 DEF InFlightIsBusy
    <3>8. QED BY <3>4, <3>6, <3>7
  <2>10. QED BY <2>6, <2>7, <2>8, <2>9
<1>3. QED BY <1>1, <1>2 DEF Submit

\* virtio_disk_rw is entered, by bread, bwrite or anybody else.
LEMMA RwKeeps ==
  ASSUME DiskInv, NEW p \in Procs, NEW b \in Bufs, Rw(p, b), calls' \in [Procs -> 0 .. MaxCalls]
  PROVE  DiskInv'
<1>1. Exclusive => \A q \in Procs : dpc[q] # "out" /\ dbuf[q] = b => q = p
  BY DEF Rw, InUse
<1>2. dpc[p] # "wait" /\ Submit(p, b)
  BY DEF Rw
<1>3. QED BY <1>1, <1>2, SubmitKeepsInv

\* The loop around alloc3_desc goes round once more.
LEMMA AllocAgainKeeps ==
  ASSUME DiskInv, NEW p \in Procs, AllocAgain(p), calls' \in [Procs -> 0 .. MaxCalls]
  PROVE  DiskInv'
<1>1. dbuf[p] \in Bufs /\ dpc[p] = "alloc" /\ Submit(p, dbuf[p])
  BY DEF DiskInv, CallersHaveBufs, AllocAgain
<1>2. Exclusive => \A q \in Procs : dpc[q] # "out" /\ dbuf[q] = dbuf[p] => q = p
  BY <1>1 DEF DiskInv, BufsDiffer
<1>3. QED BY <1>1, <1>2, SubmitKeepsInv

\* Steps that only change who is asleep, or nothing: the loop around b->disk, Ctrl-C.
LEMMA AsleepKeeps ==
  ASSUME DiskInv, asleep' \in [Procs -> {"no", "free", "buf"}],
         UNCHANGED <<free, infob, busy, dpc, dbuf, idx, avail, used, crashed>>,
         calls' \in [Procs -> 0 .. MaxCalls]
  PROVE  DiskInv'
  BY DEF DiskInv, DiskTypeOK, DescsPartition, WaitersHoldDescs, CallersHaveBufs,
         BufsDiffer, InFlightIsOwned, InFlightIsBusy, NoNullBuf

\* The request is done: its descriptors go back.
LEMMA FinishKeeps ==
  ASSUME DiskInv, NEW p \in Procs, Finish(p), calls' \in [Procs -> 0 .. MaxCalls]
  PROVE  DiskInv'
<1> USE DEF DiskInv
<1>1. HeadOf(idx[p]) \in idx[p] /\ idx[p] \subseteq Descs
  BY HeadsDiffer DEF Finish, DiskTypeOK
<1>2. \A q \in Procs : /\ idx'[q] = IF q = p THEN {} ELSE idx[q]
                       /\ dpc'[q] = IF q = p THEN "out" ELSE dpc[q]
                       /\ dbuf'[q] = IF q = p THEN NoBuf ELSE dbuf[q]
  BY DEF Finish, DiskTypeOK
<1>3. DiskTypeOK'
  BY <1>1 DEF Finish, DiskTypeOK
<1>4. DescsPartition'
  <2>1. free' = free \cup idx[p]
    BY DEF Finish
  <2>2. \A q \in Procs : idx'[q] \cap free' = {}
    BY <1>2, <2>1 DEF DescsPartition
  <2>3. \A q, r \in Procs : q # r => idx'[q] \cap idx'[r] = {}
    BY <1>2 DEF DescsPartition
  <2>4. \A i \in Descs : i \in free' \/ \E q \in Procs : i \in idx'[q]
    <3>1. \A i \in Descs : i \in free \/ \E q \in Procs : i \in idx[q]
      BY DEF DescsPartition
    <3>2. QED BY <3>1, <1>2, <2>1
  <2>5. free' \subseteq Descs /\ \A q \in Procs : idx'[q] \subseteq Descs
    BY <1>3 DEF DiskTypeOK
  <2>6. QED BY <2>2, <2>3, <2>4, <2>5 DEF DescsPartition
<1>5. WaitersHoldDescs' /\ CallersHaveBufs'
  BY <1>2 DEF WaitersHoldDescs, CallersHaveBufs
<1>6. ASSUME Exclusive PROVE (BufsDiffer /\ InFlightIsOwned /\ InFlightIsBusy /\ NoNullBuf)'
  <2>1. BufsDiffer' /\ NoNullBuf'
    BY <1>2, <1>6 DEF Finish, BufsDiffer, NoNullBuf
  <2>2. HeadOf(idx[p]) \notin avail \cup used
    BY <1>6 DEF Finish, InFlightIsBusy
  <2>3. InFlightIsOwned'
    <3>1. SUFFICES ASSUME NEW i \in avail \cup used
                   PROVE  \E q \in Procs : dpc'[q] = "wait" /\ HeadOf(idx'[q]) = i /\ infob'[i] = dbuf'[q]
      BY DEF InFlightIsOwned, Finish
    <3>2. PICK q \in Procs : dpc[q] = "wait" /\ HeadOf(idx[q]) = i /\ infob[i] = dbuf[q]
      BY <1>6 DEF InFlightIsOwned
    <3>3. q # p /\ infob'[i] = infob[i]
      BY <3>2, <2>2, <1>1 DEF Finish, DiskTypeOK
    <3>4. QED BY <3>2, <3>3, <1>2
  <2>4. InFlightIsBusy'
    BY <1>2, <1>6 DEF Finish, InFlightIsBusy
  <2>5. QED BY <2>1, <2>3, <2>4
<1>7. QED BY <1>3, <1>4, <1>5, <1>6

\* A request moves from the device to the used ring.
LEMMA DeviceDoneKeeps ==
  ASSUME DiskInv, NEW i \in Descs, DeviceDone(i), calls' \in [Procs -> 0 .. MaxCalls]
  PROVE  DiskInv'
<1> USE DEF DiskInv, DeviceDone
<1>1. DiskTypeOK' /\ DescsPartition' /\ WaitersHoldDescs' /\ CallersHaveBufs'
  BY DEF DiskTypeOK, DescsPartition, WaitersHoldDescs, CallersHaveBufs
<1>2. (avail \cup used)' = avail \cup used
  OBVIOUS
<1>3. Exclusive => (BufsDiffer /\ InFlightIsOwned /\ InFlightIsBusy /\ NoNullBuf)'
  BY <1>2 DEF BufsDiffer, InFlightIsOwned, InFlightIsBusy, NoNullBuf
<1>4. QED BY <1>1, <1>3

\* The interrupt handler works through the used ring.
LEMMA IntrKeeps ==
  ASSUME DiskInv, Intr, calls' \in [Procs -> 0 .. MaxCalls]
  PROVE  DiskInv'
<1> DEFINE done == {infob[i] : i \in used}
<1>1. /\ crashed' = (NoBuf \in done)
      /\ busy' = busy \ done
      /\ used' = {}
      /\ UNCHANGED <<free, infob, dpc, dbuf, idx, avail>>
  BY DEF Intr
<1>2. asleep' \in [Procs -> {"no", "free", "buf"}]
  BY DEF Intr, DiskInv, DiskTypeOK
<1>3. DiskTypeOK' /\ DescsPartition' /\ WaitersHoldDescs' /\ CallersHaveBufs'
  BY <1>1, <1>2 DEF DiskInv, DiskTypeOK, DescsPartition, WaitersHoldDescs, CallersHaveBufs
<1>4. ASSUME Exclusive PROVE (BufsDiffer /\ InFlightIsOwned /\ InFlightIsBusy /\ NoNullBuf)'
  <2>1. BufsDiffer' /\ InFlightIsOwned'
    BY <1>1, <1>4 DEF DiskInv, BufsDiffer, InFlightIsOwned
  <2>2. \A i \in used : \E p \in Procs :
          dpc[p] = "wait" /\ HeadOf(idx[p]) = i /\ infob[i] = dbuf[p] /\ dbuf[p] \in Bufs
    BY <1>4 DEF DiskInv, InFlightIsOwned, CallersHaveBufs
  <2>3. NoNullBuf'
    BY <1>1, <2>2, DiskAssumption DEF NoNullBuf
  <2>4. ASSUME NEW p \in Procs, dpc[p] = "wait", HeadOf(idx[p]) \in avail PROVE dbuf[p] \notin done
    <3>1. SUFFICES ASSUME NEW i \in used, infob[i] = dbuf[p] PROVE FALSE
      OBVIOUS
    <3>2. PICK q \in Procs : dpc[q] = "wait" /\ HeadOf(idx[q]) = i /\ infob[i] = dbuf[q]
      BY <2>2
    <3>3. q = p
      BY <2>4, <3>1, <3>2, <1>4 DEF DiskInv, BufsDiffer
    <3>4. QED BY <3>1, <3>2, <3>3, <2>4, <1>4 DEF DiskInv, InFlightIsBusy
  <2>5. InFlightIsBusy'
    BY <1>1, <1>4, <2>4 DEF DiskInv, InFlightIsBusy
  <2>6. QED BY <2>1, <2>3, <2>5
<1>5. QED BY <1>3, <1>4 DEF DiskInv

-----------------------------------------------------------------------------
\* Every step of the driver keeps the invariant.
LEMMA DiskNextInv == DiskInv /\ [DiskNext]_diskVars => DiskInv'
<1> SUFFICES ASSUME DiskInv, [DiskNext]_diskVars PROVE DiskInv'
  OBVIOUS
<1>0. calls \in [Procs -> 0 .. MaxCalls]
  BY DEF DiskInv, DiskTypeOK
<1>1. ASSUME NEW p \in Procs, NEW b \in Bufs, calls[p] < MaxCalls,
             calls' = [calls EXCEPT ![p] = @ + 1], Rw(p, b)
      PROVE  DiskInv'
  <2>1. calls' \in [Procs -> 0 .. MaxCalls]
    BY <1>0, <1>1, DiskAssumption
  <2>2. QED BY <1>1, <2>1, RwKeeps
<1>2. ASSUME NEW p \in Procs, DriverStep(p), UNCHANGED calls PROVE DiskInv'
  <2>1. CASE AllocAgain(p)
    BY <1>0, <1>2, <2>1, AllocAgainKeeps
  <2>2. CASE SleepAgain(p)
    <3>1. asleep' \in [Procs -> {"no", "free", "buf"}]
      BY <2>2 DEF SleepAgain, DiskInv, DiskTypeOK
    <3>2. QED BY <1>0, <1>2, <2>2, <3>1, AsleepKeeps DEF SleepAgain
  <2>3. CASE Finish(p)
    BY <1>0, <1>2, <2>3, FinishKeeps
  <2>4. QED BY <1>2, <2>1, <2>2, <2>3 DEF DriverStep
<1>3. ASSUME Interrupts, UNCHANGED calls PROVE DiskInv'
  <2>1. CASE Intr
    BY <1>0, <1>3, <2>1, IntrKeeps
  <2>2. ASSUME NEW i \in Descs, DeviceDone(i) PROVE DiskInv'
    BY <1>0, <1>3, <2>2, DeviceDoneKeeps
  <2>3. ASSUME NEW p \in Procs, CtrlC(p) PROVE DiskInv'
    <3>1. asleep' \in [Procs -> {"no", "free", "buf"}]
      BY <2>3 DEF CtrlC, DiskInv, DiskTypeOK
    <3>2. QED BY <1>0, <1>3, <2>3, <3>1, AsleepKeeps DEF CtrlC
  <2>4. QED BY <1>3, <2>1, <2>2, <2>3 DEF Interrupts
<1>4. CASE UNCHANGED diskVars
  <2>1. asleep' \in [Procs -> {"no", "free", "buf"}] /\ calls' \in [Procs -> 0 .. MaxCalls]
    BY <1>0, <1>4 DEF diskVars, driver, DiskInv, DiskTypeOK
  <2>2. QED BY <1>4, <2>1, AsleepKeeps DEF diskVars, driver
<1>5. QED BY <1>1, <1>2, <1>3, <1>4 DEF DiskNext

\* The inductive invariant of the driver holds in every reachable state.
THEOREM DiskInvariant == DiskSpec => []DiskInv
  BY DiskInitInv, DiskNextInv, PTL DEF DiskSpec

\* The descriptors of the queue are partitioned whatever the callers do, through failed
\* allocations too: alloc3_desc and free_chain neither leak nor share one.
THEOREM DiskDescriptors == DiskSpec => []DescsPartition
<1>1. DiskInv => DescsPartition
  BY DEF DiskInv
<1>2. QED BY <1>1, DiskInvariant, PTL

\* As long as the callers do not share buffers, virtio_disk_rw frees no descriptor of a
\* request in flight, and info[] leads the interrupt handler to the buffer of the request.
THEOREM DiskInFlight == ASSUME Exclusive PROVE DiskSpec => []InFlightIsOwned
<1>1. DiskInv => InFlightIsOwned
  BY DEF DiskInv
<1>2. QED BY <1>1, DiskInvariant, PTL

\* As long as the callers do not share buffers, virtio_disk_intr never finds a null pointer
\* in info[].
THEOREM DiskNoNull == ASSUME Exclusive PROVE DiskSpec => []NoNullBuf
<1>1. DiskInv => NoNullBuf
  BY DEF DiskInv
<1>2. QED BY <1>1, DiskInvariant, PTL

=============================================================================
