----------------------------- MODULE BioProofs ------------------------------
(***************************************************************************)
(* Proofs about module Bio: the buffer cache on top of the disk driver,    *)
(* for every finite number of processes and buffers, every set of blocks   *)
(* and values, every length of the queue and every number of calls.        *)
(*                                                                         *)
(* What the driver does is cited from DiskProofs.  The invariant has three *)
(* layers: what holds of any callers, what needs that bget is not entered  *)
(* while another process is in it (Serial), and what needs that no two     *)
(* processes use one block at a time as well (Exclusive).                  *)
(***************************************************************************)
EXTENDS Bio, DiskProofs

\* The types, and that every buffer is somewhere in the list.
BioTypes ==
  /\ blk \in [Bufs -> Blocks \cup {NoBlock}]
  /\ valid \in [Bufs -> BOOLEAN]
  /\ refcnt \in [Bufs -> Int]
  /\ lru \in [1 .. Cardinality(Bufs) -> Bufs]
  /\ \A b \in Bufs : \E i \in 1 .. Cardinality(Bufs) : lru[i] = b
  /\ DOMAIN data = Bufs /\ DOMAIN media = Blocks /\ DOMAIN latest = Blocks
  /\ bpc \in [Procs -> {"idle", "take", "check", "read", "hold", "dirty", "write", "written"}]
  /\ held \in [Procs -> Bufs \cup {NoBuf}]
  /\ asked \in [Procs -> Blocks \cup {NoBlock}]
  /\ noBufs \in BOOLEAN

\* Where a process stands, what it holds and whether it is in the driver agree.
PositionsAgree ==
  \A p \in Procs :
    /\ bpc[p] = "idle" <=> held[p] = NoBuf
    /\ bpc[p] # "idle" => asked[p] \in Blocks
    /\ dpc[p] # "out" <=> bpc[p] \in {"read", "write"}
    /\ dpc[p] # "out" => dbuf[p] = held[p]

\* A process that is about to reuse a buffer is alone in bget, nobody holds the buffer and
\* the block it wants is not cached.
TakersAreAlone ==
  \A p \in Procs : bpc[p] = "take" =>
    /\ refcnt[held[p]] = 0
    /\ \A b \in Bufs : blk[b] # asked[p]
    /\ \A q \in Procs : bpc[q] = "take" => q = p

\* No block is cached twice.
OneBufferPerBlock == \A b, c \in Bufs : blk[b] = blk[c] /\ blk[b] # NoBlock => b = c

\* Only an unused buffer, or one whose holder is about to load it, is not valid.
LoadedIsValid ==
  \A p \in Procs : bpc[p] \notin {"idle", "take", "check"} => valid[held[p]]

\* What needs that bget is entered by one process at a time.
SerialInv ==
  /\ TakersAreAlone /\ HeldBufferKeepsBlock /\ RefcntCountsHolders
  /\ OneBufferPerBlock /\ LoadedIsValid

\* The device has not yet worked on the request of p.
Pending(p) == dpc[p] = "alloc" \/ (dpc[p] = "wait" /\ HeadOf(idx[p]) \in avail)

\* No two processes are between bread and brelse of one block.
AskedDiffer ==
  \A p, q \in Procs : bpc[p] # "idle" /\ bpc[q] # "idle" /\ asked[p] = asked[q] => p = q

\* The disk has what was last put into a block, unless somebody is about to write it.
MediaIsCurrent ==
  \A n \in Blocks :
    \/ media[n] = latest[n]
    \/ \E p \in Procs : asked[p] = n /\ (bpc[p] = "dirty" \/ (bpc[p] = "write" /\ Pending(p)))

\* A valid buffer has what was last put into its block, unless somebody is about to read it.
DataIsCurrent ==
  \A b \in Bufs : valid[b] =>
    \/ blk[b] \in Blocks /\ data[b] = latest[blk[b]]
    \/ \E p \in Procs : held[p] = b /\ bpc[p] = "read" /\ Pending(p)

\* What needs that a block is used by one process at a time as well.
ContentInv == AskedDiffer /\ MediaIsCurrent /\ DataIsCurrent

\* The inductive invariant.
BioInv ==
  /\ DiskInv /\ BioTypes /\ PositionsAgree
  /\ Serial => SerialInv
  /\ Serial /\ Exclusive => ContentInv

-----------------------------------------------------------------------------
(* The list and the counts. *)

\* Every nonempty set of places of the list has a last one.
LEMMA GreatestExists ==
  ASSUME NEW n \in Nat, NEW S \in SUBSET (1 .. n), S # {}
  PROVE  \E x \in S : \A y \in S : y <= x
<1> DEFINE T == {k \in Nat : \E x \in S : k = n - x}
<1>1. T \in SUBSET Nat /\ T # {}
  <2>1. PICK x \in S : TRUE
    OBVIOUS
  <2>2. n - x \in Nat
    OBVIOUS
  <2>3. QED BY <2>2
<1>2. PICK k \in T : \A j \in T : k <= j
  BY <1>1, LeastExists
<1>3. PICK x \in S : k = n - x
  OBVIOUS
<1>4. ASSUME NEW y \in S PROVE y <= x
  <2>1. n - y \in T
    BY <1>4
  <2>2. n - x <= n - y
    BY <2>1, <1>2, <1>3
  <2>3. QED BY <2>2
<1>5. QED BY <1>4

\* bget finds a buffer that is unused, or one that holds the block; and when it finds none
\* with the block, the block is not cached.
LEMMA BgetFinds ==
  ASSUME BioTypes
  PROVE  /\ Unused # {} => Victim \in Bufs /\ refcnt[Victim] = 0
         /\ \A n \in Blocks : Cached(n) # {} => FirstCached(n) \in Bufs /\ blk[FirstCached(n)] = n
         /\ \A n \in Blocks : Cached(n) = {} => \A b \in Bufs : blk[b] # n
<1>1. DOMAIN lru = 1 .. Cardinality(Bufs) /\ \A i \in DOMAIN lru : lru[i] \in Bufs
  BY DEF BioTypes
<1>2. Cardinality(Bufs) \in Nat
  BY BioAssumption, FS_CardinalityType
<1>3. ASSUME Unused # {} PROVE Victim \in Bufs /\ refcnt[Victim] = 0
  <2>1. Unused \in SUBSET (1 .. Cardinality(Bufs))
    BY <1>1 DEF Unused
  <2>2. \E i \in Unused : \A j \in Unused : j <= i
    BY <1>2, <1>3, <2>1, GreatestExists
  <2> DEFINE k == CHOOSE i \in Unused : \A j \in Unused : j <= i
  <2>3. k \in Unused
    BY <2>2
  <2>4. QED BY <1>1, <2>3 DEF Unused, Victim
<1>4. ASSUME NEW n \in Blocks, Cached(n) # {}
      PROVE  FirstCached(n) \in Bufs /\ blk[FirstCached(n)] = n
  <2>1. Cached(n) \in SUBSET Nat
    BY <1>1, <1>2 DEF Cached
  <2>2. \E i \in Cached(n) : \A j \in Cached(n) : i <= j
    BY <1>4, <2>1, LeastExists
  <2> DEFINE k == CHOOSE i \in Cached(n) : \A j \in Cached(n) : i <= j
  <2>3. k \in Cached(n)
    BY <2>2
  <2>4. QED BY <1>1, <2>3 DEF Cached, FirstCached
<1>5. \A n \in Blocks : Cached(n) = {} => \A b \in Bufs : blk[b] # n
  BY <1>1 DEF Cached, BioTypes
<1>6. QED BY <1>3, <1>4, <1>5

\* Moving a buffer to the head of the list loses none.
LEMMA MoveToFrontKeeps ==
  ASSUME BioTypes, NEW b \in Bufs
  PROVE  /\ MoveToFront(b) \in [1 .. Cardinality(Bufs) -> Bufs]
         /\ \A c \in Bufs : \E i \in 1 .. Cardinality(Bufs) : MoveToFront(b)[i] = c
<1> DEFINE N == Cardinality(Bufs)
           k == CHOOSE i \in DOMAIN lru : lru[i] = b
<1>1. N \in Nat
  BY BioAssumption, FS_CardinalityType
<1>2. DOMAIN lru = 1 .. N /\ k \in 1 .. N /\ lru[k] = b
  BY DEF BioTypes
<1>3. MoveToFront(b) = [i \in 1 .. N |-> IF i = 1 THEN b ELSE IF i <= k THEN lru[i - 1] ELSE lru[i]]
  BY <1>2 DEF MoveToFront
<1> HIDE DEF N, k
<1>4. \A i \in 1 .. N : lru[i] \in Bufs
  BY DEF BioTypes, N
<1>5. \A i \in 1 .. N : i # 1 => i - 1 \in 1 .. N
  BY <1>1
<1>6. MoveToFront(b) \in [1 .. N -> Bufs]
  BY <1>3, <1>4, <1>5
<1>7. ASSUME NEW c \in Bufs PROVE \E i \in 1 .. N : MoveToFront(b)[i] = c
  <2>1. PICK j \in 1 .. N : lru[j] = c
    BY DEF BioTypes, N
  <2>2. CASE c = b
    <3>1. 1 \in 1 .. N
      BY <1>1, <1>2
    <3>2. QED BY <2>2, <3>1, <1>3
  <2>3. CASE c # b /\ j < k
    <3>1. j + 1 \in 1 .. N /\ j + 1 <= k /\ j + 1 # 1 /\ (j + 1) - 1 = j
      BY <1>1, <1>2, <2>3
    <3>2. MoveToFront(b)[j + 1] = lru[j]
      BY <3>1, <1>3
    <3>3. QED BY <3>1, <3>2, <2>1
  <2>4. CASE c # b /\ j > k
    <3>1. j # 1 /\ ~(j <= k)
      BY <1>1, <1>2, <2>4
    <3>2. MoveToFront(b)[j] = lru[j]
      BY <3>1, <1>3
    <3>3. QED BY <3>2, <2>1
  <2>5. j = k => c = b
    BY <1>2, <2>1
  <2>6. j < k \/ j = k \/ j > k
    BY <1>1, <1>2
  <2>7. QED BY <2>2, <2>3, <2>4, <2>5, <2>6
<1>8. QED BY <1>6, <1>7 DEF N

\* The processes that hold buffer b.
Holders(b) == {p \in Procs : held[p] = b /\ bpc[p] # "take"}

\* Holders of a buffer can be counted.
LEMMA HoldersFinite == \A b : IsFiniteSet(Holders(b)) /\ Cardinality(Holders(b)) \in Nat
  BY BioAssumption, FS_Subset, FS_CardinalityType DEF Holders

\* A buffer with a holder has references, and one without references no holder.
LEMMA HeldMeansCounted ==
  ASSUME RefcntCountsHolders, NEW b \in Bufs
  PROVE  /\ refcnt[b] = Cardinality(Holders(b)) /\ refcnt[b] \in Nat
         /\ refcnt[b] = 0 => Holders(b) = {}
         /\ Holders(b) # {} => refcnt[b] > 0
<1>1. refcnt[b] = Cardinality(Holders(b))
  BY DEF RefcntCountsHolders, Holders
<1>2. QED BY <1>1, HoldersFinite, FS_EmptySet

\* How the counts move with the holders.
LEMMA CountsMove ==
  ASSUME RefcntCountsHolders, NEW b \in Bufs, NEW p \in Procs,
         \A c \in Bufs : c # b => Holders(c)' = Holders(c) /\ refcnt'[c] = refcnt[c],
         \/ p \notin Holders(b) /\ Holders(b)' = Holders(b) \cup {p} /\ refcnt'[b] = refcnt[b] + 1
         \/ p \in Holders(b) /\ Holders(b)' = Holders(b) \ {p} /\ refcnt'[b] = refcnt[b] - 1
  PROVE  RefcntCountsHolders'
<1>1. \A c \in Bufs : refcnt[c] = Cardinality(Holders(c))
  BY DEF RefcntCountsHolders, Holders
<1>2. refcnt'[b] = Cardinality(Holders(b)')
  BY <1>1, HoldersFinite, FS_AddElement, FS_RemoveElement
<1>3. \A c \in Bufs : refcnt'[c] = Cardinality(Holders(c)')
  BY <1>1, <1>2
<1>4. QED BY <1>3 DEF RefcntCountsHolders, Holders

-----------------------------------------------------------------------------
(* The driver as the cache sees it. *)

\* After Submit the caller is in the driver, with a request the device has not worked on,
\* and nobody else's request has changed.
LEMMA SubmitPends ==
  ASSUME DiskInv, NEW p \in Procs, NEW b \in Bufs, Submit(p, b)
  PROVE  /\ dpc'[p] # "out" /\ dbuf'[p] = b /\ Pending(p)'
         /\ \A q \in Procs \ {p} : dpc'[q] = dpc[q] /\ dbuf'[q] = dbuf[q] /\ idx'[q] = idx[q]
         /\ \A q \in Procs \ {p} : Pending(q) => Pending(q)'
<1> USE DEF DiskInv, DiskTypeOK
<1>1. dbuf'[p] = b /\ \A q \in Procs \ {p} : dpc'[q] = dpc[q] /\ dbuf'[q] = dbuf[q] /\ idx'[q] = idx[q]
  BY DEF Submit
<1>2. avail \subseteq avail'
  BY DEF Submit
<1>3. dpc'[p] # "out" /\ Pending(p)'
  <2> DEFINE D == Three
  <2>1. \/ dpc'[p] = "alloc"
        \/ dpc'[p] = "wait" /\ idx'[p] = D /\ HeadOf(D) \in avail'
    BY DEF Submit
  <2> HIDE DEF D
  <2>2. QED BY <2>1 DEF Pending
<1>4. QED BY <1>1, <1>2, <1>3 DEF Pending

\* Steps inside the driver that leave the cache and its callers where they are.
LEMMA DriverOnlyKeeps ==
  ASSUME BioInv, DiskInv', UNCHANGED <<cache, bpc, held, asked, latest, noBufs>>,
         \A p \in Procs : /\ dpc'[p] # "out" <=> dpc[p] # "out"
                          /\ dpc[p] # "out" => dbuf'[p] = dbuf[p]
                          /\ Pending(p) => Pending(p)'
  PROVE  BioInv'
<1>1. BioTypes' /\ PositionsAgree'
  BY DEF BioInv, BioTypes, PositionsAgree, cache
<1>2. Serial => SerialInv'
  BY DEF BioInv, SerialInv, TakersAreAlone, HeldBufferKeepsBlock, RefcntCountsHolders,
         OneBufferPerBlock, LoadedIsValid, cache
<1>3. Serial /\ Exclusive => ContentInv'
  <2> SUFFICES ASSUME Serial, Exclusive PROVE ContentInv'
    OBVIOUS
  <2>1. AskedDiffer /\ MediaIsCurrent /\ DataIsCurrent
    BY DEF BioInv, ContentInv
  <2> HIDE DEF Pending
  <2>2. AskedDiffer'
    BY <2>1 DEF AskedDiffer
  <2>3. MediaIsCurrent'
    BY <2>1 DEF MediaIsCurrent, cache
  <2>4. DataIsCurrent'
    BY <2>1 DEF DataIsCurrent, cache
  <2>5. QED BY <2>2, <2>3, <2>4 DEF ContentInv
<1>4. QED BY <1>1, <1>2, <1>3 DEF BioInv

\* The loops of virtio_disk_rw.
LEMMA DriverWaitsKeeps ==
  ASSUME BioInv, NEW p \in Procs, DriverWaits(p)
  PROVE  BioInv'
<1>0. calls' \in [Procs -> 0 .. MaxCalls] /\ DiskInv
  BY DEF DriverWaits, BioInv, DiskInv, DiskTypeOK
<1>1. CASE AllocAgain(p)
  <2>1. dbuf[p] \in Bufs /\ dpc[p] = "alloc" /\ Submit(p, dbuf[p])
    BY <1>0, <1>1 DEF DiskInv, CallersHaveBufs, AllocAgain
  <2>2. DiskInv'
    BY <1>0, <1>1, AllocAgainKeeps
  <2>3. \A q \in Procs : /\ dpc'[q] # "out" <=> dpc[q] # "out"
                         /\ dpc[q] # "out" => dbuf'[q] = dbuf[q]
                         /\ Pending(q) => Pending(q)'
    BY <1>0, <2>1, SubmitPends
  <2>4. QED BY <2>2, <2>3, DriverOnlyKeeps DEF DriverWaits
<1>2. CASE SleepAgain(p)
  <2>1. asleep' \in [Procs -> {"no", "free", "buf"}]
    BY <1>0, <1>2 DEF SleepAgain, DiskInv, DiskTypeOK
  <2>2. DiskInv'
    BY <1>0, <1>2, <2>1, AsleepKeeps DEF SleepAgain
  <2>3. \A q \in Procs : /\ dpc'[q] # "out" <=> dpc[q] # "out"
                         /\ dpc[q] # "out" => dbuf'[q] = dbuf[q]
                         /\ Pending(q) => Pending(q)'
    BY <1>2 DEF SleepAgain, Pending
  <2>4. QED BY <2>2, <2>3, DriverOnlyKeeps DEF DriverWaits
<1>3. QED BY <1>1, <1>2 DEF DriverWaits

\* The completion interrupt and Ctrl-C.
LEMMA InterruptKeeps ==
  ASSUME BioInv, Interrupt
  PROVE  BioInv'
<1>0. calls' \in [Procs -> 0 .. MaxCalls] /\ DiskInv
  BY DEF Interrupt, BioInv, DiskInv, DiskTypeOK
<1>1. DiskInv'
  <2>1. CASE Intr
    BY <1>0, <2>1, IntrKeeps
  <2>2. ASSUME NEW p \in Procs, CtrlC(p) PROVE DiskInv'
    <3>1. asleep' \in [Procs -> {"no", "free", "buf"}]
      BY <1>0, <2>2 DEF CtrlC, DiskInv, DiskTypeOK
    <3>2. QED BY <1>0, <2>2, <3>1, AsleepKeeps DEF CtrlC
  <2>3. QED BY <2>1, <2>2 DEF Interrupt
<1>2. UNCHANGED <<dpc, dbuf, idx, avail>>
  BY DEF Interrupt, Intr, CtrlC
<1>3. \A q \in Procs : /\ dpc'[q] # "out" <=> dpc[q] # "out"
                       /\ dpc[q] # "out" => dbuf'[q] = dbuf[q]
                       /\ Pending(q) => Pending(q)'
  BY <1>2 DEF Pending
<1>4. QED BY <1>1, <1>3, DriverOnlyKeeps DEF Interrupt

-----------------------------------------------------------------------------
(* The steps of bio.c. *)

\* Steps of the cache leave the driver where it is.
LEMMA DriverSame ==
  ASSUME DiskInv, UNCHANGED driver, calls' \in [Procs -> 0 .. MaxCalls]
  PROVE  DiskInv' /\ \A p \in Procs : Pending(p)' = Pending(p)
<1>1. DiskInv'
  BY DEF driver, DiskInv, DiskTypeOK, DescsPartition, WaitersHoldDescs, CallersHaveBufs,
         BufsDiffer, InFlightIsOwned, InFlightIsBusy, NoNullBuf
<1>2. \A p \in Procs : Pending(p)' = Pending(p)
  BY DEF driver, Pending
<1>3. QED BY <1>1, <1>2

\* bread of a cached block takes a reference.
LEMMA BreadHitKeeps ==
  ASSUME BioInv, NEW p \in Procs, NEW n \in Blocks, Bread(p, n), BgetHit(p, n)
  PROVE  BioInv'
<1>0. PICK b \in Bufs : b = FirstCached(n) /\ blk[b] = n
  BY BgetFinds DEF BioInv, BgetHit
<1>1. /\ bpc[p] = "idle" /\ calls' \in [Procs -> 0 .. MaxCalls]
      /\ asked' = [asked EXCEPT ![p] = n]
      /\ refcnt' = [refcnt EXCEPT ![b] = @ + 1]
      /\ held' = [held EXCEPT ![p] = b]
      /\ bpc' = [bpc EXCEPT ![p] = "check"]
      /\ UNCHANGED <<driver, data, lru, media, latest, blk, valid, noBufs>>
  BY <1>0, DiskAssumption DEF Bread, BgetHit, BioInv, DiskInv, DiskTypeOK
<1>2. DiskInv' /\ \A q \in Procs : Pending(q)' = Pending(q)
  BY <1>1, DriverSame DEF BioInv
<1>3. \A q \in Procs : /\ held'[q] = IF q = p THEN b ELSE held[q]
                       /\ bpc'[q] = IF q = p THEN "check" ELSE bpc[q]
                       /\ asked'[q] = IF q = p THEN n ELSE asked[q]
  BY <1>1 DEF BioInv, BioTypes
<1>4. held[p] = NoBuf /\ dpc[p] = "out" /\ b # NoBuf
  BY <1>0, <1>1, DiskAssumption DEF BioInv, PositionsAgree
<1>5. BioTypes'
  BY <1>0, <1>1 DEF BioInv, BioTypes
<1>6. PositionsAgree'
  BY <1>1, <1>3, <1>4 DEF BioInv, PositionsAgree, driver
<1>7. ASSUME Serial PROVE SerialInv'
  <2>0. SerialInv /\ \A q \in Procs : bpc[q] # "take"
    BY <1>7 DEF BioInv, Bread
  <2>1. TakersAreAlone' /\ HeldBufferKeepsBlock' /\ OneBufferPerBlock' /\ LoadedIsValid'
    BY <2>0, <1>0, <1>1, <1>3
    DEF SerialInv, TakersAreAlone, HeldBufferKeepsBlock, OneBufferPerBlock, LoadedIsValid
  <2>2. RefcntCountsHolders'
    <3>1. p \notin Holders(b) /\ Holders(b)' = Holders(b) \cup {p}
      <4>1. \A q \in Procs : held'[q] = b /\ bpc'[q] # "take" <=> q = p \/ (held[q] = b /\ bpc[q] # "take")
        BY <1>3, <1>4
      <4>2. QED BY <4>1, <1>4 DEF Holders
    <3>2. \A c \in Bufs : c # b => Holders(c)' = Holders(c) /\ refcnt'[c] = refcnt[c]
      <4>1. \A c \in Bufs : c # NoBuf
        BY DiskAssumption
      <4>2. QED BY <1>1, <1>3, <1>4, <4>1 DEF Holders, BioInv, BioTypes
    <3>3. refcnt'[b] = refcnt[b] + 1
      BY <1>0, <1>1 DEF BioInv, BioTypes
    <3>4. RefcntCountsHolders
      BY <2>0 DEF SerialInv
    <3>5. QED BY <1>0, <3>1, <3>2, <3>3, <3>4, CountsMove
  <2>3. QED BY <2>1, <2>2 DEF SerialInv
<1>8. ASSUME Serial, Exclusive PROVE ContentInv'
  <2>0. AskedDiffer /\ MediaIsCurrent /\ DataIsCurrent
    BY <1>8 DEF BioInv, ContentInv
  <2>1. AskedDiffer'
    BY <1>8, <2>0, <1>3 DEF AskedDiffer, Bread
  <2>2. MediaIsCurrent'
    BY <2>0, <1>1, <1>2, <1>3 DEF MediaIsCurrent
  <2>3. DataIsCurrent'
    BY <2>0, <1>1, <1>2, <1>3 DEF DataIsCurrent
  <2>4. QED BY <2>1, <2>2, <2>3 DEF ContentInv
<1>9. QED BY <1>2, <1>5, <1>6, <1>7, <1>8 DEF BioInv

\* bread of a block that is not cached: bget finds a victim, or panics.
LEMMA BreadMissKeeps ==
  ASSUME BioInv, NEW p \in Procs, NEW n \in Blocks, Bread(p, n), BgetMiss(p, n)
  PROVE  BioInv'
<1>1. /\ bpc[p] = "idle" /\ calls' \in [Procs -> 0 .. MaxCalls]
      /\ asked' = [asked EXCEPT ![p] = n]
      /\ UNCHANGED <<driver, data, lru, media, latest, blk, valid, refcnt>>
  BY DiskAssumption DEF Bread, BgetMiss, BioInv, DiskInv, DiskTypeOK
<1>2. DiskInv' /\ \A q \in Procs : Pending(q)' = Pending(q)
  BY <1>1, DriverSame DEF BioInv
<1>3. \A b \in Bufs : blk[b] # n
  BY BgetFinds DEF BioInv, BgetMiss
<1>4. \A q \in Procs : asked'[q] = IF q = p THEN n ELSE asked[q]
  BY <1>1 DEF BioInv, BioTypes
<1>5. CASE Unused = {}
  <2>1. noBufs' = TRUE /\ UNCHANGED <<held, bpc>>
    BY <1>5 DEF BgetMiss
  <2>2. BioTypes' /\ PositionsAgree'
    BY <1>1, <1>4, <2>1 DEF BioInv, BioTypes, PositionsAgree, driver
  <2>3. ASSUME Serial PROVE SerialInv'
    BY <2>3, <1>1, <1>4, <2>1
    DEF BioInv, SerialInv, TakersAreAlone, HeldBufferKeepsBlock, RefcntCountsHolders,
        OneBufferPerBlock, LoadedIsValid
  <2>4. ASSUME Serial, Exclusive PROVE ContentInv'
    BY <2>4, <1>1, <1>2, <1>4, <2>1
    DEF BioInv, ContentInv, AskedDiffer, MediaIsCurrent, DataIsCurrent
  <2>5. QED BY <1>2, <2>2, <2>3, <2>4 DEF BioInv
<1>6. CASE Unused # {}
  <2> DEFINE b == Victim
  <2>0. b \in Bufs /\ refcnt[b] = 0 /\ b # NoBuf
    BY <1>6, BgetFinds, DiskAssumption DEF BioInv
  <2> HIDE DEF b
  <2>1. /\ held' = [held EXCEPT ![p] = b]
        /\ bpc' = [bpc EXCEPT ![p] = "take"]
        /\ UNCHANGED noBufs
    BY <1>6 DEF BgetMiss, b
  <2>2. \A q \in Procs : /\ held'[q] = IF q = p THEN b ELSE held[q]
                         /\ bpc'[q] = IF q = p THEN "take" ELSE bpc[q]
    BY <2>1 DEF BioInv, BioTypes
  <2>3. BioTypes'
    BY <1>1, <2>0, <2>1 DEF BioInv, BioTypes
  <2>4. PositionsAgree'
    BY <1>1, <1>4, <2>0, <2>2 DEF BioInv, PositionsAgree, driver
  <2>5. ASSUME Serial PROVE SerialInv'
    <3>0. SerialInv /\ \A q \in Procs : bpc[q] # "take"
      BY <2>5 DEF BioInv, Bread
    <3>1. TakersAreAlone' /\ HeldBufferKeepsBlock' /\ OneBufferPerBlock' /\ LoadedIsValid'
      BY <3>0, <1>1, <1>3, <1>4, <2>0, <2>2
      DEF SerialInv, TakersAreAlone, HeldBufferKeepsBlock, OneBufferPerBlock, LoadedIsValid
    <3>2. held[p] = NoBuf
      BY <1>1 DEF BioInv, PositionsAgree
    <3>3. \A c \in Bufs : Holders(c)' = Holders(c)
      <4>1. \A c \in Bufs : c # NoBuf
        BY DiskAssumption
      <4>2. QED BY <2>2, <3>2, <4>1 DEF Holders
    <3>4. RefcntCountsHolders'
      <4>1. \A c \in Bufs : refcnt[c] = Cardinality(Holders(c))
        BY <3>0 DEF SerialInv, RefcntCountsHolders, Holders
      <4>2. \A c \in Bufs : refcnt'[c] = Cardinality(Holders(c)')
        BY <4>1, <3>3, <1>1
      <4>3. QED BY <4>2 DEF RefcntCountsHolders, Holders
    <3>5. QED BY <3>1, <3>4 DEF SerialInv
  <2>6. ASSUME Serial, Exclusive PROVE ContentInv'
    <3>0. AskedDiffer /\ MediaIsCurrent /\ DataIsCurrent
      BY <2>6 DEF BioInv, ContentInv
    <3>1. AskedDiffer'
      BY <2>6, <3>0, <1>4, <2>2 DEF AskedDiffer, Bread
    <3>2. MediaIsCurrent' /\ DataIsCurrent'
      BY <3>0, <1>1, <1>2, <1>4, <2>2 DEF MediaIsCurrent, DataIsCurrent
    <3>3. QED BY <3>1, <3>2 DEF ContentInv
  <2>7. QED BY <1>2, <2>3, <2>4, <2>5, <2>6 DEF BioInv
<1>7. QED BY <1>5, <1>6

\* A holder of a buffer that goes on, with its buffer valid, disturbs neither the counts nor
\* what other holders rely on.
LEMMA HolderGoesOn ==
  ASSUME BioInv, NEW p \in Procs, NEW s \in {"read", "hold", "dirty", "write", "written"},
         bpc[p] \notin {"idle", "take"}, bpc' = [bpc EXCEPT ![p] = s],
         valid' \in [Bufs -> BOOLEAN], valid'[held[p]], \A b \in Bufs : valid[b] => valid'[b],
         UNCHANGED <<blk, refcnt, held, asked>>
  PROVE  /\ Serial => SerialInv'
         /\ AskedDiffer => AskedDiffer'
<1>1. \A q \in Procs : bpc'[q] = IF q = p THEN s ELSE bpc[q]
  BY DEF BioInv, BioTypes
<1>2. ASSUME Serial PROVE SerialInv'
  <2>0. SerialInv
    BY <1>2 DEF BioInv
  <2>1. TakersAreAlone' /\ HeldBufferKeepsBlock' /\ OneBufferPerBlock'
    BY <2>0, <1>1 DEF SerialInv, TakersAreAlone, HeldBufferKeepsBlock, OneBufferPerBlock
  <2>2. LoadedIsValid'
    <3>1. \A q \in Procs : bpc[q] # "idle" => held[q] \in Bufs
      BY DEF BioInv, BioTypes, PositionsAgree
    <3>2. QED BY <2>0, <1>1, <3>1 DEF SerialInv, LoadedIsValid
  <2>3. RefcntCountsHolders'
    <3>1. \A c : Holders(c)' = Holders(c)
      BY <1>1 DEF Holders
    <3>2. \A c \in Bufs : refcnt[c] = Cardinality(Holders(c))
      BY <2>0 DEF SerialInv, RefcntCountsHolders, Holders
    <3>3. \A c \in Bufs : refcnt'[c] = Cardinality(Holders(c)')
      BY <3>1, <3>2
    <3>4. QED BY <3>3 DEF RefcntCountsHolders, Holders
  <2>4. QED BY <2>1, <2>2, <2>3 DEF SerialInv
<1>3. AskedDiffer => AskedDiffer'
  BY <1>1 DEF AskedDiffer
<1>4. QED BY <1>2, <1>3

\* The victim is given its new block.
LEMMA BgetTakeKeeps ==
  ASSUME BioInv, NEW p \in Procs, BgetTake(p)
  PROVE  BioInv'
<1>0. PICK b \in Bufs, n \in Blocks : b = held[p] /\ n = asked[p] /\ b # NoBuf
  BY DiskAssumption DEF BgetTake, BioInv, BioTypes, PositionsAgree
<1>1. /\ bpc[p] = "take"
      /\ blk' = [blk EXCEPT ![b] = n]
      /\ valid' = [valid EXCEPT ![b] = FALSE]
      /\ refcnt' = [refcnt EXCEPT ![b] = 1]
      /\ held' = [held EXCEPT ![p] = b]
      /\ bpc' = [bpc EXCEPT ![p] = "check"]
      /\ UNCHANGED <<driver, calls, data, lru, media, asked, latest, noBufs>>
  BY <1>0 DEF BgetTake, Reuse, diskVars
<1>2. DiskInv' /\ \A q \in Procs : Pending(q)' = Pending(q)
  BY <1>1, DriverSame DEF BioInv, DiskInv, DiskTypeOK
<1>3. \A q \in Procs : /\ held'[q] = held[q]
                       /\ bpc'[q] = IF q = p THEN "check" ELSE bpc[q]
  BY <1>0, <1>1 DEF BioInv, BioTypes
<1>4. \A c \in Bufs : /\ blk'[c] = IF c = b THEN n ELSE blk[c]
                      /\ c # b => valid'[c] = valid[c]
                      /\ c # b => refcnt'[c] = refcnt[c]
  BY <1>1 DEF BioInv, BioTypes
<1>b. refcnt'[b] = 1 /\ ~valid'[b]
  BY <1>0, <1>1 DEF BioInv, BioTypes
<1>5. BioTypes'
  BY <1>0, <1>1 DEF BioInv, BioTypes
<1>6. PositionsAgree'
  BY <1>1, <1>3 DEF BioInv, PositionsAgree, driver
<1>7. ASSUME Serial
      PROVE  SerialInv' /\ \A q \in Procs : q # p /\ bpc[q] # "idle" => held[q] # b
  <2>0. SerialInv
    BY <1>7 DEF BioInv
  <2>1. /\ refcnt[b] = 0 /\ \A c \in Bufs : blk[c] # n
        /\ \A q \in Procs : bpc[q] = "take" => q = p
    BY <2>0, <1>0, <1>1 DEF SerialInv, TakersAreAlone
  <2>2. Holders(b) = {}
    BY <2>0, <2>1, <1>0, HeldMeansCounted DEF SerialInv
  <2>3. \A q \in Procs : held[q] = b => q = p
    BY <2>1, <2>2 DEF Holders
  <2>4. TakersAreAlone'
    BY <2>1, <1>3 DEF TakersAreAlone
  <2>5. \A q \in Procs : bpc[q] # "idle" => held[q] \in Bufs
    BY DEF BioInv, BioTypes, PositionsAgree
  <2>6. HeldBufferKeepsBlock'
    <3>1. blk'[held'[p]] = asked'[p]
      BY <1>0, <1>1, <1>3, <1>4
    <3>2. ASSUME NEW q \in Procs, q # p, bpc'[q] \notin {"idle", "take"} PROVE blk'[held'[q]] = asked'[q]
      <4>1. held[q] \in Bufs /\ held[q] # b /\ blk[held[q]] = asked[q]
        BY <3>2, <2>0, <2>3, <2>5, <1>3 DEF SerialInv, HeldBufferKeepsBlock
      <4>2. QED BY <4>1, <1>1, <1>3, <1>4
    <3>3. QED BY <3>1, <3>2 DEF HeldBufferKeepsBlock
  <2>a. LoadedIsValid'
    BY <2>0, <2>3, <2>5, <1>3, <1>4 DEF SerialInv, LoadedIsValid
  <2>7. OneBufferPerBlock'
    BY <2>0, <2>1, <1>4 DEF SerialInv, OneBufferPerBlock
  <2>8. RefcntCountsHolders'
    <3>1. p \notin Holders(b) /\ Holders(b)' = Holders(b) \cup {p}
      <4>1. \A q \in Procs : held'[q] = b /\ bpc'[q] # "take" <=> q = p
        BY <1>0, <1>3, <2>3
      <4>2. QED BY <4>1, <2>2 DEF Holders
    <3>2. \A c \in Bufs : c # b => Holders(c)' = Holders(c) /\ refcnt'[c] = refcnt[c]
      <4>1. \A c \in Bufs : c # b => \A q \in Procs :
              held'[q] = c /\ bpc'[q] # "take" <=> held[q] = c /\ bpc[q] # "take"
        BY <1>0, <1>3
      <4>2. QED BY <4>1, <1>4 DEF Holders
    <3>3. refcnt'[b] = refcnt[b] + 1
      BY <1>b, <2>1
    <3>4. RefcntCountsHolders
      BY <2>0 DEF SerialInv
    <3>5. QED BY <1>0, <3>1, <3>2, <3>3, <3>4, CountsMove
  <2>9. QED BY <2>3, <2>4, <2>6, <2>a, <2>7, <2>8 DEF SerialInv
<1>8. ASSUME Serial, Exclusive PROVE ContentInv'
  <2>0. AskedDiffer /\ MediaIsCurrent /\ DataIsCurrent
    BY <1>8 DEF BioInv, ContentInv
  <2>1. AskedDiffer'
    BY <2>0, <1>1, <1>3 DEF AskedDiffer
  <2>2. MediaIsCurrent'
    BY <2>0, <1>1, <1>2, <1>3 DEF MediaIsCurrent
  <2>3. DataIsCurrent'
    BY <2>0, <1>1, <1>2, <1>3, <1>4, <1>b DEF DataIsCurrent
  <2>4. QED BY <2>1, <2>2, <2>3 DEF ContentInv
<1>9. QED BY <1>2, <1>5, <1>6, <1>7, <1>8 DEF BioInv

\* bread returns a buffer that is valid.
LEMMA BreadValidKeeps ==
  ASSUME BioInv, NEW p \in Procs, BreadValid(p)
  PROVE  BioInv'
<1>1. /\ bpc[p] = "check" /\ valid[held[p]]
      /\ bpc' = [bpc EXCEPT ![p] = "hold"]
      /\ UNCHANGED <<driver, calls, blk, valid, refcnt, data, lru, media, held, asked, latest, noBufs>>
  BY DEF BreadValid, diskVars, cache
<1>2. DiskInv' /\ \A q \in Procs : Pending(q)' = Pending(q)
  BY <1>1, DriverSame DEF BioInv, DiskInv, DiskTypeOK
<1>3. \A q \in Procs : bpc'[q] = IF q = p THEN "hold" ELSE bpc[q]
  BY <1>1 DEF BioInv, BioTypes
<1>4. BioTypes'
  BY <1>1 DEF BioInv, BioTypes
<1>5. PositionsAgree'
  BY <1>1, <1>3 DEF BioInv, PositionsAgree, driver
<1>6. (Serial => SerialInv') /\ (AskedDiffer => AskedDiffer')
  <2>1. valid' \in [Bufs -> BOOLEAN] /\ valid'[held[p]] /\ \A b \in Bufs : valid[b] => valid'[b]
    BY <1>1 DEF BioInv, BioTypes
  <2>2. QED BY <2>1, <1>1, HolderGoesOn
<1>7. ASSUME Serial, Exclusive PROVE ContentInv'
  <2>0. AskedDiffer /\ MediaIsCurrent /\ DataIsCurrent
    BY <1>7 DEF BioInv, ContentInv
  <2>1. MediaIsCurrent' /\ DataIsCurrent'
    BY <2>0, <1>1, <1>2, <1>3 DEF MediaIsCurrent, DataIsCurrent
  <2>2. QED BY <2>0, <2>1, <1>6 DEF ContentInv
<1>8. QED BY <1>2, <1>4, <1>5, <1>6, <1>7 DEF BioInv

\* bread starts to read a buffer that is not.
LEMMA BreadLoadKeeps ==
  ASSUME BioInv, NEW p \in Procs, BreadLoad(p)
  PROVE  BioInv'
<1>1. /\ bpc[p] = "check" /\ Rw(p, held[p]) /\ Submit(p, held[p]) /\ calls' \in [Procs -> 0 .. MaxCalls]
      /\ valid' = [valid EXCEPT ![held[p]] = TRUE]
      /\ bpc' = [bpc EXCEPT ![p] = "read"]
      /\ UNCHANGED <<blk, refcnt, data, lru, media, held, asked, latest, noBufs>>
  BY DEF BreadLoad, Rw, BioInv, DiskInv, DiskTypeOK
<1>2. held[p] \in Bufs
  BY <1>1 DEF BioInv, BioTypes, PositionsAgree
<1>3. DiskInv'
  BY <1>1, <1>2, RwKeeps DEF BioInv
<1>4. /\ dpc'[p] # "out" /\ dbuf'[p] = held[p] /\ Pending(p)'
      /\ \A q \in Procs \ {p} : dpc'[q] = dpc[q] /\ dbuf'[q] = dbuf[q]
      /\ \A q \in Procs \ {p} : Pending(q) => Pending(q)'
  BY <1>1, <1>2, SubmitPends DEF BioInv
<1>5. \A q \in Procs : bpc'[q] = IF q = p THEN "read" ELSE bpc[q]
  BY <1>1 DEF BioInv, BioTypes
<1>6. \A b \in Bufs : valid'[b] = IF b = held[p] THEN TRUE ELSE valid[b]
  BY <1>1 DEF BioInv, BioTypes
<1>7. BioTypes'
  BY <1>1, <1>2 DEF BioInv, BioTypes
<1>8. PositionsAgree'
  BY <1>1, <1>4, <1>5 DEF BioInv, PositionsAgree
<1>9. (Serial => SerialInv') /\ (AskedDiffer => AskedDiffer')
  <2>1. valid' \in [Bufs -> BOOLEAN] /\ valid'[held[p]] /\ \A b \in Bufs : valid[b] => valid'[b]
    BY <1>2, <1>6, <1>7 DEF BioTypes
  <2>2. QED BY <2>1, <1>1, HolderGoesOn
<1>10. ASSUME Serial, Exclusive PROVE ContentInv'
  <2>0. AskedDiffer /\ MediaIsCurrent /\ DataIsCurrent
    BY <1>10 DEF BioInv, ContentInv
  <2>1. MediaIsCurrent'
    BY <2>0, <1>1, <1>4, <1>5 DEF MediaIsCurrent
  <2>2. DataIsCurrent'
    BY <2>0, <1>1, <1>4, <1>5, <1>6 DEF DataIsCurrent
  <2>3. QED BY <2>0, <2>1, <2>2, <1>9 DEF ContentInv
<1>11. QED BY <1>3, <1>7, <1>8, <1>9, <1>10 DEF BioInv

\* The holder changes the data.
LEMMA ChangeKeeps ==
  ASSUME BioInv, NEW p \in Procs, NEW v \in Values, Change(p, v)
  PROVE  BioInv'
<1>1. /\ bpc[p] = "hold"
      /\ data' = [data EXCEPT ![held[p]] = v]
      /\ latest' = [latest EXCEPT ![asked[p]] = v]
      /\ bpc' = [bpc EXCEPT ![p] = "dirty"]
      /\ UNCHANGED <<driver, calls, blk, valid, refcnt, lru, media, held, asked, noBufs>>
  BY DEF Change, diskVars
<1>2. held[p] \in Bufs /\ asked[p] \in Blocks
  BY <1>1 DEF BioInv, BioTypes, PositionsAgree
<1>3. DiskInv' /\ \A q \in Procs : Pending(q)' = Pending(q)
  BY <1>1, DriverSame DEF BioInv, DiskInv, DiskTypeOK
<1>4. \A q \in Procs : bpc'[q] = IF q = p THEN "dirty" ELSE bpc[q]
  BY <1>1 DEF BioInv, BioTypes
<1>5. /\ \A b \in Bufs : data'[b] = IF b = held[p] THEN v ELSE data[b]
      /\ \A n \in Blocks : latest'[n] = IF n = asked[p] THEN v ELSE latest[n]
      /\ DOMAIN data' = Bufs /\ DOMAIN latest' = Blocks
  BY <1>1 DEF BioInv, BioTypes
<1>6. BioTypes'
  BY <1>1, <1>5 DEF BioInv, BioTypes
<1>7. PositionsAgree'
  BY <1>1, <1>4 DEF BioInv, PositionsAgree, driver
<1>8. ASSUME Serial PROVE SerialInv' /\ (AskedDiffer => AskedDiffer')
  <2>1. valid[held[p]]
    BY <1>1, <1>8 DEF BioInv, SerialInv, LoadedIsValid
  <2>2. valid' \in [Bufs -> BOOLEAN] /\ valid'[held[p]] /\ \A b \in Bufs : valid[b] => valid'[b]
    BY <1>1, <2>1 DEF BioInv, BioTypes
  <2>3. QED BY <2>2, <1>1, <1>8, HolderGoesOn
<1>9. ASSUME Serial, Exclusive PROVE ContentInv'
  <2>0. AskedDiffer /\ MediaIsCurrent /\ DataIsCurrent
    BY <1>9 DEF BioInv, ContentInv
  <2>1. MediaIsCurrent'
    BY <2>0, <1>1, <1>3, <1>4, <1>5 DEF MediaIsCurrent
  <2>2. blk[held[p]] = asked[p] /\ \A b \in Bufs : b # held[p] => blk[b] # asked[p]
    BY <1>1, <1>2, <1>9, BioAssumption
    DEF BioInv, SerialInv, HeldBufferKeepsBlock, OneBufferPerBlock
  <2>3. DataIsCurrent'
    BY <2>0, <2>2, <1>1, <1>2, <1>3, <1>4, <1>5 DEF DataIsCurrent
  <2>4. QED BY <2>0, <2>1, <2>3, <1>8, <1>9 DEF ContentInv
<1>10. QED BY <1>3, <1>6, <1>7, <1>8, <1>9 DEF BioInv

\* bwrite starts to write the buffer back.
LEMMA BwriteKeeps ==
  ASSUME BioInv, NEW p \in Procs, Bwrite(p)
  PROVE  BioInv'
<1>1. /\ bpc[p] = "dirty" /\ Rw(p, held[p]) /\ Submit(p, held[p]) /\ calls' \in [Procs -> 0 .. MaxCalls]
      /\ bpc' = [bpc EXCEPT ![p] = "write"]
      /\ UNCHANGED <<blk, valid, refcnt, data, lru, media, held, asked, latest, noBufs>>
  BY DEF Bwrite, Rw, cache, BioInv, DiskInv, DiskTypeOK
<1>2. held[p] \in Bufs
  BY <1>1 DEF BioInv, BioTypes, PositionsAgree
<1>3. DiskInv'
  BY <1>1, <1>2, RwKeeps DEF BioInv
<1>4. /\ dpc'[p] # "out" /\ dbuf'[p] = held[p] /\ Pending(p)'
      /\ \A q \in Procs \ {p} : dpc'[q] = dpc[q] /\ dbuf'[q] = dbuf[q]
      /\ \A q \in Procs \ {p} : Pending(q) => Pending(q)'
  BY <1>1, <1>2, SubmitPends DEF BioInv
<1>5. \A q \in Procs : bpc'[q] = IF q = p THEN "write" ELSE bpc[q]
  BY <1>1 DEF BioInv, BioTypes
<1>6. BioTypes'
  BY <1>1, <1>2 DEF BioInv, BioTypes
<1>7. PositionsAgree'
  BY <1>1, <1>4, <1>5 DEF BioInv, PositionsAgree
<1>8. ASSUME Serial PROVE SerialInv' /\ (AskedDiffer => AskedDiffer')
  <2>1. valid[held[p]]
    BY <1>1, <1>8 DEF BioInv, SerialInv, LoadedIsValid
  <2>2. valid' \in [Bufs -> BOOLEAN] /\ valid'[held[p]] /\ \A b \in Bufs : valid[b] => valid'[b]
    BY <1>1, <2>1 DEF BioInv, BioTypes
  <2>3. QED BY <2>2, <1>1, <1>8, HolderGoesOn
<1>9. ASSUME Serial, Exclusive PROVE ContentInv'
  <2>0. AskedDiffer /\ MediaIsCurrent /\ DataIsCurrent
    BY <1>9 DEF BioInv, ContentInv
  <2>1. MediaIsCurrent'
    BY <2>0, <1>1, <1>4, <1>5 DEF MediaIsCurrent
  <2>2. DataIsCurrent'
    BY <2>0, <1>1, <1>4, <1>5 DEF DataIsCurrent
  <2>3. QED BY <2>0, <2>1, <2>2, <1>8, <1>9 DEF ContentInv
<1>10. QED BY <1>3, <1>6, <1>7, <1>8, <1>9 DEF BioInv

\* brelse gives a reference back.
LEMMA BrelseKeeps ==
  ASSUME BioInv, NEW p \in Procs, Brelse(p)
  PROVE  BioInv'
<1>0. PICK b \in Bufs : b = held[p] /\ b # NoBuf
  BY DiskAssumption DEF Brelse, BioInv, BioTypes, PositionsAgree
<1>1. /\ bpc[p] \in {"hold", "written"}
      /\ refcnt' = [refcnt EXCEPT ![b] = @ - 1]
      /\ held' = [held EXCEPT ![p] = NoBuf]
      /\ asked' = [asked EXCEPT ![p] = NoBlock]
      /\ bpc' = [bpc EXCEPT ![p] = "idle"]
      /\ UNCHANGED <<driver, calls, blk, valid, data, media, latest, noBufs>>
  BY <1>0 DEF Brelse, diskVars
<1>2. lru' \in [1 .. Cardinality(Bufs) -> Bufs] /\ \A c \in Bufs : \E i \in 1 .. Cardinality(Bufs) : lru'[i] = c
  <2>1. lru' = MoveToFront(b) \/ lru' = lru
    BY <1>0 DEF Brelse
  <2>2. CASE lru' = MoveToFront(b)
    BY <2>2, <1>0, MoveToFrontKeeps DEF BioInv
  <2>3. CASE lru' = lru
    BY <2>3 DEF BioInv, BioTypes
  <2>4. QED BY <2>1, <2>2, <2>3
<1>3. DiskInv' /\ \A q \in Procs : Pending(q)' = Pending(q)
  BY <1>1, DriverSame DEF BioInv, DiskInv, DiskTypeOK
<1>4. \A q \in Procs : /\ held'[q] = IF q = p THEN NoBuf ELSE held[q]
                       /\ bpc'[q] = IF q = p THEN "idle" ELSE bpc[q]
                       /\ asked'[q] = IF q = p THEN NoBlock ELSE asked[q]
  BY <1>1 DEF BioInv, BioTypes
<1>5. refcnt' \in [Bufs -> Int] /\ \A c \in Bufs : refcnt'[c] = IF c = b THEN refcnt[c] - 1 ELSE refcnt[c]
  BY <1>0, <1>1 DEF BioInv, BioTypes
<1>6. BioTypes'
  BY <1>1, <1>2, <1>5 DEF BioInv, BioTypes
<1>7. PositionsAgree'
  BY <1>1, <1>4 DEF BioInv, PositionsAgree, driver
<1>8. ASSUME Serial PROVE SerialInv'
  <2>0. SerialInv
    BY <1>8 DEF BioInv
  <2>1. p \in Holders(b)
    BY <1>0, <1>1 DEF Holders
  <2>2. refcnt[b] > 0
    BY <2>0, <2>1, <1>0, HeldMeansCounted DEF SerialInv
  <2>3. \A q \in Procs : bpc[q] = "take" => held[q] \in Bufs /\ held[q] # b
    BY <2>0, <2>2 DEF SerialInv, TakersAreAlone, BioInv, BioTypes, PositionsAgree
  <2>4. TakersAreAlone'
    BY <2>0, <2>3, <1>1, <1>4, <1>5 DEF SerialInv, TakersAreAlone
  <2>5. HeldBufferKeepsBlock' /\ LoadedIsValid' /\ OneBufferPerBlock'
    BY <2>0, <1>1, <1>4 DEF SerialInv, HeldBufferKeepsBlock, LoadedIsValid, OneBufferPerBlock
  <2>6. RefcntCountsHolders'
    <3>1. Holders(b)' = Holders(b) \ {p}
      <4>1. \A q \in Procs : held'[q] = b /\ bpc'[q] # "take" <=> q # p /\ held[q] = b /\ bpc[q] # "take"
        BY <1>0, <1>4
      <4>2. QED BY <4>1 DEF Holders
    <3>2. \A c \in Bufs : c # b => Holders(c)' = Holders(c) /\ refcnt'[c] = refcnt[c]
      <4>1. \A c \in Bufs : c # NoBuf
        BY DiskAssumption
      <4>2. \A c \in Bufs : c # b => \A q \in Procs :
              held'[q] = c /\ bpc'[q] # "take" <=> held[q] = c /\ bpc[q] # "take"
        BY <4>1, <1>0, <1>4
      <4>3. QED BY <4>2, <1>5 DEF Holders
    <3>3. refcnt'[b] = refcnt[b] - 1
      BY <1>0, <1>5
    <3>4. RefcntCountsHolders
      BY <2>0 DEF SerialInv
    <3>5. QED BY <1>0, <2>1, <3>1, <3>2, <3>3, <3>4, CountsMove
  <2>7. QED BY <2>4, <2>5, <2>6 DEF SerialInv
<1>9. ASSUME Serial, Exclusive PROVE ContentInv'
  <2>0. AskedDiffer /\ MediaIsCurrent /\ DataIsCurrent
    BY <1>9 DEF BioInv, ContentInv
  <2>1. AskedDiffer'
    BY <2>0, <1>4 DEF AskedDiffer
  <2>2. MediaIsCurrent' /\ DataIsCurrent'
    BY <2>0, <1>1, <1>3, <1>4 DEF MediaIsCurrent, DataIsCurrent
  <2>3. QED BY <2>1, <2>2 DEF ContentInv
<1>10. QED BY <1>3, <1>6, <1>7, <1>8, <1>9 DEF BioInv

\* virtio_disk_rw returns to bread or bwrite.
LEMMA DriverReturnsKeeps ==
  ASSUME BioInv, NEW p \in Procs, DriverReturns(p)
  PROVE  BioInv'
<1> DEFINE s == IF bpc[p] = "read" THEN "hold" ELSE "written"
<1>1. /\ Finish(p) /\ calls' \in [Procs -> 0 .. MaxCalls]
      /\ bpc' = [bpc EXCEPT ![p] = s]
      /\ UNCHANGED <<blk, valid, refcnt, data, lru, media, held, asked, latest, noBufs>>
  BY DEF DriverReturns, cache, BioInv, DiskInv, DiskTypeOK
<1>2. bpc[p] \in {"read", "write"} /\ s \in {"hold", "written"}
  BY <1>1 DEF Finish, BioInv, PositionsAgree
<1>3. DiskInv'
  BY <1>1, FinishKeeps DEF BioInv
<1>4. \A q \in Procs : /\ dpc'[q] = IF q = p THEN "out" ELSE dpc[q]
                       /\ dbuf'[q] = IF q = p THEN NoBuf ELSE dbuf[q]
                       /\ q # p => (Pending(q)' <=> Pending(q))
  BY <1>1 DEF Finish, Pending, BioInv, DiskInv, DiskTypeOK
<1> HIDE DEF s
<1>5. \A q \in Procs : bpc'[q] = IF q = p THEN s ELSE bpc[q]
  BY <1>1 DEF BioInv, BioTypes
<1>6. BioTypes'
  BY <1>1, <1>2 DEF BioInv, BioTypes
<1>7. PositionsAgree'
  BY <1>1, <1>2, <1>4, <1>5 DEF BioInv, PositionsAgree
<1>8. ASSUME Serial PROVE SerialInv' /\ (AskedDiffer => AskedDiffer')
  <2>1. valid[held[p]]
    BY <1>2, <1>8 DEF BioInv, SerialInv, LoadedIsValid
  <2>2. valid' \in [Bufs -> BOOLEAN] /\ valid'[held[p]] /\ \A b \in Bufs : valid[b] => valid'[b]
    BY <1>1, <2>1 DEF BioInv, BioTypes
  <2>3. QED BY <2>2, <1>1, <1>2, <1>8, HolderGoesOn
<1>9. ASSUME Serial, Exclusive PROVE ContentInv'
  <2>0. AskedDiffer /\ MediaIsCurrent /\ DataIsCurrent
    BY <1>9 DEF BioInv, ContentInv
  <2>1. ~Pending(p)
    BY <1>1, <1>9 DEF Finish, Pending, BioInv, DiskInv, InFlightIsBusy
  <2>2. MediaIsCurrent'
    BY <2>0, <2>1, <1>1, <1>2, <1>4, <1>5 DEF MediaIsCurrent
  <2>3. DataIsCurrent'
    BY <2>0, <2>1, <1>1, <1>4, <1>5 DEF DataIsCurrent
  <2>4. QED BY <2>0, <2>2, <2>3, <1>8, <1>9 DEF ContentInv
<1>10. QED BY <1>3, <1>6, <1>7, <1>8, <1>9 DEF BioInv

\* The device moves the data of a request.  The disk has the block a read asks for, since
\* nobody else is about to write it; and the buffer of a write has what the block should be.
LEMMA DeviceTransfersKeeps ==
  ASSUME BioInv, NEW i \in Descs, DeviceTransfers(i)
  PROVE  BioInv'
<1>1. /\ DeviceDone(i) /\ calls' \in [Procs -> 0 .. MaxCalls]
      /\ data' = [b \in Bufs |-> IF Moves(i, "read", b) THEN media[blk[b]] ELSE data[b]]
      /\ media' = [n \in Blocks |->
            IF \E b \in Bufs : blk[b] = n /\ Moves(i, "write", b)
            THEN data[CHOOSE b \in Bufs : blk[b] = n /\ Moves(i, "write", b)] ELSE media[n]]
      /\ UNCHANGED <<blk, valid, refcnt, lru, bpc, held, asked, latest, noBufs>>
  BY DEF DeviceTransfers, BioInv, DiskInv, DiskTypeOK
<1>2. i \in avail /\ avail' = avail \ {i} /\ UNCHANGED <<dpc, dbuf, idx>>
  BY <1>1 DEF DeviceDone
<1>3. DiskInv'
  BY <1>1, DeviceDoneKeeps DEF BioInv
<1>4. BioTypes' /\ PositionsAgree'
  BY <1>1, <1>2 DEF BioInv, BioTypes, PositionsAgree
<1>5. Serial => SerialInv'
  BY <1>1 DEF BioInv, SerialInv, TakersAreAlone, HeldBufferKeepsBlock, RefcntCountsHolders,
              OneBufferPerBlock, LoadedIsValid
<1>6. ASSUME Serial, Exclusive PROVE ContentInv'
  <2>0. AskedDiffer /\ MediaIsCurrent /\ DataIsCurrent /\ SerialInv /\ DiskInv /\ PositionsAgree /\ BioTypes
    BY <1>6 DEF BioInv, ContentInv
  <2>1. PICK p \in Procs : dpc[p] = "wait" /\ HeadOf(idx[p]) = i
    BY <2>0, <1>2, <1>6 DEF DiskInv, InFlightIsOwned
  <2>2. /\ i \in idx[p]
        /\ \A q \in Procs : i \in idx[q] => q = p
        /\ \A q \in Procs : dpc[q] = "wait" /\ HeadOf(idx[q]) = i => q = p
    BY <2>0, <2>1, HeadsDiffer DEF DiskInv, DescsPartition
  <2>3. bpc[p] \in {"read", "write"} /\ held[p] \in Bufs /\ asked[p] \in Blocks
    BY <2>0, <2>1 DEF PositionsAgree, BioTypes
  <2>4. blk[held[p]] = asked[p] /\ valid[held[p]]
    BY <2>0, <2>3 DEF SerialInv, HeldBufferKeepsBlock, LoadedIsValid
  <2>5. \A q \in Procs : q # p /\ Pending(q) => Pending(q)'
    BY <2>2, <1>2 DEF Pending
  <2>6. \A what, b : Moves(i, what, b) <=> bpc[p] = what /\ held[p] = b
    BY <2>2 DEF Moves
  <2>7. AskedDiffer'
    BY <2>0, <1>1 DEF AskedDiffer
  <2>8. CASE bpc[p] = "read"
    <3>1. \A n \in Blocks : media'[n] = media[n]
      BY <2>6, <2>8, <1>1
    <3>2. \A b \in Bufs : data'[b] = IF b = held[p] THEN media[asked[p]] ELSE data[b]
      BY <2>4, <2>6, <2>8, <1>1
    <3>3. media[asked[p]] = latest[asked[p]]
      BY <2>0, <2>3, <2>8 DEF MediaIsCurrent, AskedDiffer
    <3>4. MediaIsCurrent'
      BY <2>0, <2>5, <2>8, <3>1, <1>1 DEF MediaIsCurrent
    <3>5. DataIsCurrent'
      BY <2>0, <2>3, <2>4, <2>5, <3>2, <3>3, <1>1 DEF DataIsCurrent
    <3>6. QED BY <2>7, <3>4, <3>5 DEF ContentInv
  <2>9. CASE bpc[p] = "write"
    <3>1. \A b \in Bufs : data'[b] = data[b]
      BY <2>6, <2>9, <1>1
    <3>2. \A b \in Bufs, n \in Blocks : blk[b] = n /\ Moves(i, "write", b) <=> b = held[p] /\ n = asked[p]
      BY <2>3, <2>4, <2>6, <2>9
    <3>3. \A n \in Blocks : media'[n] = IF n = asked[p] THEN data[held[p]] ELSE media[n]
      <4>1. ASSUME NEW n \in Blocks
            PROVE  media'[n] = IF n = asked[p] THEN data[held[p]] ELSE media[n]
        <5>1. media'[n] = IF \E b \in Bufs : blk[b] = n /\ Moves(i, "write", b)
                          THEN data[CHOOSE b \in Bufs : blk[b] = n /\ Moves(i, "write", b)] ELSE media[n]
          BY <1>1
        <5>2. CASE n = asked[p]
          <6>1. (CHOOSE b \in Bufs : blk[b] = n /\ Moves(i, "write", b)) = held[p]
            BY <3>2, <5>2, <2>3
          <6>2. QED BY <5>1, <5>2, <6>1, <3>2, <2>3
        <5>3. CASE n # asked[p]
          BY <5>1, <5>3, <3>2
        <5>4. QED BY <5>2, <5>3
      <4>2. QED BY <4>1
    <3>4. data[held[p]] = latest[asked[p]]
      <4>1. ASSUME NEW q \in Procs, held[q] = held[p], bpc[q] = "read" PROVE FALSE
        <5>1. asked[q] = asked[p]
          BY <4>1, <2>0, <2>4 DEF SerialInv, HeldBufferKeepsBlock
        <5>2. q = p
          BY <4>1, <5>1, <2>0, <2>9 DEF AskedDiffer
        <5>3. QED BY <4>1, <5>2, <2>9
      <4>2. QED BY <4>1, <2>0, <2>3, <2>4 DEF DataIsCurrent
    <3>5. MediaIsCurrent'
      BY <2>0, <2>5, <3>3, <3>4, <1>1 DEF MediaIsCurrent
    <3>6. DataIsCurrent'
      BY <2>0, <2>5, <2>9, <3>1, <1>1 DEF DataIsCurrent
    <3>7. QED BY <2>7, <3>5, <3>6 DEF ContentInv
  <2>10. QED BY <2>3, <2>8, <2>9
<1>7. QED BY <1>3, <1>4, <1>5, <1>6 DEF BioInv

-----------------------------------------------------------------------------
\* An empty cache satisfies the invariant.
LEMMA BioInitInv == BioInit => BioInv
<1> SUFFICES ASSUME BioInit PROVE BioInv
  OBVIOUS
<1>1. DiskInv
  BY DiskInitInv DEF BioInit
<1>2. BioTypes
  <2>1. /\ lru \in [1 .. Cardinality(Bufs) -> Bufs]
        /\ \A b \in Bufs : \E i \in 1 .. Cardinality(Bufs) : lru[i] = b
    BY DEF BioInit
  <2>2. DOMAIN media = Blocks /\ DOMAIN latest = Blocks
    BY DEF BioInit
  <2>3. valid \in [Bufs -> BOOLEAN] /\ noBufs \in BOOLEAN
    BY DEF BioInit
  <2>4. blk \in [Bufs -> Blocks \cup {NoBlock}] /\ refcnt \in [Bufs -> Int] /\ DOMAIN data = Bufs
    BY DEF BioInit
  <2>5. /\ bpc \in [Procs -> {"idle", "take", "check", "read", "hold", "dirty", "write", "written"}]
        /\ held \in [Procs -> Bufs \cup {NoBuf}]
        /\ asked \in [Procs -> Blocks \cup {NoBlock}]
    BY DEF BioInit
  <2>6. QED BY <2>1, <2>2, <2>3, <2>4, <2>5 DEF BioTypes
<1>3. PositionsAgree
  BY DEF BioInit, DiskInit, PositionsAgree
<1>4. \A b \in Bufs : b # NoBuf
  BY DiskAssumption
<1>5. RefcntCountsHolders
  <2>1. \A b \in Bufs : {p \in Procs : held[p] = b /\ bpc[p] # "take"} = {}
    BY <1>4 DEF BioInit
  <2>2. \A b \in Bufs : refcnt[b] = 0
    BY DEF BioInit
  <2>3. QED BY <2>1, <2>2, FS_EmptySet DEF RefcntCountsHolders
<1>6. TakersAreAlone /\ HeldBufferKeepsBlock /\ OneBufferPerBlock /\ LoadedIsValid
  BY DEF BioInit, TakersAreAlone, HeldBufferKeepsBlock, OneBufferPerBlock, LoadedIsValid
<1>7. ContentInv
  BY DEF BioInit, ContentInv, AskedDiffer, MediaIsCurrent, DataIsCurrent
<1>8. QED BY <1>1, <1>2, <1>3, <1>5, <1>6, <1>7 DEF BioInv, SerialInv

\* Every step of the cache and of the driver underneath keeps it.
LEMMA BioNextInv == BioInv /\ [BioNext]_bioVars => BioInv'
<1> SUFFICES ASSUME BioInv, [BioNext]_bioVars PROVE BioInv'
  OBVIOUS
<1>1. ASSUME NEW p \in Procs, NEW n \in Blocks, Bread(p, n) PROVE BioInv'
  <2>1. BgetHit(p, n) \/ BgetMiss(p, n)
    BY <1>1 DEF Bread
  <2>2. QED BY <1>1, <2>1, BreadHitKeeps, BreadMissKeeps
<1>2. ASSUME NEW p \in Procs, NEW v \in Values, Change(p, v) PROVE BioInv'
  BY <1>2, ChangeKeeps
<1>3. ASSUME NEW p \in Procs,
             BgetTake(p) \/ BreadValid(p) \/ BreadLoad(p) \/ Bwrite(p) \/ Brelse(p)
             \/ DriverReturns(p) \/ DriverWaits(p)
      PROVE  BioInv'
  BY <1>3, BgetTakeKeeps, BreadValidKeeps, BreadLoadKeeps, BwriteKeeps, BrelseKeeps,
     DriverReturnsKeeps, DriverWaitsKeeps
<1>4. ASSUME NEW i \in Descs, DeviceTransfers(i) PROVE BioInv'
  BY <1>4, DeviceTransfersKeeps
<1>5. ASSUME Interrupt PROVE BioInv'
  BY <1>5, InterruptKeeps
<1>6. CASE UNCHANGED bioVars
  <2>1. UNCHANGED <<driver, calls, cache, bpc, held, asked, latest, noBufs>>
    BY <1>6 DEF bioVars, diskVars
  <2>2. DiskInv' /\ \A p \in Procs : Pending(p)' = Pending(p)
    BY <2>1, DriverSame DEF BioInv, DiskInv, DiskTypeOK
  <2>3. \A p \in Procs : dpc'[p] = dpc[p] /\ dbuf'[p] = dbuf[p]
    BY <2>1 DEF driver
  <2>4. QED BY <2>1, <2>2, <2>3, DriverOnlyKeeps
<1>7. QED BY <1>1, <1>2, <1>3, <1>4, <1>5, <1>6 DEF BioNext

\* The inductive invariant of the cache on its driver holds in every reachable state.
THEOREM BioInvariant == BioSpec => []BioInv
  BY BioInitInv, BioNextInv, PTL DEF BioSpec

\* As long as no process enters bget while another is in it, the reference count of every
\* buffer is the number of its holders: bget and brelse lose and invent no reference.
THEOREM BioCounts == ASSUME Serial PROVE BioSpec => []RefcntCountsHolders
<1>1. BioInv => RefcntCountsHolders
  BY DEF BioInv, SerialInv
<1>2. QED BY <1>1, BioInvariant, PTL

\* As long as no process enters bget while another is in it, a buffer between bread and
\* brelse stays the buffer of its block: bget never gives it to another block.
THEOREM BioHeldBuffers == ASSUME Serial PROVE BioSpec => []HeldBufferKeepsBlock
<1>1. BioInv => HeldBufferKeepsBlock
  BY DEF BioInv, SerialInv
<1>2. QED BY <1>1, BioInvariant, PTL

\* If moreover no two processes use one block at a time, bread returns the block that was
\* asked for with what was last put into it, through eviction, reuse and the interrupts of
\* the driver.
THEOREM BioContents == ASSUME Serial, Exclusive PROVE BioSpec => []BreadReturnsBlock
<1>1. BioInv => BreadReturnsBlock
  <2> SUFFICES ASSUME BioInv, NEW p \in Procs, bpc[p] = "hold"
               PROVE  blk[held[p]] = asked[p] /\ data[held[p]] = latest[asked[p]]
    BY DEF BreadReturnsBlock
  <2>1. SerialInv /\ ContentInv /\ PositionsAgree /\ BioTypes
    BY DEF BioInv
  <2>2. held[p] \in Bufs /\ blk[held[p]] = asked[p] /\ valid[held[p]]
    BY <2>1 DEF SerialInv, HeldBufferKeepsBlock, LoadedIsValid, PositionsAgree, BioTypes
  <2>3. ASSUME NEW q \in Procs, held[q] = held[p], bpc[q] = "read" PROVE FALSE
    <3>1. asked[q] = asked[p]
      BY <2>1, <2>2, <2>3 DEF SerialInv, HeldBufferKeepsBlock
    <3>2. QED BY <2>1, <2>3, <3>1 DEF ContentInv, AskedDiffer
  <2>4. QED BY <2>1, <2>2, <2>3 DEF ContentInv, DataIsCurrent
<1>2. QED BY <1>1, BioInvariant, PTL

\* The queue below the cache keeps its descriptors apart, whatever the callers do.
THEOREM BioDescriptors == BioSpec => []DescsPartition
<1>1. BioInv => DescsPartition
  BY DEF BioInv, DiskInv
<1>2. QED BY <1>1, BioInvariant, PTL

=============================================================================
