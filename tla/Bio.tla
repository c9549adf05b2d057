-------------------------------- MODULE Bio ---------------------------------
(***************************************************************************)
(* The buffer cache of bio.c on top of the disk driver: bget with its LRU  *)
(* list, bread, bwrite and brelse, used by processes the way fs.c uses     *)
(* them (bread, perhaps change the data and bwrite, brelse).               *)
(*                                                                         *)
(* None of this code takes a lock, and the timer may strike inside bget,   *)
(* between the search for a buffer and its reuse.  Exclusive restricts the *)
(* callers to blocks that nobody else is using, Serial to calls of bread   *)
(* while nobody else is inside bget.  The kernel as it is guarantees       *)
(* neither; the constants tell what the cache owes to each.  The changes   *)
(* of refcnt and of the list are one step each.                            *)
(***************************************************************************)
EXTENDS VirtioDisk, Sequences

CONSTANTS
  Blocks,       \* block numbers
  Values,       \* contents of a block
  Blank,        \* what a never used buffer holds
  NoBlock,      \* blockno of a never used buffer (dev 0)
  Serial        \* do the callers never enter bget while another one is in it?

ASSUME BioAssumption ==
  /\ IsFiniteSet(Procs) /\ IsFiniteSet(Bufs)
  /\ NoBlock \notin Blocks
  /\ Serial \in BOOLEAN

VARIABLES
  blk, valid, refcnt, data,  \* fields of struct buf
  lru,      \* bcache list, most recently used first
  media,    \* what is on the disk
  bpc,      \* bpc[p]: where p stands between bread and brelse
  held,     \* held[p]: the buffer bget has found for p
  asked,    \* asked[p]: the block p wants
  latest,   \* history: what the last change made each block contain
  noBufs    \* panic("bget: no buffers")

cache == <<blk, valid, refcnt, data, lru, media>>
bioVars == <<diskVars, cache, bpc, held, asked, latest, noBufs>>

\* binit puts every buffer at the head of the list.
BioInit ==
  /\ DiskInit
  /\ blk = [b \in Bufs |-> NoBlock]
  /\ valid = [b \in Bufs |-> FALSE]
  /\ refcnt = [b \in Bufs |-> 0]
  /\ data = [b \in Bufs |-> Blank]
  /\ lru \in {l \in [1 .. Cardinality(Bufs) -> Bufs] : \A b \in Bufs : \E i \in DOMAIN l : l[i] = b}
  /\ media \in [Blocks -> Values]
  /\ bpc = [p \in Procs |-> "idle"]
  /\ held = [p \in Procs |-> NoBuf]
  /\ asked = [p \in Procs |-> NoBlock]
  /\ latest = media
  /\ noBufs = FALSE

-----------------------------------------------------------------------------
\* Mutant: a buffer is reused whether it is held or not.
UnusedAll == DOMAIN lru

Unused == {i \in DOMAIN lru : refcnt[lru[i]] = 0}

\* The last unused buffer of the list.
Victim == lru[CHOOSE i \in Unused : \A j \in Unused : j <= i]

\* The buffer is given a new block.
Reuse(p, b, n) ==
  /\ blk' = [blk EXCEPT ![b] = n]
  /\ valid' = [valid EXCEPT ![b] = FALSE]
  /\ refcnt' = [refcnt EXCEPT ![b] = 1]
  /\ held' = [held EXCEPT ![p] = b]
  /\ bpc' = [bpc EXCEPT ![p] = "check"]

\* The first buffer of the list that holds block n.
Cached(n) == {i \in DOMAIN lru : blk[lru[i]] = n}
FirstCached(n) == lru[CHOOSE i \in Cached(n) : \A j \in Cached(n) : i <= j]

\* Mutant: a cache hit takes no reference.
BgetHitNoCount(p, n) ==
  /\ Cached(n) # {}
  /\ LET b == FirstCached(n) IN
    /\ held' = [held EXCEPT ![p] = b]
    /\ bpc' = [bpc EXCEPT ![p] = "check"]
    /\ UNCHANGED <<refcnt, blk, valid, noBufs>>

\* bget of a block that is cached.
BgetHit(p, n) ==
  /\ Cached(n) # {}
  /\ LET b == FirstCached(n) IN
    /\ refcnt' = [refcnt EXCEPT ![b] = @ + 1]
    /\ held' = [held EXCEPT ![p] = b]
    /\ bpc' = [bpc EXCEPT ![p] = "check"]
    /\ UNCHANGED <<blk, valid, noBufs>>

\* bget of a block that is not: the search ends at the victim.
BgetMiss(p, n) ==
  /\ Cached(n) = {}
  /\ \/ /\ Unused = {}
        /\ noBufs' = TRUE
        /\ UNCHANGED <<blk, valid, refcnt, held, bpc>>
     \/ /\ Unused # {}
        /\ held' = [held EXCEPT ![p] = Victim]
        /\ bpc' = [bpc EXCEPT ![p] = "take"]
        /\ UNCHANGED <<blk, valid, refcnt, noBufs>>

\* bread is called.
Bread(p, n) ==
  /\ bpc[p] = "idle"
  /\ calls[p] < MaxCalls
  /\ calls' = [calls EXCEPT ![p] = @ + 1]
  /\ Exclusive => \A q \in Procs \ {p} : asked[q] # n
  /\ Serial => \A q \in Procs : bpc[q] # "take"
  /\ asked' = [asked EXCEPT ![p] = n]
  /\ BgetHit(p, n) \/ BgetMiss(p, n)
  /\ UNCHANGED <<driver, data, lru, media, latest>>

BgetTake(p) ==
  /\ bpc[p] = "take"
  /\ Reuse(p, held[p], asked[p])
  /\ UNCHANGED <<diskVars, data, lru, media, asked, latest, noBufs>>

\* bread after bget: a valid buffer is returned, any other is marked valid and
\* then read from the disk.
BreadValid(p) ==
  /\ bpc[p] = "check" /\ valid[held[p]]
  /\ bpc' = [bpc EXCEPT ![p] = "hold"]
  /\ UNCHANGED <<diskVars, cache, held, asked, latest, noBufs>>

BreadLoad(p) ==
  /\ bpc[p] = "check" /\ ~valid[held[p]]
  /\ valid' = [valid EXCEPT ![held[p]] = TRUE]
  /\ Rw(p, held[p])
  /\ bpc' = [bpc EXCEPT ![p] = "read"]
  /\ UNCHANGED <<calls, blk, refcnt, data, lru, media, held, asked, latest, noBufs>>

\* The caller changes the data (and always writes them back).
Change(p, v) ==
  /\ bpc[p] = "hold"
  /\ data' = [data EXCEPT ![held[p]] = v]
  /\ latest' = [latest EXCEPT ![asked[p]] = v]
  /\ bpc' = [bpc EXCEPT ![p] = "dirty"]
  /\ UNCHANGED <<diskVars, blk, valid, refcnt, lru, media, held, asked, noBufs>>

Bwrite(p) ==
  /\ bpc[p] = "dirty"
  /\ Rw(p, held[p])
  /\ bpc' = [bpc EXCEPT ![p] = "write"]
  /\ UNCHANGED <<calls, cache, held, asked, latest, noBufs>>

\* The list after buffer b was unlinked and put at its head.
MoveToFront(b) ==
  LET k == CHOOSE i \in DOMAIN lru : lru[i] = b IN
  [i \in DOMAIN lru |-> IF i = 1 THEN b ELSE IF i <= k THEN lru[i - 1] ELSE lru[i]]

\* Mutant: changed data are given up without bwrite.
BrelseDirty(p) ==
  /\ bpc[p] \in {"hold", "dirty", "written"}
  /\ LET b == held[p] IN
       /\ refcnt' = [refcnt EXCEPT ![b] = @ - 1]
       /\ lru' = IF refcnt[b] = 1 THEN MoveToFront(b) ELSE lru
  /\ held' = [held EXCEPT ![p] = NoBuf]
  /\ asked' = [asked EXCEPT ![p] = NoBlock]
  /\ bpc' = [bpc EXCEPT ![p] = "idle"]
  /\ UNCHANGED <<diskVars, blk, valid, data, media, latest, noBufs>>

\* brelse: the last reference puts the buffer at the head of the list.  The unlocked
\* refcnt-- and the assignments to the pointers of the list are one step here.
Brelse(p) ==
  /\ bpc[p] \in {"hold", "written"}
  /\ LET b == held[p] IN
       /\ refcnt' = [refcnt EXCEPT ![b] = @ - 1]
       /\ lru' = IF refcnt[b] = 1 THEN MoveToFront(b) ELSE lru
  /\ held' = [held EXCEPT ![p] = NoBuf]
  /\ asked' = [asked EXCEPT ![p] = NoBlock]
  /\ bpc' = [bpc EXCEPT ![p] = "idle"]
  /\ UNCHANGED <<diskVars, blk, valid, data, media, latest, noBufs>>

-----------------------------------------------------------------------------
(* The driver underneath.  virtio_disk_rw returns to bread or bwrite; the  *)
(* device moves the data of a request no later than it completes it.       *)

DriverReturns(p) ==
  /\ Finish(p)
  /\ bpc' = [bpc EXCEPT ![p] = IF @ = "read" THEN "hold" ELSE "written"]
  /\ UNCHANGED <<calls, cache, held, asked, latest, noBufs>>

DriverWaits(p) ==
  /\ AllocAgain(p) \/ SleepAgain(p)
  /\ UNCHANGED <<calls, cache, bpc, held, asked, latest, noBufs>>

\* The request with head i is a read into, or a write from, buffer b.
Moves(i, what, b) == \E p \in Procs : i \in idx[p] /\ bpc[p] = what /\ held[p] = b

DeviceTransfers(i) ==
  /\ DeviceDone(i)
  /\ data' = [b \in Bufs |-> IF Moves(i, "read", b) THEN media[blk[b]] ELSE data[b]]
  /\ media' = [n \in Blocks |->
        IF \E b \in Bufs : blk[b] = n /\ Moves(i, "write", b)
        THEN data[CHOOSE b \in Bufs : blk[b] = n /\ Moves(i, "write", b)] ELSE media[n]]
  /\ UNCHANGED <<calls, blk, valid, refcnt, lru, bpc, held, asked, latest, noBufs>>

Interrupt ==
  /\ Intr \/ (\E p \in Procs : CtrlC(p))
  /\ UNCHANGED <<calls, cache, bpc, held, asked, latest, noBufs>>

BioNext ==
  /\ ~noBufs /\ ~crashed
  /\ \/ \E p \in Procs :
          \/ \E n \in Blocks : Bread(p, n)
          \/ \E v \in Values : Change(p, v)
          \/ BgetTake(p) \/ BreadValid(p) \/ BreadLoad(p) \/ Bwrite(p) \/ Brelse(p)
          \/ DriverReturns(p) \/ DriverWaits(p)
     \/ \E i \in Descs : DeviceTransfers(i)
     \/ Interrupt

BioSpec == BioInit /\ [][BioNext]_bioVars

-----------------------------------------------------------------------------
(* Properties                                                              *)

\* The buffer a process has from bread is the buffer of the block it asked for,
\* and it holds what was last put into that block.
BreadReturnsBlock ==
  \A p \in Procs :
    bpc[p] = "hold" => blk[held[p]] = asked[p] /\ data[held[p]] = latest[asked[p]]

\* The reference count of a buffer is the number of processes that hold it, so a
\* held buffer is not evicted and an unused one can be.
RefcntCountsHolders ==
  \A b \in Bufs :
    refcnt[b] = Cardinality({p \in Procs : held[p] = b /\ bpc[p] # "take"})

\* A buffer that a process holds stays the buffer of its block: bget reuses only
\* buffers with refcnt 0.
HeldBufferKeepsBlock ==
  \A p \in Procs : bpc[p] \notin {"idle", "take"} => blk[held[p]] = asked[p]

=============================================================================
