----------------------------- MODULE ProcProofs -----------------------------
(***************************************************************************)
(* Proofs about module Proc, for every size of the process table, every    *)
(* number of forks, with and without failing allocations and with and      *)
(* without disk I/O in exit.                                               *)
(*                                                                         *)
(* IInv is inductive.  There is one lemma per action; its steps are the    *)
(* groups of conjuncts of IInv: the types; the agreement of status, CPU    *)
(* and kernel position; the wakeup of a waiting parent; the slots of forks *)
(* under way; disk requests; and the assertion of sched().                 *)
(***************************************************************************)
EXTENDS Proc, TLAPS

\* The addresses used as sleep channels are different from each other and from
\* the null pointer, and the scheduler loop stays inside the table.
LEMMA SlotFacts ==
  /\ None \notin Slots
  /\ None \in Chans
  /\ \A s \in Slots : /\ NextSlot(s) \in Slots
                      /\ s \in Chans
                      /\ BufOf(s) \in Chans
                      /\ BufOf(s) \notin Slots
                      /\ BufOf(s) # None
  /\ \A s, t \in Slots : BufOf(s) = BufOf(t) => s = t
  BY ProcAssumption DEF Slots, None, Chans, BufOf, NextSlot

\* The scheduler switches to a READY process.
LEMMA DispatchKeeps ==
  ASSUME IInv, Dispatch, ~panicked
  PROVE  IInv'
<1>1. TypeOK'
  BY SlotFacts, ProcAssumption
  DEF IInv, TypeOK, Pcs, ForkPcs, ExitPcs, Statuses,
      Dispatch, table
<1>2. (CurrentIsRunning /\ NoStackReuse /\ StatusAgrees /\ ExitsStayZombie)'
  BY SlotFacts, ProcAssumption
  DEF IInv, TypeOK, CurrentIsRunning, NoStackReuse, StatusAgrees, SleepPcs,
      ExitsStayZombie, ExitPcs,
      Dispatch, table
<1>3. NoLostExit'
  BY SlotFacts, ProcAssumption
  DEF IInv, TypeOK, CurrentIsRunning, StatusAgrees, NoLostExit,
      Dispatch, table
<1>4. (ForkHasSlot /\ ForksAreDisjoint)'
  BY SlotFacts, ProcAssumption
  DEF IInv, TypeOK, CurrentIsRunning, NoStackReuse, ForkHasSlot, ForksAreDisjoint, ForkPcs,
      Dispatch, table
<1>5. (NoLostCompletion /\ IoDoneBeforeReturn)'
  BY SlotFacts, ProcAssumption
  DEF IInv, TypeOK, CurrentIsRunning, NoStackReuse, StatusAgrees, SleepPcs,
      NoLostCompletion, IoDoneBeforeReturn,
      Dispatch, table
<1>6. (~ExitBlocks => NoPanic)'
  BY DEF IInv, NoPanic, ExitsStayZombie, ExitPcs, Dispatch, table
<1>7. QED BY <1>1, <1>2, <1>3, <1>4, <1>5, <1>6 DEF IInv

\* The scheduler passes over a slot.
LEMMA SchedSkipKeeps ==
  ASSUME IInv, SchedSkip, ~panicked
  PROVE  IInv'
<1>1. TypeOK'
  BY SlotFacts, ProcAssumption
  DEF IInv, TypeOK, Pcs, ForkPcs, ExitPcs, Statuses,
      SchedSkip, table
<1>2. (CurrentIsRunning /\ NoStackReuse /\ StatusAgrees /\ ExitsStayZombie)'
  BY SlotFacts, ProcAssumption
  DEF IInv, TypeOK, CurrentIsRunning, NoStackReuse, StatusAgrees, SleepPcs,
      ExitsStayZombie, ExitPcs,
      SchedSkip, table
<1>3. NoLostExit'
  BY SlotFacts, ProcAssumption
  DEF IInv, TypeOK, CurrentIsRunning, StatusAgrees, NoLostExit,
      SchedSkip, table
<1>4. (ForkHasSlot /\ ForksAreDisjoint)'
  BY SlotFacts, ProcAssumption
  DEF IInv, TypeOK, CurrentIsRunning, NoStackReuse, ForkHasSlot, ForksAreDisjoint, ForkPcs,
      SchedSkip, table
<1>5. (NoLostCompletion /\ IoDoneBeforeReturn)'
  BY SlotFacts, ProcAssumption
  DEF IInv, TypeOK, CurrentIsRunning, NoStackReuse, StatusAgrees, SleepPcs,
      NoLostCompletion, IoDoneBeforeReturn,
      SchedSkip, table
<1>6. (~ExitBlocks => NoPanic)'
  BY DEF IInv, NoPanic, ExitsStayZombie, ExitPcs, SchedSkip, table
<1>7. QED BY <1>1, <1>2, <1>3, <1>4, <1>5, <1>6 DEF IInv

\* The timer takes the CPU from a RUNNING process.
LEMMA PreemptKeeps ==
  ASSUME NEW s \in Slots, IInv, Preempt(s), ~panicked
  PROVE  IInv'
<1>1. TypeOK'
  BY SlotFacts, ProcAssumption
  DEF IInv, TypeOK, Pcs, ForkPcs, ExitPcs, Statuses,
      Preempt, Yields, table
<1>2. (CurrentIsRunning /\ NoStackReuse /\ StatusAgrees /\ ExitsStayZombie)'
  BY SlotFacts, ProcAssumption
  DEF IInv, TypeOK, CurrentIsRunning, NoStackReuse, StatusAgrees, SleepPcs,
      ExitsStayZombie, ExitPcs,
      Preempt, Yields, table
<1>3. NoLostExit'
  BY SlotFacts, ProcAssumption
  DEF IInv, TypeOK, CurrentIsRunning, StatusAgrees, NoLostExit,
      Preempt, Yields, table
<1>4. (ForkHasSlot /\ ForksAreDisjoint)'
  BY SlotFacts, ProcAssumption
  DEF IInv, TypeOK, CurrentIsRunning, NoStackReuse, ForkHasSlot, ForksAreDisjoint, ForkPcs,
      Preempt, Yields, table
<1>5. (NoLostCompletion /\ IoDoneBeforeReturn)'
  BY SlotFacts, ProcAssumption
  DEF IInv, TypeOK, CurrentIsRunning, NoStackReuse, StatusAgrees, SleepPcs,
      NoLostCompletion, IoDoneBeforeReturn,
      Preempt, Yields, table
<1>6. (~ExitBlocks => NoPanic)'
  BY DEF IInv, NoPanic, ExitsStayZombie, ExitPcs, Preempt, Yields, table
<1>7. QED BY <1>1, <1>2, <1>3, <1>4, <1>5, <1>6 DEF IInv

\* Entry of fork.
LEMMA UserForkKeeps ==
  ASSUME NEW s \in Slots, IInv, UserFork(s), ~panicked
  PROVE  IInv'
<1>1. TypeOK'
  BY SlotFacts, ProcAssumption
  DEF IInv, TypeOK, Pcs, ForkPcs, ExitPcs, Statuses,
      UserFork, table
<1>2. (CurrentIsRunning /\ NoStackReuse /\ StatusAgrees /\ ExitsStayZombie)'
  BY SlotFacts, ProcAssumption
  DEF IInv, TypeOK, CurrentIsRunning, NoStackReuse, StatusAgrees, SleepPcs,
      ExitsStayZombie, ExitPcs,
      UserFork, table
<1>3. NoLostExit'
  BY SlotFacts, ProcAssumption
  DEF IInv, TypeOK, CurrentIsRunning, StatusAgrees, NoLostExit,
      UserFork, table
<1>4. (ForkHasSlot /\ ForksAreDisjoint)'
  BY SlotFacts, ProcAssumption
  DEF IInv, TypeOK, CurrentIsRunning, NoStackReuse, ForkHasSlot, ForksAreDisjoint, ForkPcs,
      UserFork, table
<1>5. (NoLostCompletion /\ IoDoneBeforeReturn)'
  BY SlotFacts, ProcAssumption
  DEF IInv, TypeOK, CurrentIsRunning, NoStackReuse, StatusAgrees, SleepPcs,
      NoLostCompletion, IoDoneBeforeReturn,
      UserFork, table
<1>6. (~ExitBlocks => NoPanic)'
  BY DEF IInv, NoPanic, ExitsStayZombie, ExitPcs, UserFork, table
<1>7. QED BY <1>1, <1>2, <1>3, <1>4, <1>5, <1>6 DEF IInv

\* Entry of wait.
LEMMA UserWaitKeeps ==
  ASSUME NEW s \in Slots, IInv, UserWait(s), ~panicked
  PROVE  IInv'
<1>1. TypeOK'
  BY SlotFacts, ProcAssumption
  DEF IInv, TypeOK, Pcs, ForkPcs, ExitPcs, Statuses,
      UserWait, table
<1>2. (CurrentIsRunning /\ NoStackReuse /\ StatusAgrees /\ ExitsStayZombie)'
  BY SlotFacts, ProcAssumption
  DEF IInv, TypeOK, CurrentIsRunning, NoStackReuse, StatusAgrees, SleepPcs,
      ExitsStayZombie, ExitPcs,
      UserWait, table
<1>3. NoLostExit'
  BY SlotFacts, ProcAssumption
  DEF IInv, TypeOK, CurrentIsRunning, StatusAgrees, NoLostExit,
      UserWait, table
<1>4. (ForkHasSlot /\ ForksAreDisjoint)'
  BY SlotFacts, ProcAssumption
  DEF IInv, TypeOK, CurrentIsRunning, NoStackReuse, ForkHasSlot, ForksAreDisjoint, ForkPcs,
      UserWait, table
<1>5. (NoLostCompletion /\ IoDoneBeforeReturn)'
  BY SlotFacts, ProcAssumption
  DEF IInv, TypeOK, CurrentIsRunning, NoStackReuse, StatusAgrees, SleepPcs,
      NoLostCompletion, IoDoneBeforeReturn,
      UserWait, table
<1>6. (~ExitBlocks => NoPanic)'
  BY DEF IInv, NoPanic, ExitsStayZombie, ExitPcs, UserWait, table
<1>7. QED BY <1>1, <1>2, <1>3, <1>4, <1>5, <1>6 DEF IInv

\* A system call submits a disk request and sleeps.
LEMMA UserIoKeeps ==
  ASSUME NEW s \in Slots, IInv, UserIo(s), ~panicked
  PROVE  IInv'
<1>1. TypeOK'
  BY SlotFacts, ProcAssumption
  DEF IInv, TypeOK, Pcs, ForkPcs, ExitPcs, Statuses,
      UserIo, Sleeps, table
<1>2. (CurrentIsRunning /\ NoStackReuse /\ StatusAgrees /\ ExitsStayZombie)'
  BY SlotFacts, ProcAssumption
  DEF IInv, TypeOK, CurrentIsRunning, NoStackReuse, StatusAgrees, SleepPcs,
      ExitsStayZombie, ExitPcs,
      UserIo, Sleeps, table
<1>3. NoLostExit'
  BY SlotFacts, ProcAssumption
  DEF IInv, TypeOK, CurrentIsRunning, StatusAgrees, NoLostExit,
      UserIo, Sleeps, table
<1>4. (ForkHasSlot /\ ForksAreDisjoint)'
  BY SlotFacts, ProcAssumption
  DEF IInv, TypeOK, CurrentIsRunning, NoStackReuse, ForkHasSlot, ForksAreDisjoint, ForkPcs,
      UserIo, Sleeps, table
<1>5. (NoLostCompletion /\ IoDoneBeforeReturn)'
  BY SlotFacts, ProcAssumption
  DEF IInv, TypeOK, CurrentIsRunning, NoStackReuse, StatusAgrees, SleepPcs,
      NoLostCompletion, IoDoneBeforeReturn,
      UserIo, Sleeps, table
<1>6. (~ExitBlocks => NoPanic)'
  BY DEF IInv, NoPanic, ExitsStayZombie, ExitPcs, UserIo, Sleeps, table
<1>7. QED BY <1>1, <1>2, <1>3, <1>4, <1>5, <1>6 DEF IInv

\* exit starts: the process becomes a ZOMBIE while it is on the CPU.
LEMMA UserExitKeeps ==
  ASSUME NEW s \in Slots, IInv, UserExit(s), ~panicked
  PROVE  IInv'
<1>1. TypeOK'
  BY SlotFacts, ProcAssumption
  DEF IInv, TypeOK, Pcs, ForkPcs, ExitPcs, Statuses,
      UserExit, ExitBegin, table
<1>2. (CurrentIsRunning /\ NoStackReuse /\ StatusAgrees /\ ExitsStayZombie)'
  BY SlotFacts, ProcAssumption
  DEF IInv, TypeOK, CurrentIsRunning, NoStackReuse, StatusAgrees, SleepPcs,
      ExitsStayZombie, ExitPcs,
      UserExit, ExitBegin, table
<1>3. NoLostExit'
  BY SlotFacts, ProcAssumption
  DEF IInv, TypeOK, CurrentIsRunning, StatusAgrees, NoLostExit,
      UserExit, ExitBegin, table
<1>4. (ForkHasSlot /\ ForksAreDisjoint)'
  BY SlotFacts, ProcAssumption
  DEF IInv, TypeOK, CurrentIsRunning, NoStackReuse, ForkHasSlot, ForksAreDisjoint, ForkPcs,
      UserExit, ExitBegin, table
<1>5. (NoLostCompletion /\ IoDoneBeforeReturn)'
  BY SlotFacts, ProcAssumption
  DEF IInv, TypeOK, CurrentIsRunning, NoStackReuse, StatusAgrees, SleepPcs,
      NoLostCompletion, IoDoneBeforeReturn,
      UserExit, ExitBegin, table
<1>6. (~ExitBlocks => NoPanic)'
  BY DEF IInv, NoPanic, ExitsStayZombie, ExitPcs, UserExit, ExitBegin, table
<1>7. QED BY <1>1, <1>2, <1>3, <1>4, <1>5, <1>6 DEF IInv

\* allocproc looks at one slot: it takes it, passes over it, or is at the end.
LEMMA ForkScanKeeps ==
  ASSUME NEW s \in Slots, IInv, ForkScan(s), ~panicked
  PROVE  IInv'
<1> USE SlotFacts, ProcAssumption
<1>1. cpu = s /\ pc[s] = "forkScan" /\ status[s] = "RUNNING"
  BY DEF IInv, CurrentIsRunning, StatusAgrees, ForkScan
<1>2. CASE at[s] < NPROC /\ \E ok \in {TRUE, ~MemFails} : Allocproc(s, at[s], ok)
  <2> DEFINE t == at[s]
  <2>1. PICK ok \in {TRUE, ~MemFails} : Allocproc(s, t, ok)
    BY <1>2
  <2>2. t \in Slots /\ t # s /\ status[t] = "FREE" /\ pc[t] = "dead"
    <3>1. t \in Slots
      BY <1>2 DEF IInv, TypeOK, Slots
    <3>2. QED BY <1>1, <2>1, <3>1 DEF IInv, NoStackReuse, Allocproc
  <2> HIDE DEF t
  <2>3. TypeOK'
    BY <2>1, <2>2
    DEF IInv, TypeOK, Pcs, ForkPcs, ExitPcs, Statuses, ForkScan, Allocproc
  <2>4. (CurrentIsRunning /\ NoStackReuse /\ StatusAgrees /\ ExitsStayZombie)'
    BY <1>1, <2>1, <2>2
    DEF IInv, TypeOK, CurrentIsRunning, NoStackReuse, StatusAgrees, SleepPcs,
        ExitsStayZombie, ExitPcs, ForkScan, Allocproc
  <2>5. NoLostExit'
    BY <1>1, <2>1, <2>2 DEF IInv, TypeOK, NoLostExit, ForkScan, Allocproc
  <2>6. (ForkHasSlot /\ ForksAreDisjoint)'
    <3>1. CASE ok
      BY <1>1, <2>1, <2>2, <3>1
      DEF IInv, TypeOK, ForkHasSlot, ForksAreDisjoint, ForkPcs, ForkScan, Allocproc
    <3>2. CASE ~ok
      BY <1>1, <2>1, <2>2, <3>2
      DEF IInv, TypeOK, ForkHasSlot, ForksAreDisjoint, ForkPcs, ForkScan, Allocproc
    <3>3. QED BY <3>1, <3>2
  <2>7. (NoLostCompletion /\ IoDoneBeforeReturn)'
    BY <1>1, <2>1, <2>2
    DEF IInv, TypeOK, NoLostCompletion, IoDoneBeforeReturn, ForkScan, Allocproc
  <2>8. (~ExitBlocks => NoPanic)'
    BY DEF IInv, NoPanic, ForkScan
  <2>9. QED BY <2>3, <2>4, <2>5, <2>6, <2>7, <2>8 DEF IInv
<1>3. CASE /\ pc' = pc \/ (pc' = [pc EXCEPT ![s] = "ret"])
           /\ at' = at \/ (at[s] < NPROC /\ at' = [at EXCEPT ![s] = @ + 1])
           /\ UNCHANGED <<table, np, nextpid>>
  <2>1. TypeOK'
    BY <1>3 DEF IInv, TypeOK, Pcs, table, ForkScan
  <2>2. (CurrentIsRunning /\ NoStackReuse /\ StatusAgrees /\ ExitsStayZombie)'
    BY <1>1, <1>3
    DEF IInv, TypeOK, CurrentIsRunning, NoStackReuse, StatusAgrees, SleepPcs,
        ExitsStayZombie, ExitPcs, table, ForkScan
  <2>3. NoLostExit'
    BY <1>1, <1>3 DEF IInv, TypeOK, NoLostExit, table, ForkScan
  <2>4. (ForkHasSlot /\ ForksAreDisjoint)'
    BY <1>1, <1>3 DEF IInv, TypeOK, ForkHasSlot, ForksAreDisjoint, ForkPcs, table, ForkScan
  <2>5. (NoLostCompletion /\ IoDoneBeforeReturn)'
    BY <1>1, <1>3 DEF IInv, TypeOK, NoLostCompletion, IoDoneBeforeReturn, table, ForkScan
  <2>6. (~ExitBlocks => NoPanic)'
    BY DEF IInv, NoPanic, ForkScan
  <2>7. QED BY <2>1, <2>2, <2>3, <2>4, <2>5, <2>6 DEF IInv
<1>4. QED BY <1>2, <1>3 DEF ForkScan, table

\* fork sets the slot up, or fails.
LEMMA ForkInitKeeps ==
  ASSUME NEW s \in Slots, IInv, ForkInit(s), ~panicked
  PROVE  IInv'
<1>1. np[s] \in Slots /\ np[s] # s /\ status[np[s]] = "ALLOCATED" /\ pc[np[s]] = "dead"
  BY SlotFacts DEF IInv, CurrentIsRunning, NoStackReuse, ForkHasSlot, ForksAreDisjoint, ForkPcs, ForkInit
<1>2. TypeOK'
  <2>1. pc' \in [Slots -> Pcs]
    BY <1>1 DEF IInv, TypeOK, Pcs, ForkPcs, ExitPcs, ForkInit
  <2>2. status' \in [Slots -> Statuses] /\ np' \in [Slots -> Slots \cup {None}]
    BY <1>1 DEF IInv, TypeOK, Statuses, ForkInit
  <2>3. QED BY <2>1, <2>2 DEF IInv, TypeOK, ForkInit
<1>3. (CurrentIsRunning /\ NoStackReuse /\ StatusAgrees /\ ExitsStayZombie)'
  BY <1>1, SlotFacts, ProcAssumption
  DEF IInv, TypeOK, CurrentIsRunning, NoStackReuse, StatusAgrees, SleepPcs,
      ExitsStayZombie, ExitPcs,
      ForkInit, table
<1>4. NoLostExit'
  BY <1>1, SlotFacts, ProcAssumption
  DEF IInv, TypeOK, CurrentIsRunning, StatusAgrees, NoLostExit,
      ForkInit, table
<1>5. (ForkHasSlot /\ ForksAreDisjoint)'
  BY <1>1, SlotFacts, ProcAssumption
  DEF IInv, TypeOK, CurrentIsRunning, NoStackReuse, ForkHasSlot, ForksAreDisjoint, ForkPcs,
      ForkInit, table
<1>6. (NoLostCompletion /\ IoDoneBeforeReturn)'
  BY <1>1, SlotFacts, ProcAssumption
  DEF IInv, TypeOK, CurrentIsRunning, NoStackReuse, StatusAgrees, SleepPcs,
      NoLostCompletion, IoDoneBeforeReturn,
      ForkInit, table
<1>7. (~ExitBlocks => NoPanic)'
  BY DEF IInv, NoPanic, ExitsStayZombie, ExitPcs, ForkInit, table
<1>8. QED BY <1>1, <1>2, <1>3, <1>4, <1>5, <1>6, <1>7 DEF IInv

\* fork records the parent.
LEMMA ForkLinkKeeps ==
  ASSUME NEW s \in Slots, IInv, ForkLink(s), ~panicked
  PROVE  IInv'
<1>1. np[s] \in Slots /\ np[s] # s /\ status[np[s]] = "ALLOCATED" /\ pc[np[s]] = "dead"
  BY SlotFacts DEF IInv, CurrentIsRunning, NoStackReuse, ForkHasSlot, ForksAreDisjoint, ForkPcs, ForkLink
<1>2. TypeOK'
  BY <1>1, SlotFacts, ProcAssumption
  DEF IInv, TypeOK, Pcs, ForkPcs, ExitPcs, Statuses,
      ForkLink, table
<1>3. (CurrentIsRunning /\ NoStackReuse /\ StatusAgrees /\ ExitsStayZombie)'
  BY <1>1, SlotFacts, ProcAssumption
  DEF IInv, TypeOK, CurrentIsRunning, NoStackReuse, StatusAgrees, SleepPcs,
      ExitsStayZombie, ExitPcs,
      ForkLink, table
<1>4. NoLostExit'
  BY <1>1, SlotFacts, ProcAssumption
  DEF IInv, TypeOK, CurrentIsRunning, StatusAgrees, NoLostExit,
      ForkLink, table
<1>5. (ForkHasSlot /\ ForksAreDisjoint)'
  BY <1>1, SlotFacts, ProcAssumption
  DEF IInv, TypeOK, CurrentIsRunning, NoStackReuse, ForkHasSlot, ForksAreDisjoint, ForkPcs,
      ForkLink, table
<1>6. (NoLostCompletion /\ IoDoneBeforeReturn)'
  BY <1>1, SlotFacts, ProcAssumption
  DEF IInv, TypeOK, CurrentIsRunning, NoStackReuse, StatusAgrees, SleepPcs,
      NoLostCompletion, IoDoneBeforeReturn,
      ForkLink, table
<1>7. (~ExitBlocks => NoPanic)'
  BY DEF IInv, NoPanic, ExitsStayZombie, ExitPcs, ForkLink, table
<1>8. QED BY <1>1, <1>2, <1>3, <1>4, <1>5, <1>6, <1>7 DEF IInv

\* fork makes the child READY.
LEMMA ForkReadyKeeps ==
  ASSUME NEW s \in Slots, IInv, ForkReady(s), ~panicked
  PROVE  IInv'
<1>1. np[s] \in Slots /\ np[s] # s /\ status[np[s]] = "ALLOCATED" /\ pc[np[s]] = "dead"
  BY SlotFacts DEF IInv, CurrentIsRunning, NoStackReuse, ForkHasSlot, ForksAreDisjoint, ForkPcs, ForkReady
<1>2. TypeOK'
  BY <1>1, SlotFacts, ProcAssumption
  DEF IInv, TypeOK, Pcs, ForkPcs, ExitPcs, Statuses,
      ForkReady, table
<1>3. (CurrentIsRunning /\ NoStackReuse /\ StatusAgrees /\ ExitsStayZombie)'
  BY <1>1, SlotFacts, ProcAssumption
  DEF IInv, TypeOK, CurrentIsRunning, NoStackReuse, StatusAgrees, SleepPcs,
      ExitsStayZombie, ExitPcs,
      ForkReady, table
<1>4. NoLostExit'
  BY <1>1, SlotFacts, ProcAssumption
  DEF IInv, TypeOK, CurrentIsRunning, StatusAgrees, NoLostExit,
      ForkReady, table
<1>5. (ForkHasSlot /\ ForksAreDisjoint)'
  BY <1>1, SlotFacts, ProcAssumption
  DEF IInv, TypeOK, CurrentIsRunning, NoStackReuse, ForkHasSlot, ForksAreDisjoint, ForkPcs,
      ForkReady, table
<1>6. (NoLostCompletion /\ IoDoneBeforeReturn)'
  BY <1>1, SlotFacts, ProcAssumption
  DEF IInv, TypeOK, CurrentIsRunning, NoStackReuse, StatusAgrees, SleepPcs,
      NoLostCompletion, IoDoneBeforeReturn,
      ForkReady, table
<1>7. (~ExitBlocks => NoPanic)'
  BY DEF IInv, NoPanic, ExitsStayZombie, ExitPcs, ForkReady, table
<1>8. QED BY <1>1, <1>2, <1>3, <1>4, <1>5, <1>6, <1>7 DEF IInv

\* wait frees a zombie child.
LEMMA ReapKeeps ==
  ASSUME NEW s \in Slots, NEW t \in Slots, IInv, Reap(s, t), ~panicked
  PROVE  IInv'
<1>1. TypeOK'
  BY SlotFacts, ProcAssumption
  DEF IInv, TypeOK, Pcs, ForkPcs, ExitPcs, Statuses,
      Reap, Zombies, Kids, table
<1>2. (CurrentIsRunning /\ NoStackReuse /\ StatusAgrees /\ ExitsStayZombie)'
  BY SlotFacts, ProcAssumption
  DEF IInv, TypeOK, CurrentIsRunning, NoStackReuse, StatusAgrees, SleepPcs,
      ExitsStayZombie, ExitPcs,
      Reap, Zombies, Kids, table
<1>3. NoLostExit'
  BY SlotFacts, ProcAssumption
  DEF IInv, TypeOK, CurrentIsRunning, StatusAgrees, NoLostExit,
      Reap, Zombies, Kids, table
<1>4. (ForkHasSlot /\ ForksAreDisjoint)'
  BY SlotFacts, ProcAssumption
  DEF IInv, TypeOK, CurrentIsRunning, NoStackReuse, ForkHasSlot, ForksAreDisjoint, ForkPcs,
      Reap, Zombies, Kids, table
<1>5. (NoLostCompletion /\ IoDoneBeforeReturn)'
  BY SlotFacts, ProcAssumption
  DEF IInv, TypeOK, CurrentIsRunning, NoStackReuse, StatusAgrees, SleepPcs,
      NoLostCompletion, IoDoneBeforeReturn,
      Reap, Zombies, Kids, table
<1>6. (~ExitBlocks => NoPanic)'
  BY DEF IInv, NoPanic, ExitsStayZombie, ExitPcs, Reap, Zombies, Kids, table
<1>7. QED BY <1>1, <1>2, <1>3, <1>4, <1>5, <1>6 DEF IInv

\* wait returns -1.
LEMMA WaitFailsKeeps ==
  ASSUME NEW s \in Slots, IInv, WaitFails(s), ~panicked
  PROVE  IInv'
<1>1. TypeOK'
  BY SlotFacts, ProcAssumption
  DEF IInv, TypeOK, Pcs, ForkPcs, ExitPcs, Statuses,
      WaitFails, table
<1>2. (CurrentIsRunning /\ NoStackReuse /\ StatusAgrees /\ ExitsStayZombie)'
  BY SlotFacts, ProcAssumption
  DEF IInv, TypeOK, CurrentIsRunning, NoStackReuse, StatusAgrees, SleepPcs,
      ExitsStayZombie, ExitPcs,
      WaitFails, table
<1>3. NoLostExit'
  BY SlotFacts, ProcAssumption
  DEF IInv, TypeOK, CurrentIsRunning, StatusAgrees, NoLostExit,
      WaitFails, table
<1>4. (ForkHasSlot /\ ForksAreDisjoint)'
  BY SlotFacts, ProcAssumption
  DEF IInv, TypeOK, CurrentIsRunning, NoStackReuse, ForkHasSlot, ForksAreDisjoint, ForkPcs,
      WaitFails, table
<1>5. (NoLostCompletion /\ IoDoneBeforeReturn)'
  BY SlotFacts, ProcAssumption
  DEF IInv, TypeOK, CurrentIsRunning, NoStackReuse, StatusAgrees, SleepPcs,
      NoLostCompletion, IoDoneBeforeReturn,
      WaitFails, table
<1>6. (~ExitBlocks => NoPanic)'
  BY DEF IInv, NoPanic, ExitsStayZombie, ExitPcs, WaitFails, table
<1>7. QED BY <1>1, <1>2, <1>3, <1>4, <1>5, <1>6 DEF IInv

\* wait goes to sleep: there is no zombie child, and none can appear before the
\* sleep is complete.
LEMMA WaitSleepKeeps ==
  ASSUME NEW s \in Slots, IInv, WaitSleep(s), ~panicked
  PROVE  IInv'
<1>1. TypeOK'
  BY SlotFacts, ProcAssumption
  DEF IInv, TypeOK, Pcs, ForkPcs, ExitPcs, Statuses,
      WaitSleep, Sleeps, Zombies, Kids, table
<1>2. (CurrentIsRunning /\ NoStackReuse /\ StatusAgrees /\ ExitsStayZombie)'
  BY SlotFacts, ProcAssumption
  DEF IInv, TypeOK, CurrentIsRunning, NoStackReuse, StatusAgrees, SleepPcs,
      ExitsStayZombie, ExitPcs,
      WaitSleep, Sleeps, Zombies, Kids, table
<1>3. NoLostExit'
  BY SlotFacts, ProcAssumption
  DEF IInv, TypeOK, CurrentIsRunning, StatusAgrees, NoLostExit,
      WaitSleep, Sleeps, Zombies, Kids, table
<1>4. (ForkHasSlot /\ ForksAreDisjoint)'
  BY SlotFacts, ProcAssumption
  DEF IInv, TypeOK, CurrentIsRunning, NoStackReuse, ForkHasSlot, ForksAreDisjoint, ForkPcs,
      WaitSleep, Sleeps, Zombies, Kids, table
<1>5. (NoLostCompletion /\ IoDoneBeforeReturn)'
  BY SlotFacts, ProcAssumption
  DEF IInv, TypeOK, CurrentIsRunning, NoStackReuse, StatusAgrees, SleepPcs,
      NoLostCompletion, IoDoneBeforeReturn,
      WaitSleep, Sleeps, Zombies, Kids, table
<1>6. (~ExitBlocks => NoPanic)'
  BY DEF IInv, NoPanic, ExitsStayZombie, ExitPcs, WaitSleep, Sleeps, Zombies, Kids, table
<1>7. QED BY <1>1, <1>2, <1>3, <1>4, <1>5, <1>6 DEF IInv

\* A process wakes up in the disk driver.
LEMMA IoResumeKeeps ==
  ASSUME NEW s \in Slots, IInv, IoResume(s), ~panicked
  PROVE  IInv'
<1>1. TypeOK'
  BY SlotFacts, ProcAssumption
  DEF IInv, TypeOK, Pcs, ForkPcs, ExitPcs, Statuses,
      IoResume, IoLoop, Sleeps, table
<1>2. (CurrentIsRunning /\ NoStackReuse /\ StatusAgrees /\ ExitsStayZombie)'
  BY SlotFacts, ProcAssumption
  DEF IInv, TypeOK, CurrentIsRunning, NoStackReuse, StatusAgrees, SleepPcs,
      ExitsStayZombie, ExitPcs,
      IoResume, IoLoop, Sleeps, table
<1>3. NoLostExit'
  BY SlotFacts, ProcAssumption
  DEF IInv, TypeOK, CurrentIsRunning, StatusAgrees, NoLostExit,
      IoResume, IoLoop, Sleeps, table
<1>4. (ForkHasSlot /\ ForksAreDisjoint)'
  BY SlotFacts, ProcAssumption
  DEF IInv, TypeOK, CurrentIsRunning, NoStackReuse, ForkHasSlot, ForksAreDisjoint, ForkPcs,
      IoResume, IoLoop, Sleeps, table
<1>5. (NoLostCompletion /\ IoDoneBeforeReturn)'
  BY SlotFacts, ProcAssumption
  DEF IInv, TypeOK, CurrentIsRunning, NoStackReuse, StatusAgrees, SleepPcs,
      NoLostCompletion, IoDoneBeforeReturn,
      IoResume, IoLoop, Sleeps, table
<1>6. (~ExitBlocks => NoPanic)'
  BY DEF IInv, NoPanic, ExitsStayZombie, ExitPcs, IoResume, IoLoop, Sleeps, table
<1>7. QED BY <1>1, <1>2, <1>3, <1>4, <1>5, <1>6 DEF IInv

\* usertrap_finish.
LEMMA RetKeeps ==
  ASSUME NEW s \in Slots, IInv, Ret(s), ~panicked
  PROVE  IInv'
<1>1. TypeOK'
  BY SlotFacts, ProcAssumption
  DEF IInv, TypeOK, Pcs, ForkPcs, ExitPcs, Statuses,
      Ret, ExitBegin, table
<1>2. (CurrentIsRunning /\ NoStackReuse /\ StatusAgrees /\ ExitsStayZombie)'
  BY SlotFacts, ProcAssumption
  DEF IInv, TypeOK, CurrentIsRunning, NoStackReuse, StatusAgrees, SleepPcs,
      ExitsStayZombie, ExitPcs,
      Ret, ExitBegin, table
<1>3. NoLostExit'
  BY SlotFacts, ProcAssumption
  DEF IInv, TypeOK, CurrentIsRunning, StatusAgrees, NoLostExit,
      Ret, ExitBegin, table
<1>4. (ForkHasSlot /\ ForksAreDisjoint)'
  BY SlotFacts, ProcAssumption
  DEF IInv, TypeOK, CurrentIsRunning, NoStackReuse, ForkHasSlot, ForksAreDisjoint, ForkPcs,
      Ret, ExitBegin, table
<1>5. (NoLostCompletion /\ IoDoneBeforeReturn)'
  BY SlotFacts, ProcAssumption
  DEF IInv, TypeOK, CurrentIsRunning, NoStackReuse, StatusAgrees, SleepPcs,
      NoLostCompletion, IoDoneBeforeReturn,
      Ret, ExitBegin, table
<1>6. (~ExitBlocks => NoPanic)'
  BY DEF IInv, NoPanic, ExitsStayZombie, ExitPcs, Ret, ExitBegin, table
<1>7. QED BY <1>1, <1>2, <1>3, <1>4, <1>5, <1>6 DEF IInv

\* exit closes the files, and may sleep doing so.
LEMMA ExitCloseKeeps ==
  ASSUME NEW s \in Slots, IInv, ExitClose(s), ~panicked
  PROVE  IInv'
<1>1. TypeOK'
  <2>1. io' \in [Slots -> BOOLEAN]
    BY DEF IInv, TypeOK, ExitClose
  <2>2. /\ status' \in [Slots -> Statuses]
        /\ chan' \in [Slots -> Chans]
        /\ pc' \in [Slots -> Pcs]
        /\ cpu' \in Slots \cup {None}
    BY SlotFacts DEF IInv, TypeOK, Pcs, ExitPcs, Statuses, ExitClose, Sleeps
  <2>3. QED BY <2>1, <2>2 DEF IInv, TypeOK, ExitClose
<1>2. (CurrentIsRunning /\ NoStackReuse /\ StatusAgrees /\ ExitsStayZombie)'
  BY SlotFacts, ProcAssumption
  DEF IInv, TypeOK, CurrentIsRunning, NoStackReuse, StatusAgrees, SleepPcs,
      ExitsStayZombie, ExitPcs,
      ExitClose, Sleeps, table
<1>3. NoLostExit'
  BY SlotFacts, ProcAssumption
  DEF IInv, TypeOK, CurrentIsRunning, StatusAgrees, NoLostExit,
      ExitClose, Sleeps, table
<1>4. (ForkHasSlot /\ ForksAreDisjoint)'
  BY SlotFacts, ProcAssumption
  DEF IInv, TypeOK, CurrentIsRunning, NoStackReuse, ForkHasSlot, ForksAreDisjoint, ForkPcs,
      ExitClose, Sleeps, table
<1>5. (NoLostCompletion /\ IoDoneBeforeReturn)'
  BY SlotFacts, ProcAssumption
  DEF IInv, TypeOK, CurrentIsRunning, NoStackReuse, StatusAgrees, SleepPcs,
      NoLostCompletion, IoDoneBeforeReturn,
      ExitClose, Sleeps, table
<1>6. (~ExitBlocks => NoPanic)'
  BY DEF IInv, NoPanic, ExitsStayZombie, ExitPcs, ExitClose, Sleeps, table
<1>7. QED BY <1>1, <1>2, <1>3, <1>4, <1>5, <1>6 DEF IInv

\* An exiting process wakes up in the disk driver.
LEMMA ExitIoKeeps ==
  ASSUME NEW s \in Slots, IInv, ExitIo(s), ~panicked
  PROVE  IInv'
<1>1. TypeOK'
  BY SlotFacts, ProcAssumption
  DEF IInv, TypeOK, Pcs, ForkPcs, ExitPcs, Statuses,
      ExitIo, IoLoop, Sleeps, table
<1>2. (CurrentIsRunning /\ NoStackReuse /\ StatusAgrees /\ ExitsStayZombie)'
  BY SlotFacts, ProcAssumption
  DEF IInv, TypeOK, CurrentIsRunning, NoStackReuse, StatusAgrees, SleepPcs,
      ExitsStayZombie, ExitPcs,
      ExitIo, IoLoop, Sleeps, table
<1>3. NoLostExit'
  BY SlotFacts, ProcAssumption
  DEF IInv, TypeOK, CurrentIsRunning, StatusAgrees, NoLostExit,
      ExitIo, IoLoop, Sleeps, table
<1>4. (ForkHasSlot /\ ForksAreDisjoint)'
  BY SlotFacts, ProcAssumption
  DEF IInv, TypeOK, CurrentIsRunning, NoStackReuse, ForkHasSlot, ForksAreDisjoint, ForkPcs,
      ExitIo, IoLoop, Sleeps, table
<1>5. (NoLostCompletion /\ IoDoneBeforeReturn)'
  BY SlotFacts, ProcAssumption
  DEF IInv, TypeOK, CurrentIsRunning, NoStackReuse, StatusAgrees, SleepPcs,
      NoLostCompletion, IoDoneBeforeReturn,
      ExitIo, IoLoop, Sleeps, table
<1>6. (~ExitBlocks => NoPanic)'
  BY DEF IInv, NoPanic, ExitsStayZombie, ExitPcs, ExitIo, IoLoop, Sleeps, table
<1>7. QED BY <1>1, <1>2, <1>3, <1>4, <1>5, <1>6 DEF IInv

\* exit wakes the parent.
LEMMA ExitWakeKeeps ==
  ASSUME NEW s \in Slots, IInv, ExitWake(s), ~panicked
  PROVE  IInv'
<1>1. TypeOK'
  BY SlotFacts, ProcAssumption
  DEF IInv, TypeOK, Pcs, ForkPcs, ExitPcs, Statuses,
      ExitWake, Woken, table
<1>2. (CurrentIsRunning /\ NoStackReuse /\ StatusAgrees /\ ExitsStayZombie)'
  BY SlotFacts, ProcAssumption
  DEF IInv, TypeOK, CurrentIsRunning, NoStackReuse, StatusAgrees, SleepPcs,
      ExitsStayZombie, ExitPcs,
      ExitWake, Woken, table
<1>3. NoLostExit'
  BY SlotFacts, ProcAssumption
  DEF IInv, TypeOK, CurrentIsRunning, StatusAgrees, NoLostExit,
      ExitWake, Woken, table
<1>4. (ForkHasSlot /\ ForksAreDisjoint)'
  BY SlotFacts, ProcAssumption
  DEF IInv, TypeOK, CurrentIsRunning, NoStackReuse, ForkHasSlot, ForksAreDisjoint, ForkPcs,
      ExitWake, Woken, table
<1>5. (NoLostCompletion /\ IoDoneBeforeReturn)'
  BY SlotFacts, ProcAssumption
  DEF IInv, TypeOK, CurrentIsRunning, NoStackReuse, StatusAgrees, SleepPcs,
      NoLostCompletion, IoDoneBeforeReturn,
      ExitWake, Woken, table
<1>6. (~ExitBlocks => NoPanic)'
  BY DEF IInv, NoPanic, ExitsStayZombie, ExitPcs, ExitWake, Woken, table
<1>7. QED BY <1>1, <1>2, <1>3, <1>4, <1>5, <1>6 DEF IInv

\* exit leaves the CPU for ever, or trips over the assertion of sched().
LEMMA ExitSchedKeeps ==
  ASSUME NEW s \in Slots, IInv, ExitSched(s), ~panicked
  PROVE  IInv'
<1>1. TypeOK'
  <2>1. pc' \in [Slots -> Pcs] /\ cpu' \in Slots \cup {None}
    BY DEF IInv, TypeOK, Pcs, ForkPcs, ExitPcs, ExitSched
  <2>2. panicked' \in BOOLEAN
    BY DEF IInv, TypeOK, ExitSched
  <2>3. QED BY <2>1, <2>2 DEF IInv, TypeOK, ExitSched, table
<1>2. (CurrentIsRunning /\ NoStackReuse /\ StatusAgrees /\ ExitsStayZombie)'
  BY SlotFacts, ProcAssumption
  DEF IInv, TypeOK, CurrentIsRunning, NoStackReuse, StatusAgrees, SleepPcs,
      ExitsStayZombie, ExitPcs,
      ExitSched, table
<1>3. NoLostExit'
  BY SlotFacts, ProcAssumption
  DEF IInv, TypeOK, CurrentIsRunning, StatusAgrees, NoLostExit,
      ExitSched, table
<1>4. (ForkHasSlot /\ ForksAreDisjoint)'
  BY SlotFacts, ProcAssumption
  DEF IInv, TypeOK, CurrentIsRunning, NoStackReuse, ForkHasSlot, ForksAreDisjoint, ForkPcs,
      ExitSched, table
<1>5. (NoLostCompletion /\ IoDoneBeforeReturn)'
  BY SlotFacts, ProcAssumption
  DEF IInv, TypeOK, CurrentIsRunning, NoStackReuse, StatusAgrees, SleepPcs,
      NoLostCompletion, IoDoneBeforeReturn,
      ExitSched, table
<1>6. (~ExitBlocks => NoPanic)'
  BY DEF IInv, NoPanic, ExitsStayZombie, ExitPcs, ExitSched, table
<1>7. QED BY <1>1, <1>2, <1>3, <1>4, <1>5, <1>6 DEF IInv

\* The disk completes a request.
LEMMA DiskIntrKeeps ==
  ASSUME NEW s \in Slots, IInv, DiskIntr(s), ~panicked
  PROVE  IInv'
<1>1. TypeOK'
  BY SlotFacts, ProcAssumption
  DEF IInv, TypeOK, Pcs, ForkPcs, ExitPcs, Statuses,
      DiskIntr, IrqReturn, Woken, table
<1>2. (CurrentIsRunning /\ NoStackReuse /\ StatusAgrees /\ ExitsStayZombie)'
  BY SlotFacts, ProcAssumption
  DEF IInv, TypeOK, CurrentIsRunning, NoStackReuse, StatusAgrees, SleepPcs,
      ExitsStayZombie, ExitPcs,
      DiskIntr, IrqReturn, Woken, table
<1>3. NoLostExit'
  BY SlotFacts, ProcAssumption
  DEF IInv, TypeOK, CurrentIsRunning, StatusAgrees, NoLostExit,
      DiskIntr, IrqReturn, Woken, table
<1>4. (ForkHasSlot /\ ForksAreDisjoint)'
  BY SlotFacts, ProcAssumption
  DEF IInv, TypeOK, CurrentIsRunning, NoStackReuse, ForkHasSlot, ForksAreDisjoint, ForkPcs,
      DiskIntr, IrqReturn, Woken, table
<1>5. (NoLostCompletion /\ IoDoneBeforeReturn)'
  BY SlotFacts, ProcAssumption
  DEF IInv, TypeOK, CurrentIsRunning, NoStackReuse, StatusAgrees, SleepPcs,
      NoLostCompletion, IoDoneBeforeReturn,
      DiskIntr, IrqReturn, Woken, table
<1>6. (~ExitBlocks => NoPanic)'
  BY DEF IInv, NoPanic, ExitsStayZombie, ExitPcs, DiskIntr, IrqReturn, Woken, table
<1>7. QED BY <1>1, <1>2, <1>3, <1>4, <1>5, <1>6 DEF IInv

\* Ctrl-C.
LEMMA CtrlCKeeps ==
  ASSUME IInv, CtrlC, ~panicked
  PROVE  IInv'
<1>1. TypeOK'
  BY SlotFacts, ProcAssumption
  DEF IInv, TypeOK, Pcs, ForkPcs, ExitPcs, Statuses,
      CtrlC, IrqReturn, Victims, table
<1>2. (CurrentIsRunning /\ NoStackReuse /\ StatusAgrees /\ ExitsStayZombie)'
  BY SlotFacts, ProcAssumption
  DEF IInv, TypeOK, CurrentIsRunning, NoStackReuse, StatusAgrees, SleepPcs,
      ExitsStayZombie, ExitPcs,
      CtrlC, IrqReturn, Victims, table
<1>3. NoLostExit'
  BY SlotFacts, ProcAssumption
  DEF IInv, TypeOK, CurrentIsRunning, StatusAgrees, NoLostExit,
      CtrlC, IrqReturn, Victims, table
<1>4. (ForkHasSlot /\ ForksAreDisjoint)'
  BY SlotFacts, ProcAssumption
  DEF IInv, TypeOK, CurrentIsRunning, NoStackReuse, ForkHasSlot, ForksAreDisjoint, ForkPcs,
      CtrlC, IrqReturn, Victims, table
<1>5. (NoLostCompletion /\ IoDoneBeforeReturn)'
  BY SlotFacts, ProcAssumption
  DEF IInv, TypeOK, CurrentIsRunning, NoStackReuse, StatusAgrees, SleepPcs,
      NoLostCompletion, IoDoneBeforeReturn,
      CtrlC, IrqReturn, Victims, table
<1>6. (~ExitBlocks => NoPanic)'
  BY DEF IInv, NoPanic, ExitsStayZombie, ExitPcs, CtrlC, IrqReturn, Victims, table
<1>7. QED BY <1>1, <1>2, <1>3, <1>4, <1>5, <1>6 DEF IInv

-----------------------------------------------------------------------------
\* IInv holds at boot, when userinit has made the shell READY in slot 0.
LEMMA InitIInv == Init => IInv
<1> SUFFICES ASSUME Init PROVE IInv
  OBVIOUS
<1>1. 0 \in Slots
  BY ProcAssumption DEF Slots
<1>2. TypeOK
  <2>1. /\ killed \in [Slots -> BOOLEAN]
        /\ io \in [Slots -> BOOLEAN]
        /\ panicked \in BOOLEAN
    BY DEF Init
  <2>2. /\ status \in [Slots -> Statuses]
        /\ pc \in [Slots -> Pcs]
    BY DEF Init, Statuses, Pcs
  <2>3. /\ pid \in [Slots -> Nat]
        /\ at \in [Slots -> 0 .. NPROC]
        /\ nextpid \in Nat
        /\ forks \in 0 .. MaxForks
        /\ forker \in [Slots -> Nat]
    BY ProcAssumption DEF Init
  <2>4. /\ parent \in [Slots -> Slots \cup {None}]
        /\ chan \in [Slots -> Chans]
        /\ np \in [Slots -> Slots \cup {None}]
        /\ cpu \in Slots \cup {None}
        /\ scan \in Slots
    BY <1>1, SlotFacts DEF Init
  <2>5. QED BY <2>1, <2>2, <2>3, <2>4 DEF TypeOK
<1>3. CurrentIsRunning /\ NoStackReuse /\ StatusAgrees /\ NoLostExit
  BY <1>1, SlotFacts DEF Init, CurrentIsRunning, NoStackReuse, StatusAgrees, NoLostExit
<1>4. ForkHasSlot /\ ForksAreDisjoint
  BY DEF Init, ForkHasSlot, ForksAreDisjoint, ForkPcs
<1>5. NoLostCompletion /\ IoDoneBeforeReturn /\ ExitsStayZombie /\ NoPanic
  BY DEF Init, NoLostCompletion, IoDoneBeforeReturn, ExitsStayZombie, ExitPcs, NoPanic
<1>6. QED BY <1>2, <1>3, <1>4, <1>5 DEF IInv

\* Every step of the kernel, of an interrupt or of the scheduler keeps IInv.
LEMMA NextIInv == IInv /\ [Next]_vars => IInv'
<1> SUFFICES ASSUME IInv, [Next]_vars PROVE IInv'
  OBVIOUS
<1>1. CASE Scheduler
  BY <1>1, DispatchKeeps, SchedSkipKeeps DEF Scheduler
<1>2. CASE ~panicked /\ CtrlC
  BY <1>2, CtrlCKeeps
<1>3. ASSUME NEW s \in Slots, ~panicked, User(s) PROVE IInv'
  BY <1>3, UserForkKeeps, UserWaitKeeps, UserIoKeeps, UserExitKeeps DEF User
<1>4. ASSUME NEW s \in Slots, ~panicked, Kernel(s) PROVE IInv'
  BY <1>4, ForkScanKeeps, ForkInitKeeps, ForkLinkKeeps, ForkReadyKeeps, ReapKeeps,
     WaitFailsKeeps, WaitSleepKeeps, IoResumeKeeps, RetKeeps, ExitCloseKeeps,
     ExitIoKeeps, ExitWakeKeeps, ExitSchedKeeps
  DEF Kernel
<1>5. ASSUME NEW s \in Slots, ~panicked, Preempt(s) \/ DiskIntr(s) PROVE IInv'
  BY <1>5, PreemptKeeps, DiskIntrKeeps
<1>6. CASE UNCHANGED vars
  BY <1>6
  DEF vars, table, IInv, TypeOK, CurrentIsRunning, NoStackReuse, StatusAgrees, NoLostExit,
      ForkHasSlot, ForksAreDisjoint, NoLostCompletion, IoDoneBeforeReturn,
      ExitsStayZombie, NoPanic
<1>7. QED BY <1>1, <1>2, <1>3, <1>4, <1>5, <1>6 DEF Next

\* The inductive invariant holds in every reachable state.
THEOREM ProcInvariant == Spec => []IInv
  BY InitIInv, NextIInv, PTL DEF Spec

\* Types, for every table size.
THEOREM ProcTypes == Spec => []TypeOK
  BY ProcInvariant, PTL DEF IInv

\* status and mycpu()->proc agree in every reachable state.
THEOREM ProcCurrent == Spec => []CurrentIsRunning
  BY ProcInvariant, PTL DEF IInv

\* wait never frees the kernel stack under a child that still executes on it.
THEOREM ProcStacks == Spec => []NoStackReuse
  BY ProcInvariant, PTL DEF IInv

\* exit and wait lose no wakeup.
THEOREM ProcWakeup == Spec => []NoLostExit
  BY ProcInvariant, PTL DEF IInv

\* Concurrent forks own different slots.
THEOREM ProcForks == Spec => []ForksAreDisjoint
  BY ProcInvariant, PTL DEF IInv

\* No process leaves the disk driver before its request is complete.
THEOREM ProcIo == Spec => []IoDoneBeforeReturn
  BY ProcInvariant, PTL DEF IInv

\* A process asleep in the disk driver still has a request with the device.
THEOREM ProcCompletion == Spec => []NoLostCompletion
  BY ProcInvariant, PTL DEF IInv

\* The assertion of sched() cannot fail as long as exit does no disk I/O.
THEOREM ProcNoPanic == ASSUME ~ExitBlocks PROVE Spec => []NoPanic
<1>1. IInv => NoPanic
  BY DEF IInv
<1>2. QED BY <1>1, ProcInvariant, PTL

=============================================================================
