----------------------------- MODULE TrapProofs -----------------------------
(***************************************************************************)
(* Proofs about module Trap, for every number of processes and every depth *)
(* of nested interrupts.                                                   *)
(*                                                                         *)
(* The key is that the point a context has reached determines the locks it *)
(* holds and what the registers must be, that a context which does not run *)
(* stands right after swtch, and that an activation which was interrupted  *)
(* stands at a point where interrupts may be on, so that the code which    *)
(* runs never depends on registers another context has used.               *)
(***************************************************************************)
EXTENDS Trap, FiniteSetTheorems, SequenceTheorems, TLAPS

\* The points of the scheduler, of processes, of handlers, and of yield.
SchedAts == {"loop", "scan", "switch", "back"}
ProcAts == {"forkret", "yield", "sched", "resumed", "sys", "locked", "swap", "relock",
            "finish", "vector", "csrs", "userret"}
HandlerAts == {"handler", "restore", "status", "sret"}
YieldAts == {"yield", "sched", "resumed"}

\* Points at which interrupts may be on, and so points an interrupt handler returns to.
OpenAts == {"loop", "scan", "yield", "sys", "relock", "finish", "restore", "status"}

\* Points at which p->lock, and nothing else, is held.
PlockAts == {"switch", "back", "sched", "resumed", "forkret"}

\* Records of activations.
Activations == [at : Ats, ret : {"sys", "relock", "finish", "restore"}, epc : Places, sst : Sstatus]

\* The types, and that tepc always is the user code.
RegTypes ==
  /\ mode \in {"user", "kernel"} /\ stvec \in {"user", "kernel"}
  /\ sstatus \in Sstatus /\ sepc \in Places
  /\ intena \in BOOLEAN
  /\ cur \in Contexts /\ idx \in Procs
  /\ tepc = [p \in Procs |-> UserCode(p)]
  /\ status \in [Procs -> {"ready", "running", "sleeping"}]
  /\ stack \in [Contexts -> Seq(Activations)]
  /\ \A c \in Contexts : Len(stack[c]) \in 1 .. MaxDepth

\* What an activation may be: the scheduler's or a process's own code at the bottom, and
\* handlers above it, where only those of a process yield.
LevelOK(c, d, a) ==
  \/ d = 1 /\ c = 0 /\ a.at \in SchedAts
  \/ d = 1 /\ c # 0 /\ a.at \in ProcAts /\ a.ret \in {"sys", "relock", "finish"}
  \/ /\ d > 1 /\ a.ret = "restore" /\ a.sst = KernelTrap
     /\ a.at \in HandlerAts \/ (c # 0 /\ a.at \in YieldAts)

\* All activations are such.
LevelsOK == \A c \in Contexts : \A d \in 1 .. Len(stack[c]) : LevelOK(c, d, stack[c][d])

\* An activation below another one was interrupted, and the handler above it knows where.
BelowOK ==
  \A c \in Contexts : \A d \in 1 .. Len(stack[c]) - 1 :
    /\ stack[c][d].at \in OpenAts /\ (Quiet => stack[c][d].at # "status")
    /\ stack[c][d + 1].epc = [c |-> c, d |-> d, at |-> stack[c][d].at]

\* A context that does not run stands right after swtch.
AwayOK ==
  /\ cur # 0 => idx = cur /\ Len(stack[0]) = 1 /\ stack[0][1].at = "back"
  /\ \A p \in Procs : p # cur => stack[p][Len(stack[p])].at \in {"resumed", "forkret"}

\* The locks held at a point.
HeldAt(at) ==
  /\ at \in PlockAts => plock = {idx} /\ klock = 0 /\ noff = 1
  /\ at = "locked" => plock = {} /\ klock = cur /\ noff = 1
  /\ at = "swap" => plock = {cur} /\ klock = cur /\ noff = 2
  /\ at \notin PlockAts \cup {"locked", "swap"} => plock = {} /\ klock = 0 /\ noff = 0

\* The registers at a point of activation a.
RegsAt(a) ==
  /\ a.at \notin OpenAts => ~sstatus.sie
  /\ stvec = IF a.at \in {"csrs", "userret"} THEN "user" ELSE "kernel"
  /\ a.at = "userret" => sepc = UserCode(cur) /\ sstatus.spp = "user" /\ sstatus.spie
  /\ a.at = "sret" => sstatus = KernelTrap
  /\ Quiet /\ a.at \in {"status", "sret"} => sepc = a.epc

\* In user mode the kernel's code of the process stands at userret.
UserOK == cur # 0 /\ Top.at = "userret" /\ stvec = "user" /\ sstatus.sie

\* The inductive invariant.
TrapInv ==
  /\ RegTypes /\ LevelsOK /\ BelowOK /\ AwayOK
  /\ HeldAt(Top.at)
  /\ mode = "kernel" => RegsAt(Top)
  /\ mode = "user" => UserOK

-----------------------------------------------------------------------------
(* Moving on within an activation. *)

\* The running activation has reached s, with ret = r; nothing else has moved.
Moved(s, r) ==
  /\ stack' \in [Contexts -> Seq(Activations)]
  /\ \A c \in Contexts : Len(stack'[c]) = Len(stack[c])
  /\ \A c \in Contexts : \A d \in 1 .. Len(stack[c]) :
       (c # cur \/ d # Depth) => stack'[c][d] = stack[c][d]
  /\ stack'[cur][Depth] = [at |-> s, ret |-> r, epc |-> Top.epc, sst |-> Top.sst]

\* The running activation exists and is one of its level.
LEMMA TopIs ==
  ASSUME RegTypes, LevelsOK
  PROVE  /\ cur \in Contexts /\ Depth \in 1 .. MaxDepth /\ Depth \in Nat
         /\ Top \in Activations /\ LevelOK(cur, Depth, Top)
         /\ Top = [at |-> Top.at, ret |-> Top.ret, epc |-> Top.epc, sst |-> Top.sst]
  <1>1. cur \in Contexts /\ Depth \in 1 .. MaxDepth /\ stack[cur] \in Seq(Activations)
    BY DEF RegTypes, Depth
  <1>2. Depth \in Nat /\ Depth \in 1 .. Len(stack[cur])
    BY <1>1, TrapAssumption DEF Depth
  <1>3. Top \in Activations
    BY <1>1, <1>2 DEF Top, Depth
  <1>4. LevelOK(cur, Depth, Top)
    BY <1>1, <1>2 DEF LevelsOK, Top
  <1>5. Top = [at |-> Top.at, ret |-> Top.ret, epc |-> Top.epc, sst |-> Top.sst]
    BY <1>3 DEF Activations
  <1> QED
    BY <1>1, <1>2, <1>3, <1>4, <1>5

\* What Goto and GotoWith do to the stacks.
LEMMA MoveIs ==
  ASSUME RegTypes, LevelsOK, NEW s \in Ats, NEW r \in {"sys", "relock", "finish", "restore"},
         \/ Goto(s) /\ r = Top.ret
         \/ GotoWith(s, r)
  PROVE  Moved(s, r)
  <1> DEFINE new == [at |-> s, ret |-> r, epc |-> Top.epc, sst |-> Top.sst]
  <1>1. /\ cur \in Contexts /\ Depth \in Nat /\ Depth \in 1 .. Len(stack[cur])
        /\ Top \in Activations
        /\ Top = [at |-> Top.at, ret |-> Top.ret, epc |-> Top.epc, sst |-> Top.sst]
        /\ stack \in [Contexts -> Seq(Activations)] /\ stack[cur] \in Seq(Activations)
    BY TopIs DEF RegTypes, Depth
  <1>2. new \in Activations
    BY <1>1 DEF Activations
  <1>3. stack' = [stack EXCEPT ![cur] = [stack[cur] EXCEPT ![Depth] = new]]
    <2>1. CASE Goto(s) /\ r = Top.ret
      <3>1. [Top EXCEPT !.at = s] = new
        BY <2>1, <1>1
      <3> QED
        BY <2>1, <3>1 DEF Goto, Top
    <2>2. CASE GotoWith(s, r)
      <3> DEFINE mid == [at |-> s, ret |-> Top.ret, epc |-> Top.epc, sst |-> Top.sst]
      <3>0. [Top EXCEPT !.at = s] = mid
        BY <1>1
      <3>1. [mid EXCEPT !.ret = r] = new
        OBVIOUS
      <3>2. stack' = [[stack EXCEPT ![cur] = [stack[cur] EXCEPT ![Depth] = mid]]
                        EXCEPT ![cur][Depth].ret = r]
        BY <2>2, <3>0 DEF GotoWith, Top
      <3>3. DOMAIN stack[cur] = 1 .. Len(stack[cur]) /\ DOMAIN stack = Contexts
        BY <1>1
      <3> QED
        BY <3>1, <3>2, <3>3, <1>1
    <2> QED
      BY <2>1, <2>2
  <1> DEFINE up == [stack[cur] EXCEPT ![Depth] = new]
  <1>4. /\ up \in Seq(Activations) /\ Len(up) = Len(stack[cur]) /\ up[Depth] = new
        /\ \A d \in 1 .. Len(stack[cur]) : d # Depth => up[d] = stack[cur][d]
    BY <1>1, <1>2
  <1> HIDE DEF up, new
  <1>5. stack' = [stack EXCEPT ![cur] = up]
    BY <1>3 DEF up
  <1>6. stack' \in [Contexts -> Seq(Activations)] /\ stack'[cur] = up
        /\ \A c \in Contexts : c # cur => stack'[c] = stack[c]
    BY <1>1, <1>4, <1>5
  <1> QED
    BY <1>1, <1>4, <1>6 DEF Moved, new

\* A context that moves on to a point of its level keeps the other activations in order.
LEMMA MoveKeeps ==
  ASSUME RegTypes, LevelsOK, BelowOK, AwayOK, NEW s, NEW r, Moved(s, r),
         LevelOK(cur, Depth, [at |-> s, ret |-> r, epc |-> Top.epc, sst |-> Top.sst])
  PROVE  /\ LevelsOK' /\ BelowOK'
         /\ stack' \in [Contexts -> Seq(Activations)]
         /\ \A c \in Contexts : Len(stack'[c]) \in 1 .. MaxDepth
         /\ cur' = cur =>
              /\ Top' = [at |-> s, ret |-> r, epc |-> Top.epc, sst |-> Top.sst]
              /\ Depth' = Depth
              /\ (cur # 0 => idx' = idx) => AwayOK'
  <1>1. cur \in Contexts /\ Depth \in Nat /\ Depth \in 1 .. Len(stack[cur])
    BY TopIs DEF RegTypes, Depth
  <1>2. \A c \in Contexts : Len(stack[c]) \in Nat /\ Len(stack[c]) \in 1 .. MaxDepth
    BY DEF RegTypes
  <1>3. LevelsOK'
    <2>1. ASSUME NEW c \in Contexts, NEW d \in 1 .. Len(stack[c])
          PROVE  LevelOK(c, d, stack'[c][d])
      <3>1. CASE c = cur /\ d = Depth
        BY <3>1 DEF Moved
      <3>2. CASE c # cur \/ d # Depth
        BY <3>2 DEF Moved, LevelsOK
      <3> QED
        BY <3>1, <3>2
    <2> QED
      BY <2>1 DEF LevelsOK, Moved, LevelOK
  <1>4. BelowOK'
    <2>1. ASSUME NEW c \in Contexts, NEW d \in 1 .. Len(stack[c]) - 1
          PROVE  /\ stack'[c][d] = stack[c][d]
                 /\ stack'[c][d + 1].epc = stack[c][d + 1].epc
      <3>1. /\ d \in Int /\ d \in 1 .. Len(stack[c]) /\ d + 1 \in 1 .. Len(stack[c])
            /\ c = cur => d # Depth
        BY <1>1, <1>2 DEF Depth
      <3>2. stack'[c][d] = stack[c][d]
        BY <3>1 DEF Moved
      <3>3. CASE c = cur /\ d + 1 = Depth
        BY <3>2, <3>3 DEF Moved, Top
      <3>4. CASE c # cur \/ d + 1 # Depth
        BY <3>1, <3>2, <3>4 DEF Moved
      <3> QED
        BY <3>3, <3>4
    <2>2. ASSUME NEW c \in Contexts, NEW d \in 1 .. Len(stack[c]) - 1
          PROVE  /\ stack'[c][d].at \in OpenAts /\ (Quiet => stack'[c][d].at # "status")
                 /\ stack'[c][d + 1].epc = [c |-> c, d |-> d, at |-> stack'[c][d].at]
      BY <2>1 DEF BelowOK
    <2>3. \A c \in Contexts : Len(stack'[c]) = Len(stack[c])
      BY DEF Moved
    <2> QED
      BY <2>2, <2>3 DEF BelowOK
  <1>5. ASSUME cur' = cur
        PROVE  /\ Top' = [at |-> s, ret |-> r, epc |-> Top.epc, sst |-> Top.sst]
               /\ Depth' = Depth
               /\ (cur # 0 => idx' = idx) => AwayOK'
    <2>1. Depth' = Depth /\ Top' = stack'[cur][Depth]
      BY <1>1, <1>5 DEF Depth, Top, Moved
    <2>2. ASSUME cur # 0 => idx' = idx
          PROVE  AwayOK'
      <3>1. 0 \in Contexts /\ \A p \in Procs : p \in Contexts
        BY TrapAssumption DEF Contexts, Procs
      <3> QED
        BY <1>1, <1>2, <1>5, <2>2, <3>1 DEF AwayOK, Moved, Depth
    <2> QED
      BY <2>1, <2>2 DEF Moved
  <1> QED
    BY <1>2, <1>3, <1>4, <1>5 DEF Moved

\* The two lemmas together, for the steps in which the context goes on running.
LEMMA MoveOn ==
  ASSUME TrapInv, NEW s \in Ats, NEW r \in {"sys", "relock", "finish", "restore"},
         (Goto(s) /\ r = Top.ret) \/ GotoWith(s, r),
         LevelOK(cur, Depth, [at |-> s, ret |-> r, epc |-> Top.epc, sst |-> Top.sst]),
         cur' = cur, cur # 0 => idx' = idx
  PROVE  /\ LevelsOK' /\ BelowOK' /\ AwayOK'
         /\ stack' \in [Contexts -> Seq(Activations)]
         /\ \A c \in Contexts : Len(stack'[c]) \in 1 .. MaxDepth
         /\ Top' = [at |-> s, ret |-> r, epc |-> Top.epc, sst |-> Top.sst]
  <1>1. RegTypes /\ LevelsOK /\ BelowOK /\ AwayOK
    BY DEF TrapInv
  <1>2. Moved(s, r)
    BY <1>1, MoveIs
  <1> QED
    BY <1>1, <1>2, MoveKeeps

\* push_off and pop_off keep the types of the registers.
LEMMA OffTypes ==
  ASSUME RegTypes, PushOff \/ PopOff
  PROVE  intena' \in BOOLEAN /\ sstatus' \in Sstatus
  <1>1. sstatus \in Sstatus /\ sstatus.sie \in BOOLEAN /\ intena \in BOOLEAN
    BY DEF RegTypes, Sstatus
  <1>2. CASE PushOff
    <2>1. intena' \in BOOLEAN
      BY <1>1, <1>2 DEF PushOff
    <2>2. sstatus' \in Sstatus
      BY <1>1, <1>2 DEF PushOff, Sstatus
    <2> QED
      BY <2>1, <2>2
  <1>3. CASE PopOff
    <2>1. intena' \in BOOLEAN
      BY <1>1, <1>3 DEF PopOff
    <2>2. (sstatus.sie \/ (noff = 1 /\ intena)) \in BOOLEAN
      OBVIOUS
    <2>3. sstatus' \in Sstatus
      BY <1>1, <1>3, <2>2 DEF PopOff, Sstatus
    <2> QED
      BY <2>1, <2>3
  <1> QED
    BY <1>2, <1>3

\* What the invariant says of the code that stands at s.
LEMMA AtIs ==
  ASSUME TrapInv, NEW s, At(s)
  PROVE  /\ RegTypes /\ LevelsOK /\ BelowOK /\ AwayOK /\ HeldAt(s) /\ RegsAt(Top)
         /\ Top.at = s /\ mode = "kernel"
         /\ LevelOK(cur, Depth, Top) /\ Top \in Activations
         /\ Top.ret \in {"sys", "relock", "finish", "restore"}
         /\ cur \in Contexts /\ (cur # 0 => cur \in Procs)
  <1>1. RegTypes /\ LevelsOK /\ BelowOK /\ AwayOK /\ HeldAt(s) /\ RegsAt(Top) /\ Top.at = s
        /\ mode = "kernel"
    BY DEF TrapInv, At
  <1>2. LevelOK(cur, Depth, Top) /\ Top \in Activations /\ cur \in Contexts
    BY <1>1, TopIs
  <1>3. Top.ret \in {"sys", "relock", "finish", "restore"}
    BY <1>2 DEF Activations
  <1>4. cur # 0 => cur \in Procs
    BY <1>2, TrapAssumption DEF Contexts, Procs
  <1> QED
    BY <1>1, <1>2, <1>3, <1>4

-----------------------------------------------------------------------------
(* The scheduler. *)

\* The scheduler turns interrupts on at the head of its loop.
LEMMA LoopStep ==
  ASSUME TrapInv, Loop
  PROVE  TrapInv'
  <1>1. /\ RegTypes /\ HeldAt("loop") /\ RegsAt(Top) /\ Top.at = "loop" /\ mode = "kernel"
        /\ LevelOK(cur, Depth, Top)
    BY AtIs DEF Loop
  <1>3. cur = 0 /\ Depth = 1
    BY <1>1 DEF LevelOK, ProcAts, HandlerAts, YieldAts
  <1>4. Top.ret \in {"sys", "relock", "finish", "restore"}
    BY AtIs DEF Loop
  <1>5. LevelOK(cur, Depth, [at |-> "scan", ret |-> Top.ret, epc |-> Top.epc, sst |-> Top.sst])
    BY <1>3 DEF LevelOK, SchedAts
  <1>6. /\ LevelsOK' /\ BelowOK' /\ AwayOK'
        /\ stack' \in [Contexts -> Seq(Activations)]
        /\ \A c \in Contexts : Len(stack'[c]) \in 1 .. MaxDepth
        /\ Top' = [at |-> "scan", ret |-> Top.ret, epc |-> Top.epc, sst |-> Top.sst]
    BY <1>3, <1>4, <1>5, MoveOn DEF Loop, Ats
  <1>7. sstatus \in Sstatus /\ sstatus' \in Sstatus
    BY <1>1 DEF RegTypes, Sstatus, Loop
  <1>8. RegTypes'
    BY <1>1, <1>6, <1>7, TrapAssumption DEF RegTypes, Loop, Csrs, Offs, Procs, UserCode
  <1>9. HeldAt(Top.at)' /\ RegsAt(Top)' /\ mode' = "kernel"
    BY <1>1, <1>6 DEF HeldAt, RegsAt, PlockAts, OpenAts, Loop, Csrs, Offs, Locks
  <1> QED
    BY <1>6, <1>8, <1>9 DEF TrapInv

\* acquire(&p->lock) in the scheduler.
LEMMA ScanStep ==
  ASSUME TrapInv, Scan
  PROVE  TrapInv'
  <1>1. /\ RegTypes /\ HeldAt("scan") /\ RegsAt(Top) /\ Top.at = "scan" /\ mode = "kernel"
        /\ LevelOK(cur, Depth, Top)
    BY AtIs DEF Scan
  <1>3. cur = 0 /\ Depth = 1
    BY <1>1 DEF LevelOK, ProcAts, HandlerAts, YieldAts
  <1>4. Top.ret \in {"sys", "relock", "finish", "restore"}
    BY AtIs DEF Scan
  <1>5. PICK s \in {"switch", "back"} : Goto(s)
    BY DEF Scan
  <1>6. LevelOK(cur, Depth, [at |-> s, ret |-> Top.ret, epc |-> Top.epc, sst |-> Top.sst])
    BY <1>3 DEF LevelOK, SchedAts
  <1>7. /\ LevelsOK' /\ BelowOK' /\ AwayOK'
        /\ stack' \in [Contexts -> Seq(Activations)]
        /\ \A c \in Contexts : Len(stack'[c]) \in 1 .. MaxDepth
        /\ Top' = [at |-> s, ret |-> Top.ret, epc |-> Top.epc, sst |-> Top.sst]
    BY <1>3, <1>4, <1>5, <1>6, MoveOn DEF Scan, Ats
  <1>8. sstatus \in Sstatus /\ intena' \in BOOLEAN /\ sstatus' \in Sstatus
    BY <1>1, OffTypes DEF RegTypes, Scan
  <1>9. RegTypes'
    BY <1>1, <1>7, <1>8 DEF RegTypes, Scan, Csrs, UserCode
  <1>10. ~sstatus'.sie
    BY <1>8 DEF Scan, PushOff, Sstatus
  <1>11. plock' = {idx} /\ klock' = 0 /\ noff' = 1
    BY <1>1 DEF HeldAt, PlockAts, Scan, PushOff
  <1>12. HeldAt(Top.at)' /\ RegsAt(Top)' /\ mode' = "kernel"
    BY <1>1, <1>5, <1>7, <1>10, <1>11 DEF HeldAt, RegsAt, PlockAts, OpenAts, Scan, Csrs
  <1> QED
    BY <1>7, <1>9, <1>12 DEF TrapInv

\* release(&p->lock) in the scheduler, on to the next slot.
LEMMA BackStep ==
  ASSUME TrapInv, Back
  PROVE  TrapInv'
  <1>1. /\ RegTypes /\ HeldAt("back") /\ RegsAt(Top) /\ Top.at = "back" /\ mode = "kernel"
        /\ LevelOK(cur, Depth, Top)
    BY AtIs DEF Back
  <1>3. cur = 0 /\ Depth = 1
    BY <1>1 DEF LevelOK, ProcAts, HandlerAts, YieldAts
  <1>4. Top.ret \in {"sys", "relock", "finish", "restore"}
    BY AtIs DEF Back
  <1>5. PICK s \in {"loop", "scan"} : Goto(s)
    BY DEF Back
  <1>6. LevelOK(cur, Depth, [at |-> s, ret |-> Top.ret, epc |-> Top.epc, sst |-> Top.sst])
    BY <1>3 DEF LevelOK, SchedAts
  <1>7. /\ LevelsOK' /\ BelowOK' /\ AwayOK'
        /\ stack' \in [Contexts -> Seq(Activations)]
        /\ \A c \in Contexts : Len(stack'[c]) \in 1 .. MaxDepth
        /\ Top' = [at |-> s, ret |-> Top.ret, epc |-> Top.epc, sst |-> Top.sst]
    BY <1>3, <1>4, <1>5, <1>6, MoveOn DEF Back, Ats
  <1>8. sstatus \in Sstatus /\ intena' \in BOOLEAN /\ sstatus' \in Sstatus
    BY <1>1, OffTypes DEF RegTypes, Back
  <1>9. idx' \in Procs
    BY <1>1, TrapAssumption DEF RegTypes, Back, Procs
  <1>10. RegTypes'
    BY <1>1, <1>7, <1>8, <1>9 DEF RegTypes, Back, Csrs, UserCode
  <1>11. plock' = {} /\ klock' = 0 /\ noff' = 0
    BY <1>1 DEF HeldAt, PlockAts, Back, PopOff
  <1>12. HeldAt(Top.at)' /\ RegsAt(Top)' /\ mode' = "kernel"
    BY <1>1, <1>5, <1>7, <1>11 DEF HeldAt, RegsAt, PlockAts, OpenAts, Back, Csrs
  <1> QED
    BY <1>7, <1>10, <1>12 DEF TrapInv

-----------------------------------------------------------------------------
(* The code of a process. *)

\* yield takes the lock of its process, in system calls and in handlers.
LEMMA YieldStep ==
  ASSUME TrapInv, Yield
  PROVE  TrapInv'
  <1>1. /\ RegTypes /\ AwayOK /\ HeldAt("yield") /\ RegsAt(Top) /\ Top.at = "yield" /\ mode = "kernel"
        /\ LevelOK(cur, Depth, Top) /\ Top.ret \in {"sys", "relock", "finish", "restore"}
        /\ (cur # 0 => cur \in Procs)
    BY AtIs DEF Yield
  <1>2. cur \in Procs /\ idx = cur /\ cur # 0
    BY <1>1 DEF LevelOK, SchedAts, HandlerAts, YieldAts, AwayOK
  <1>3. LevelOK(cur, Depth, [at |-> "sched", ret |-> Top.ret, epc |-> Top.epc, sst |-> Top.sst])
    BY <1>1, <1>2 DEF LevelOK, SchedAts, ProcAts, HandlerAts, YieldAts
  <1>4. /\ LevelsOK' /\ BelowOK' /\ AwayOK'
        /\ stack' \in [Contexts -> Seq(Activations)]
        /\ \A c \in Contexts : Len(stack'[c]) \in 1 .. MaxDepth
        /\ Top' = [at |-> "sched", ret |-> Top.ret, epc |-> Top.epc, sst |-> Top.sst]
    BY <1>1, <1>2, <1>3, MoveOn DEF Yield, Ats
  <1>5. sstatus \in Sstatus /\ intena' \in BOOLEAN /\ sstatus' \in Sstatus
    BY <1>1, OffTypes DEF RegTypes, Yield
  <1>6. status' \in [Procs -> {"ready", "running", "sleeping"}]
    BY <1>1, <1>2 DEF RegTypes, Yield
  <1>7. RegTypes'
    BY <1>1, <1>4, <1>5, <1>6 DEF RegTypes, Yield, Csrs, UserCode
  <1>8. ~sstatus'.sie
    BY <1>1, <1>5 DEF Yield, Sstatus, RegsAt, OpenAts, HeldAt, PushOff
  <1>9. HeldAt(Top.at)'
    BY <1>1, <1>2, <1>4 DEF HeldAt, LevelOK, PlockAts, SchedAts, ProcAts, HandlerAts, YieldAts, Yield, PushOff
  <1>10. RegsAt(Top)' /\ mode' = "kernel"
    BY <1>1, <1>2, <1>4, <1>5, <1>8 DEF RegsAt, OpenAts, Yield, Csrs
  <1> QED
    BY <1>4, <1>7, <1>9, <1>10 DEF TrapInv

\* sleep takes p->lock while it has the lock of the system call.
LEMMA SleepStep ==
  ASSUME TrapInv, Sleep
  PROVE  TrapInv'
  <1>1. /\ RegTypes /\ AwayOK /\ HeldAt("locked") /\ RegsAt(Top) /\ Top.at = "locked" /\ mode = "kernel"
        /\ LevelOK(cur, Depth, Top) /\ Top.ret \in {"sys", "relock", "finish", "restore"}
        /\ (cur # 0 => cur \in Procs)
    BY AtIs DEF Sleep
  <1>2. cur \in Procs /\ idx = cur /\ cur # 0 /\ Depth = 1 /\ Top.ret \in {"sys", "relock", "finish"}
    BY <1>1 DEF LevelOK, SchedAts, HandlerAts, YieldAts, AwayOK
  <1>3. LevelOK(cur, Depth, [at |-> "swap", ret |-> Top.ret, epc |-> Top.epc, sst |-> Top.sst])
    BY <1>1, <1>2 DEF LevelOK, SchedAts, ProcAts, HandlerAts, YieldAts
  <1>4. /\ LevelsOK' /\ BelowOK' /\ AwayOK'
        /\ stack' \in [Contexts -> Seq(Activations)]
        /\ \A c \in Contexts : Len(stack'[c]) \in 1 .. MaxDepth
        /\ Top' = [at |-> "swap", ret |-> Top.ret, epc |-> Top.epc, sst |-> Top.sst]
    BY <1>1, <1>2, <1>3, MoveOn DEF Sleep, Ats
  <1>5. sstatus \in Sstatus /\ intena' \in BOOLEAN /\ sstatus' \in Sstatus
    BY <1>1, OffTypes DEF RegTypes, Sleep
  <1>7. RegTypes'
    BY <1>1, <1>4, <1>5 DEF RegTypes, Sleep, Csrs, UserCode
  <1>8. ~sstatus'.sie
    BY <1>1, <1>5 DEF Sleep, Sstatus, RegsAt, OpenAts, HeldAt, PushOff
  <1>9. HeldAt(Top.at)'
    BY <1>1, <1>2, <1>4 DEF HeldAt, LevelOK, PlockAts, SchedAts, ProcAts, HandlerAts, YieldAts, Sleep, PushOff
  <1>10. RegsAt(Top)' /\ mode' = "kernel"
    BY <1>1, <1>2, <1>4, <1>5, <1>8 DEF RegsAt, OpenAts, Sleep, Csrs
  <1> QED
    BY <1>4, <1>7, <1>9, <1>10 DEF TrapInv

\* sleep releases the other lock: noff goes from 2 to 1, interrupts stay off.
LEMMA SleepSwapStep ==
  ASSUME TrapInv, SleepSwap
  PROVE  TrapInv'
  <1>1. /\ RegTypes /\ AwayOK /\ HeldAt("swap") /\ RegsAt(Top) /\ Top.at = "swap" /\ mode = "kernel"
        /\ LevelOK(cur, Depth, Top) /\ Top.ret \in {"sys", "relock", "finish", "restore"}
        /\ (cur # 0 => cur \in Procs)
    BY AtIs DEF SleepSwap
  <1>2. cur \in Procs /\ idx = cur /\ cur # 0 /\ Depth = 1 /\ Top.ret \in {"sys", "relock", "finish"}
    BY <1>1 DEF LevelOK, SchedAts, HandlerAts, YieldAts, AwayOK
  <1>3. LevelOK(cur, Depth, [at |-> "sched", ret |-> "relock", epc |-> Top.epc, sst |-> Top.sst])
    BY <1>1, <1>2 DEF LevelOK, SchedAts, ProcAts, HandlerAts, YieldAts
  <1>4. /\ LevelsOK' /\ BelowOK' /\ AwayOK'
        /\ stack' \in [Contexts -> Seq(Activations)]
        /\ \A c \in Contexts : Len(stack'[c]) \in 1 .. MaxDepth
        /\ Top' = [at |-> "sched", ret |-> "relock", epc |-> Top.epc, sst |-> Top.sst]
    BY <1>1, <1>2, <1>3, MoveOn DEF SleepSwap, Ats
  <1>5. sstatus \in Sstatus /\ intena' \in BOOLEAN /\ sstatus' \in Sstatus
    BY <1>1, OffTypes DEF RegTypes, SleepSwap
  <1>6. status' \in [Procs -> {"ready", "running", "sleeping"}]
    BY <1>1, <1>2 DEF RegTypes, SleepSwap
  <1>7. RegTypes'
    BY <1>1, <1>4, <1>5, <1>6 DEF RegTypes, SleepSwap, Csrs, UserCode
  <1>8. ~sstatus'.sie
    BY <1>1, <1>5 DEF SleepSwap, Sstatus, RegsAt, OpenAts, HeldAt, PopOff, PlockAts
  <1>9. HeldAt(Top.at)'
    BY <1>1, <1>2, <1>4 DEF HeldAt, LevelOK, PlockAts, SchedAts, ProcAts, HandlerAts, YieldAts, SleepSwap, PopOff
  <1>10. RegsAt(Top)' /\ mode' = "kernel"
    BY <1>1, <1>2, <1>4, <1>5, <1>8 DEF RegsAt, OpenAts, SleepSwap, Csrs
  <1> QED
    BY <1>4, <1>7, <1>9, <1>10 DEF TrapInv

\* A process that comes back releases its p->lock and goes on where it left.
LEMMA ResumedStep ==
  ASSUME TrapInv, Resumed
  PROVE  TrapInv'
  <1>1. /\ RegTypes /\ AwayOK /\ HeldAt("resumed") /\ RegsAt(Top) /\ Top.at = "resumed" /\ mode = "kernel"
        /\ LevelOK(cur, Depth, Top) /\ Top.ret \in {"sys", "relock", "finish", "restore"}
        /\ (cur # 0 => cur \in Procs)
    BY AtIs DEF Resumed
  <1>2. cur \in Procs /\ idx = cur /\ cur # 0
    BY <1>1 DEF LevelOK, SchedAts, HandlerAts, YieldAts, AwayOK
  <1>3. LevelOK(cur, Depth, [at |-> Top.ret, ret |-> Top.ret, epc |-> Top.epc, sst |-> Top.sst])
    BY <1>1, <1>2 DEF LevelOK, SchedAts, ProcAts, HandlerAts, YieldAts
  <1>4. /\ LevelsOK' /\ BelowOK' /\ AwayOK'
        /\ stack' \in [Contexts -> Seq(Activations)]
        /\ \A c \in Contexts : Len(stack'[c]) \in 1 .. MaxDepth
        /\ Top' = [at |-> Top.ret, ret |-> Top.ret, epc |-> Top.epc, sst |-> Top.sst]
    BY <1>1, <1>2, <1>3, MoveOn DEF Resumed, Ats, LevelOK
  <1>5. sstatus \in Sstatus /\ intena' \in BOOLEAN /\ sstatus' \in Sstatus
    BY <1>1, OffTypes DEF RegTypes, Resumed
  <1>7. RegTypes'
    BY <1>1, <1>4, <1>5 DEF RegTypes, Resumed, Csrs, UserCode
  <1>9. HeldAt(Top.at)'
    BY <1>1, <1>2, <1>4 DEF HeldAt, LevelOK, PlockAts, SchedAts, ProcAts, HandlerAts, YieldAts, Resumed, PopOff
  <1>10. RegsAt(Top)' /\ mode' = "kernel"
    BY <1>1, <1>2, <1>4, <1>5 DEF RegsAt, OpenAts, Resumed, Csrs, LevelOK
  <1> QED
    BY <1>4, <1>7, <1>9, <1>10 DEF TrapInv

\* A new process releases its p->lock.
LEMMA ForkretStep ==
  ASSUME TrapInv, Forkret
  PROVE  TrapInv'
  <1>1. /\ RegTypes /\ AwayOK /\ HeldAt("forkret") /\ RegsAt(Top) /\ Top.at = "forkret" /\ mode = "kernel"
        /\ LevelOK(cur, Depth, Top) /\ Top.ret \in {"sys", "relock", "finish", "restore"}
        /\ (cur # 0 => cur \in Procs)
    BY AtIs DEF Forkret
  <1>2. cur \in Procs /\ idx = cur /\ cur # 0 /\ Depth = 1 /\ Top.ret \in {"sys", "relock", "finish"}
    BY <1>1 DEF LevelOK, SchedAts, HandlerAts, YieldAts, AwayOK
  <1>3. LevelOK(cur, Depth, [at |-> "finish", ret |-> Top.ret, epc |-> Top.epc, sst |-> Top.sst])
    BY <1>1, <1>2 DEF LevelOK, SchedAts, ProcAts, HandlerAts, YieldAts
  <1>4. /\ LevelsOK' /\ BelowOK' /\ AwayOK'
        /\ stack' \in [Contexts -> Seq(Activations)]
        /\ \A c \in Contexts : Len(stack'[c]) \in 1 .. MaxDepth
        /\ Top' = [at |-> "finish", ret |-> Top.ret, epc |-> Top.epc, sst |-> Top.sst]
    BY <1>1, <1>2, <1>3, MoveOn DEF Forkret, Ats
  <1>5. sstatus \in Sstatus /\ intena' \in BOOLEAN /\ sstatus' \in Sstatus
    BY <1>1, OffTypes DEF RegTypes, Forkret
  <1>7. RegTypes'
    BY <1>1, <1>4, <1>5 DEF RegTypes, Forkret, Csrs, UserCode
  <1>9. HeldAt(Top.at)'
    BY <1>1, <1>2, <1>4 DEF HeldAt, LevelOK, PlockAts, SchedAts, ProcAts, HandlerAts, YieldAts, Forkret, PopOff
  <1>10. RegsAt(Top)' /\ mode' = "kernel"
    BY <1>1, <1>2, <1>4, <1>5 DEF RegsAt, OpenAts, Forkret, Csrs
  <1> QED
    BY <1>4, <1>7, <1>9, <1>10 DEF TrapInv

\* A system call takes a lock.
LEMMA SysAcquireStep ==
  ASSUME TrapInv, SysAcquire
  PROVE  TrapInv'
  <1>1. /\ RegTypes /\ AwayOK /\ HeldAt(Top.at) /\ RegsAt(Top) /\ Top.at \in {"sys", "relock"}
        /\ mode = "kernel" /\ LevelOK(cur, Depth, Top)
        /\ Top.ret \in {"sys", "relock", "finish", "restore"} /\ (cur # 0 => cur \in Procs)
    BY AtIs DEF SysAcquire
  <1>2. cur \in Procs /\ idx = cur /\ cur # 0 /\ Depth = 1 /\ Top.ret \in {"sys", "relock", "finish"}
    BY <1>1 DEF LevelOK, SchedAts, HandlerAts, YieldAts, AwayOK
  <1>3. LevelOK(cur, Depth, [at |-> "locked", ret |-> Top.ret, epc |-> Top.epc, sst |-> Top.sst])
    BY <1>1, <1>2 DEF LevelOK, SchedAts, ProcAts, HandlerAts, YieldAts
  <1>4. /\ LevelsOK' /\ BelowOK' /\ AwayOK'
        /\ stack' \in [Contexts -> Seq(Activations)]
        /\ \A c \in Contexts : Len(stack'[c]) \in 1 .. MaxDepth
        /\ Top' = [at |-> "locked", ret |-> Top.ret, epc |-> Top.epc, sst |-> Top.sst]
    BY <1>1, <1>2, <1>3, MoveOn DEF SysAcquire, Ats
  <1>5. sstatus \in Sstatus /\ intena' \in BOOLEAN /\ sstatus' \in Sstatus
    BY <1>1, OffTypes DEF RegTypes, SysAcquire
  <1>7. RegTypes'
    BY <1>1, <1>4, <1>5 DEF RegTypes, SysAcquire, Csrs, UserCode
  <1>8. ~sstatus'.sie
    BY <1>1, <1>5 DEF SysAcquire, Sstatus, RegsAt, OpenAts, HeldAt, PushOff
  <1>9. HeldAt(Top.at)'
    BY <1>1, <1>2, <1>4 DEF HeldAt, LevelOK, PlockAts, SchedAts, ProcAts, HandlerAts, YieldAts, SysAcquire, PushOff
  <1>10. RegsAt(Top)' /\ mode' = "kernel"
    BY <1>1, <1>2, <1>4, <1>5, <1>8 DEF RegsAt, OpenAts, SysAcquire, Csrs
  <1> QED
    BY <1>4, <1>7, <1>9, <1>10 DEF TrapInv

\* A system call releases its lock.
LEMMA SysReleaseStep ==
  ASSUME TrapInv, SysRelease
  PROVE  TrapInv'
  <1>1. /\ RegTypes /\ AwayOK /\ HeldAt("locked") /\ RegsAt(Top) /\ Top.at = "locked" /\ mode = "kernel"
        /\ LevelOK(cur, Depth, Top) /\ Top.ret \in {"sys", "relock", "finish", "restore"}
        /\ (cur # 0 => cur \in Procs)
    BY AtIs DEF SysRelease
  <1>2. cur \in Procs /\ idx = cur /\ cur # 0 /\ Depth = 1 /\ Top.ret \in {"sys", "relock", "finish"}
    BY <1>1 DEF LevelOK, SchedAts, HandlerAts, YieldAts, AwayOK
  <1>3. LevelOK(cur, Depth, [at |-> "sys", ret |-> Top.ret, epc |-> Top.epc, sst |-> Top.sst])
    BY <1>1, <1>2 DEF LevelOK, SchedAts, ProcAts, HandlerAts, YieldAts
  <1>4. /\ LevelsOK' /\ BelowOK' /\ AwayOK'
        /\ stack' \in [Contexts -> Seq(Activations)]
        /\ \A c \in Contexts : Len(stack'[c]) \in 1 .. MaxDepth
        /\ Top' = [at |-> "sys", ret |-> Top.ret, epc |-> Top.epc, sst |-> Top.sst]
    BY <1>1, <1>2, <1>3, MoveOn DEF SysRelease, Ats
  <1>5. sstatus \in Sstatus /\ intena' \in BOOLEAN /\ sstatus' \in Sstatus
    BY <1>1, OffTypes DEF RegTypes, SysRelease
  <1>7. RegTypes'
    BY <1>1, <1>4, <1>5 DEF RegTypes, SysRelease, Csrs, UserCode
  <1>9. HeldAt(Top.at)'
    BY <1>1, <1>2, <1>4 DEF HeldAt, LevelOK, PlockAts, SchedAts, ProcAts, HandlerAts, YieldAts, SysRelease, PopOff
  <1>10. RegsAt(Top)' /\ mode' = "kernel"
    BY <1>1, <1>2, <1>4, <1>5 DEF RegsAt, OpenAts, SysRelease, Csrs
  <1> QED
    BY <1>4, <1>7, <1>9, <1>10 DEF TrapInv

\* A system call yields, with no lock.
LEMMA SysYieldStep ==
  ASSUME TrapInv, SysYield
  PROVE  TrapInv'
  <1>1. /\ RegTypes /\ AwayOK /\ HeldAt("sys") /\ RegsAt(Top) /\ Top.at = "sys" /\ mode = "kernel"
        /\ LevelOK(cur, Depth, Top) /\ Top.ret \in {"sys", "relock", "finish", "restore"}
        /\ (cur # 0 => cur \in Procs)
    BY AtIs DEF SysYield
  <1>2. cur \in Procs /\ idx = cur /\ cur # 0 /\ Depth = 1 /\ Top.ret \in {"sys", "relock", "finish"}
    BY <1>1 DEF LevelOK, SchedAts, HandlerAts, YieldAts, AwayOK
  <1>3. LevelOK(cur, Depth, [at |-> "yield", ret |-> "sys", epc |-> Top.epc, sst |-> Top.sst])
    BY <1>1, <1>2 DEF LevelOK, SchedAts, ProcAts, HandlerAts, YieldAts
  <1>4. /\ LevelsOK' /\ BelowOK' /\ AwayOK'
        /\ stack' \in [Contexts -> Seq(Activations)]
        /\ \A c \in Contexts : Len(stack'[c]) \in 1 .. MaxDepth
        /\ Top' = [at |-> "yield", ret |-> "sys", epc |-> Top.epc, sst |-> Top.sst]
    BY <1>1, <1>2, <1>3, MoveOn DEF SysYield, Ats
  <1>5. sstatus \in Sstatus /\ intena' \in BOOLEAN /\ sstatus' \in Sstatus
    BY <1>1 DEF RegTypes, SysYield, Offs, regs
  <1>7. RegTypes'
    BY <1>1, <1>4, <1>5 DEF RegTypes, SysYield, Csrs, UserCode, regs, Offs
  <1>9. HeldAt(Top.at)'
    BY <1>1, <1>2, <1>4 DEF HeldAt, LevelOK, PlockAts, SchedAts, ProcAts, HandlerAts, YieldAts, SysYield, Offs, Locks
  <1>10. RegsAt(Top)' /\ mode' = "kernel"
    BY <1>1, <1>2, <1>4, <1>5 DEF RegsAt, OpenAts, SysYield, Csrs, regs
  <1> QED
    BY <1>4, <1>7, <1>9, <1>10 DEF TrapInv

\* A system call ends.
LEMMA SysReturnStep ==
  ASSUME TrapInv, SysReturn
  PROVE  TrapInv'
  <1>1. /\ RegTypes /\ AwayOK /\ HeldAt("sys") /\ RegsAt(Top) /\ Top.at = "sys" /\ mode = "kernel"
        /\ LevelOK(cur, Depth, Top) /\ Top.ret \in {"sys", "relock", "finish", "restore"}
        /\ (cur # 0 => cur \in Procs)
    BY AtIs DEF SysReturn
  <1>2. cur \in Procs /\ idx = cur /\ cur # 0 /\ Depth = 1 /\ Top.ret \in {"sys", "relock", "finish"}
    BY <1>1 DEF LevelOK, SchedAts, HandlerAts, YieldAts, AwayOK
  <1>3. LevelOK(cur, Depth, [at |-> "finish", ret |-> Top.ret, epc |-> Top.epc, sst |-> Top.sst])
    BY <1>1, <1>2 DEF LevelOK, SchedAts, ProcAts, HandlerAts, YieldAts
  <1>4. /\ LevelsOK' /\ BelowOK' /\ AwayOK'
        /\ stack' \in [Contexts -> Seq(Activations)]
        /\ \A c \in Contexts : Len(stack'[c]) \in 1 .. MaxDepth
        /\ Top' = [at |-> "finish", ret |-> Top.ret, epc |-> Top.epc, sst |-> Top.sst]
    BY <1>1, <1>2, <1>3, MoveOn DEF SysReturn, Ats
  <1>5. sstatus \in Sstatus /\ intena' \in BOOLEAN /\ sstatus' \in Sstatus
    BY <1>1 DEF RegTypes, SysReturn, Offs, regs
  <1>7. RegTypes'
    BY <1>1, <1>4, <1>5 DEF RegTypes, SysReturn, Csrs, UserCode, regs, Offs
  <1>9. HeldAt(Top.at)'
    BY <1>1, <1>2, <1>4 DEF HeldAt, LevelOK, PlockAts, SchedAts, ProcAts, HandlerAts, YieldAts, SysReturn, Offs, Locks
  <1>10. RegsAt(Top)' /\ mode' = "kernel"
    BY <1>1, <1>2, <1>4, <1>5 DEF RegsAt, OpenAts, SysReturn, Csrs, regs
  <1> QED
    BY <1>4, <1>7, <1>9, <1>10 DEF TrapInv

\* usertrapret turns interrupts off first.
LEMMA UsertrapretStep ==
  ASSUME TrapInv, Usertrapret
  PROVE  TrapInv'
  <1>1. /\ RegTypes /\ AwayOK /\ HeldAt("finish") /\ RegsAt(Top) /\ Top.at = "finish" /\ mode = "kernel"
        /\ LevelOK(cur, Depth, Top) /\ Top.ret \in {"sys", "relock", "finish", "restore"}
        /\ (cur # 0 => cur \in Procs)
    BY AtIs DEF Usertrapret
  <1>2. cur \in Procs /\ idx = cur /\ cur # 0 /\ Depth = 1 /\ Top.ret \in {"sys", "relock", "finish"}
    BY <1>1 DEF LevelOK, SchedAts, HandlerAts, YieldAts, AwayOK
  <1>3. LevelOK(cur, Depth, [at |-> "vector", ret |-> Top.ret, epc |-> Top.epc, sst |-> Top.sst])
    BY <1>1, <1>2 DEF LevelOK, SchedAts, ProcAts, HandlerAts, YieldAts
  <1>4. /\ LevelsOK' /\ BelowOK' /\ AwayOK'
        /\ stack' \in [Contexts -> Seq(Activations)]
        /\ \A c \in Contexts : Len(stack'[c]) \in 1 .. MaxDepth
        /\ Top' = [at |-> "vector", ret |-> Top.ret, epc |-> Top.epc, sst |-> Top.sst]
    BY <1>1, <1>2, <1>3, MoveOn DEF Usertrapret, Ats
  <1>5. sstatus \in Sstatus /\ intena' \in BOOLEAN /\ sstatus' \in Sstatus
    BY <1>1 DEF RegTypes, Usertrapret, Offs, Sstatus
  <1>7. RegTypes'
    BY <1>1, <1>4, <1>5 DEF RegTypes, Usertrapret, Csrs, UserCode, Offs
  <1>8. ~sstatus'.sie
    BY <1>5 DEF Usertrapret, Sstatus
  <1>9. HeldAt(Top.at)'
    BY <1>1, <1>2, <1>4 DEF HeldAt, LevelOK, PlockAts, SchedAts, ProcAts, HandlerAts, YieldAts, Usertrapret, Offs, Locks
  <1>10. RegsAt(Top)' /\ mode' = "kernel"
    BY <1>1, <1>2, <1>4, <1>5, <1>8 DEF RegsAt, OpenAts, Usertrapret, Csrs
  <1> QED
    BY <1>4, <1>7, <1>9, <1>10 DEF TrapInv

\* usertrapret sets the vector of user mode, interrupts being off.
LEMMA RetVectorStep ==
  ASSUME TrapInv, RetVector
  PROVE  TrapInv'
  <1>1. /\ RegTypes /\ AwayOK /\ HeldAt("vector") /\ RegsAt(Top) /\ Top.at = "vector" /\ mode = "kernel"
        /\ LevelOK(cur, Depth, Top) /\ Top.ret \in {"sys", "relock", "finish", "restore"}
        /\ (cur # 0 => cur \in Procs)
    BY AtIs DEF RetVector
  <1>2. cur \in Procs /\ idx = cur /\ cur # 0 /\ Depth = 1 /\ Top.ret \in {"sys", "relock", "finish"}
    BY <1>1 DEF LevelOK, SchedAts, HandlerAts, YieldAts, AwayOK
  <1>3. LevelOK(cur, Depth, [at |-> "csrs", ret |-> Top.ret, epc |-> Top.epc, sst |-> Top.sst])
    BY <1>1, <1>2 DEF LevelOK, SchedAts, ProcAts, HandlerAts, YieldAts
  <1>4. /\ LevelsOK' /\ BelowOK' /\ AwayOK'
        /\ stack' \in [Contexts -> Seq(Activations)]
        /\ \A c \in Contexts : Len(stack'[c]) \in 1 .. MaxDepth
        /\ Top' = [at |-> "csrs", ret |-> Top.ret, epc |-> Top.epc, sst |-> Top.sst]
    BY <1>1, <1>2, <1>3, MoveOn DEF RetVector, Ats
  <1>5. sstatus \in Sstatus /\ intena' \in BOOLEAN /\ sstatus' \in Sstatus
    BY <1>1 DEF RegTypes, RetVector, Offs, regs
  <1>7. RegTypes'
    BY <1>1, <1>4, <1>5 DEF RegTypes, RetVector, Csrs, UserCode, Offs
  <1>9. HeldAt(Top.at)'
    BY <1>1, <1>2, <1>4 DEF HeldAt, LevelOK, PlockAts, SchedAts, ProcAts, HandlerAts, YieldAts, RetVector, Offs, Locks
  <1>10. RegsAt(Top)' /\ mode' = "kernel"
    BY <1>1, <1>2, <1>4, <1>5 DEF RegsAt, OpenAts, RetVector, Csrs
  <1> QED
    BY <1>4, <1>7, <1>9, <1>10 DEF TrapInv

\* usertrapret writes sstatus and sepc.
LEMMA RetCsrsStep ==
  ASSUME TrapInv, RetCsrs
  PROVE  TrapInv'
  <1>1. /\ RegTypes /\ AwayOK /\ HeldAt("csrs") /\ RegsAt(Top) /\ Top.at = "csrs" /\ mode = "kernel"
        /\ LevelOK(cur, Depth, Top) /\ Top.ret \in {"sys", "relock", "finish", "restore"}
        /\ (cur # 0 => cur \in Procs)
    BY AtIs DEF RetCsrs
  <1>2. cur \in Procs /\ idx = cur /\ cur # 0 /\ Depth = 1 /\ Top.ret \in {"sys", "relock", "finish"}
    BY <1>1 DEF LevelOK, SchedAts, HandlerAts, YieldAts, AwayOK
  <1>3. LevelOK(cur, Depth, [at |-> "userret", ret |-> Top.ret, epc |-> Top.epc, sst |-> Top.sst])
    BY <1>1, <1>2 DEF LevelOK, SchedAts, ProcAts, HandlerAts, YieldAts
  <1>4. /\ LevelsOK' /\ BelowOK' /\ AwayOK'
        /\ stack' \in [Contexts -> Seq(Activations)]
        /\ \A c \in Contexts : Len(stack'[c]) \in 1 .. MaxDepth
        /\ Top' = [at |-> "userret", ret |-> Top.ret, epc |-> Top.epc, sst |-> Top.sst]
    BY <1>1, <1>2, <1>3, MoveOn DEF RetCsrs, Ats
  <1>5. sstatus \in Sstatus /\ intena' \in BOOLEAN /\ sstatus' \in Sstatus
    BY <1>1 DEF RegTypes, RetCsrs, Offs, Sstatus
  <1>6. sepc' = UserCode(cur) /\ sepc' \in Places
    BY <1>1, <1>2, TrapAssumption DEF RegTypes, RetCsrs, UserCode, Places, Contexts, Procs
  <1>7. RegTypes'
    BY <1>1, <1>4, <1>5, <1>6 DEF RegTypes, RetCsrs, Csrs, UserCode, Offs
  <1>8. /\ sstatus'.spp = "user" /\ sstatus'.spie /\ ~sstatus'.sie
        /\ sepc' = UserCode(cur) /\ sepc' = UserCode(cur)'
    BY <1>1, <1>5, <1>6 DEF RetCsrs, Sstatus, RegsAt, OpenAts, UserCode
  <1>9. HeldAt(Top.at)'
    BY <1>1, <1>2, <1>4 DEF HeldAt, LevelOK, PlockAts, SchedAts, ProcAts, HandlerAts, YieldAts, RetCsrs, Offs, Locks
  <1>10. RegsAt(Top)' /\ mode' = "kernel"
    BY <1>1, <1>2, <1>4, <1>5, <1>8 DEF RegsAt, OpenAts, RetCsrs, Csrs
  <1> QED
    BY <1>4, <1>7, <1>9, <1>10 DEF TrapInv

\* sret to the user code.
LEMMA UserretStep ==
  ASSUME TrapInv, Userret
  PROVE  TrapInv'
  <1>1. /\ RegTypes /\ LevelsOK /\ BelowOK /\ AwayOK /\ HeldAt(Top.at) /\ RegsAt(Top)
        /\ Top.at = "userret" /\ LevelOK(cur, Depth, Top)
    BY AtIs DEF Userret
  <1>2. cur # 0
    BY <1>1 DEF LevelOK, SchedAts, HandlerAts, YieldAts
  <1>3. Top' = Top /\ cur' = cur /\ idx' = idx /\ stack' = stack
    BY DEF Userret, Top, Depth
  <1>4. mode' = "user" /\ sstatus'.sie /\ stvec' = "user"
    BY <1>1 DEF Userret, RegsAt, Sret
  <1>5. sstatus.spie \in BOOLEAN
    BY <1>1 DEF RegTypes, Sstatus
  <1>6. sstatus' \in Sstatus
    BY <1>5 DEF Userret, Sret, Sstatus
  <1>7. RegTypes'
    BY <1>1, <1>4, <1>6 DEF RegTypes, Userret, Offs, UserCode
  <1>8. LevelsOK' /\ BelowOK' /\ AwayOK'
    BY <1>1, <1>3 DEF LevelsOK, LevelOK, BelowOK, AwayOK
  <1>9. HeldAt(Top.at)'
    BY <1>1, <1>3 DEF HeldAt, Userret, Offs, Locks
  <1> QED
    BY <1>1, <1>2, <1>3, <1>4, <1>7, <1>8, <1>9 DEF TrapInv, UserOK

\* What the handlers of devices do keeps the types.
LEMMA DeviceTypes ==
  ASSUME RegTypes, Device
  PROVE  intena' \in BOOLEAN /\ status' \in [Procs -> {"ready", "running", "sleeping"}]
  <1>1. status \in [Procs -> {"ready", "running", "sleeping"}]
    BY DEF RegTypes
  <1>2. PICK W \in SUBSET {p \in Procs : status[p] = "sleeping"} :
          status' = [p \in Procs |-> IF p \in W THEN "ready" ELSE status[p]]
    BY DEF Device
  <1> QED
    BY <1>1, <1>2 DEF Device

\* The trap from user mode, for each of its causes.
LEMMA UserTrapStep ==
  ASSUME TrapInv, NEW cause \in {"ecall", "timer", "device"}, UserTrap(cause)
  PROVE  TrapInv'
  <1>1. RegTypes /\ LevelsOK /\ AwayOK /\ HeldAt(Top.at) /\ cur # 0 /\ Top.at = "userret"
    BY DEF TrapInv, UserTrap, UserOK
  <1>2. LevelOK(cur, Depth, Top) /\ Top \in Activations /\ cur \in Contexts
    BY <1>1, TopIs
  <1>3. Depth = 1 /\ cur \in Procs /\ idx = cur /\ Top.ret \in {"sys", "relock", "finish"}
    BY <1>1, <1>2, TrapAssumption DEF LevelOK, HandlerAts, YieldAts, AwayOK, Contexts, Procs
  <1>4. PICK s \in {"sys", "yield", "finish"}, r \in {"sys", "relock", "finish"} :
          /\ (Goto(s) /\ r = Top.ret) \/ GotoWith(s, r)
          /\ s = "sys" \/ sstatus' = [sie |-> FALSE, spie |-> sstatus.sie, spp |-> "user"]
    BY <1>3 DEF UserTrap
  <1>5. LevelOK(cur, Depth, [at |-> s, ret |-> r, epc |-> Top.epc, sst |-> Top.sst])
    BY <1>1, <1>3 DEF LevelOK, ProcAts
  <1>6. /\ LevelsOK' /\ BelowOK' /\ AwayOK'
        /\ stack' \in [Contexts -> Seq(Activations)]
        /\ \A c \in Contexts : Len(stack'[c]) \in 1 .. MaxDepth
        /\ Top' = [at |-> s, ret |-> r, epc |-> Top.epc, sst |-> Top.sst]
    BY <1>3, <1>4, <1>5, MoveOn DEF UserTrap, Ats
  <1>7. sstatus \in Sstatus /\ sstatus.sie \in BOOLEAN
    BY <1>1 DEF RegTypes, Sstatus
  <1>8. sstatus' \in Sstatus
    <2>1. CASE cause = "ecall"
      <3>1. sstatus' = [[sie |-> FALSE, spie |-> sstatus.sie, spp |-> "user"] EXCEPT !.sie = TRUE]
        BY <2>1 DEF UserTrap
      <3>2. sstatus' = [sie |-> TRUE, spie |-> sstatus.sie, spp |-> "user"]
        BY <3>1
      <3> QED
        BY <1>7, <3>2 DEF Sstatus
    <2>2. CASE cause # "ecall"
      <3>1. sstatus' = [sie |-> FALSE, spie |-> sstatus.sie, spp |-> "user"]
        BY <2>2 DEF UserTrap
      <3> QED
        BY <1>7, <3>1 DEF Sstatus
    <2> QED
      BY <2>1, <2>2
  <1>9. intena' \in BOOLEAN /\ status' \in [Procs -> {"ready", "running", "sleeping"}]
    BY <1>1, DeviceTypes DEF RegTypes, UserTrap, Offs
  <1>10. sepc' \in Places /\ tepc' = tepc
    <2>1. sepc' \in Places
      BY <1>3, TrapAssumption DEF UserTrap, UserCode, Places, Contexts, Procs
    <2>2. tepc = [p \in Procs |-> UserCode(p)]
      BY <1>1 DEF RegTypes
    <2> QED
      BY <1>3, <2>1, <2>2 DEF UserTrap
  <1>11. RegTypes'
    BY <1>1, <1>6, <1>8, <1>9, <1>10 DEF RegTypes, UserTrap, UserCode
  <1>12. HeldAt(Top.at)'
    BY <1>1, <1>4, <1>6 DEF HeldAt, PlockAts, UserTrap, Offs, Locks, Device
  <1>13. RegsAt(Top)' /\ mode' = "kernel"
    BY <1>4, <1>6 DEF RegsAt, OpenAts, UserTrap
  <1> QED
    BY <1>6, <1>11, <1>12, <1>13 DEF TrapInv

-----------------------------------------------------------------------------
(* Switches between contexts. *)

\* swtch to a process, which stands right after its own swtch.
LEMMA SwitchStep ==
  ASSUME TrapInv, Switch
  PROVE  TrapInv'
  <1>1. /\ RegTypes /\ LevelsOK /\ BelowOK /\ AwayOK /\ HeldAt("switch") /\ RegsAt(Top)
        /\ Top.at = "switch" /\ mode = "kernel" /\ LevelOK(cur, Depth, Top)
        /\ Top.ret \in {"sys", "relock", "finish", "restore"}
    BY AtIs DEF Switch
  <1>2. cur = 0 /\ Depth = 1 /\ idx \in Procs /\ idx # 0 /\ idx \in Contexts /\ 0 \in Contexts
        /\ \A p \in Procs : p \in Contexts /\ p # 0
    BY <1>1, TrapAssumption DEF LevelOK, ProcAts, HandlerAts, YieldAts, RegTypes, Contexts, Procs
  <1>3. LevelOK(cur, Depth, [at |-> "back", ret |-> Top.ret, epc |-> Top.epc, sst |-> Top.sst])
    BY <1>2 DEF LevelOK, SchedAts
  <1>4. Moved("back", Top.ret)
    BY <1>1, MoveIs DEF Switch, Ats
  <1>5. /\ LevelsOK' /\ BelowOK'
        /\ stack' \in [Contexts -> Seq(Activations)]
        /\ \A c \in Contexts : Len(stack'[c]) \in 1 .. MaxDepth
    BY <1>1, <1>3, <1>4, MoveKeeps
  <1>6. \A p \in Procs : /\ Len(stack'[p]) = Len(stack[p])
                         /\ stack'[p][Len(stack[p])] = stack[p][Len(stack[p])]
                         /\ stack[p][Len(stack[p])].at \in {"resumed", "forkret"}
    <2> TAKE p \in Procs
    <2>1. Len(stack[p]) \in 1 .. Len(stack[p])
      BY <1>1, <1>2, TrapAssumption DEF RegTypes
    <2> QED
      BY <1>1, <1>2, <1>4, <2>1 DEF Moved, AwayOK
  <1>7. Len(stack'[0]) = 1 /\ stack'[0][1].at = "back"
    BY <1>2, <1>4 DEF Moved, Depth
  <1>8. AwayOK'
    BY <1>2, <1>6, <1>7 DEF AwayOK, Switch
  <1>9. Top'.at \in {"resumed", "forkret"}
    BY <1>2, <1>6 DEF Top, Depth, Switch
  <1>10. status' \in [Procs -> {"ready", "running", "sleeping"}]
    BY <1>1, <1>2 DEF RegTypes, Switch
  <1>11. RegTypes'
    BY <1>1, <1>2, <1>5, <1>10 DEF RegTypes, Switch, regs, Offs, UserCode
  <1>12. HeldAt(Top.at)'
    BY <1>1, <1>9 DEF HeldAt, PlockAts, Switch, Offs, Locks
  <1>13. RegsAt(Top)' /\ mode' = "kernel"
    BY <1>1, <1>9 DEF RegsAt, OpenAts, Switch, regs
  <1> QED
    BY <1>5, <1>8, <1>11, <1>12, <1>13 DEF TrapInv

\* swtch to the scheduler, which stands right after its own swtch.
LEMMA SchedStep ==
  ASSUME TrapInv, Sched
  PROVE  TrapInv'
  <1>1. /\ RegTypes /\ LevelsOK /\ BelowOK /\ AwayOK /\ HeldAt("sched") /\ RegsAt(Top)
        /\ Top.at = "sched" /\ mode = "kernel" /\ LevelOK(cur, Depth, Top)
        /\ Top.ret \in {"sys", "relock", "finish", "restore"} /\ cur \in Contexts
    BY AtIs DEF Sched
  <1>2. cur # 0 /\ 0 \in Contexts /\ \A p \in Procs : p \in Contexts /\ p # 0
    BY <1>1, TrapAssumption DEF LevelOK, SchedAts, HandlerAts, Contexts, Procs
  <1>3. LevelOK(cur, Depth, [at |-> "resumed", ret |-> Top.ret, epc |-> Top.epc, sst |-> Top.sst])
    BY <1>1, <1>2 DEF LevelOK, ProcAts, YieldAts
  <1>4. Moved("resumed", Top.ret)
    BY <1>1, MoveIs DEF Sched, Ats
  <1>5. /\ LevelsOK' /\ BelowOK'
        /\ stack' \in [Contexts -> Seq(Activations)]
        /\ \A c \in Contexts : Len(stack'[c]) \in 1 .. MaxDepth
    BY <1>1, <1>3, <1>4, MoveKeeps
  <1>6. \A p \in Procs : stack'[p][Len(stack'[p])].at \in {"resumed", "forkret"}
    <2> TAKE p \in Procs
    <2>1. Len(stack[p]) \in 1 .. Len(stack[p]) /\ Len(stack'[p]) = Len(stack[p])
      BY <1>1, <1>2, <1>4, TrapAssumption DEF RegTypes, Moved
    <2>2. CASE p = cur
      BY <1>4, <2>1, <2>2 DEF Moved, Depth
    <2>3. CASE p # cur
      BY <1>1, <1>2, <1>4, <2>1, <2>3 DEF Moved, AwayOK
    <2> QED
      BY <2>2, <2>3
  <1>7. Len(stack'[0]) = 1 /\ stack'[0][1].at = "back"
    BY <1>1, <1>2, <1>4 DEF Moved, AwayOK
  <1>8. AwayOK'
    BY <1>6 DEF AwayOK, Sched
  <1>9. Top'.at = "back"
    BY <1>7 DEF Top, Depth, Sched
  <1>10. RegTypes'
    BY <1>1, <1>2, <1>5 DEF RegTypes, Sched, regs, Offs, UserCode
  <1>11. HeldAt(Top.at)'
    BY <1>1, <1>9 DEF HeldAt, PlockAts, Sched, Offs, Locks
  <1>12. RegsAt(Top)' /\ mode' = "kernel"
    BY <1>1, <1>9 DEF RegsAt, OpenAts, Sched, regs
  <1> QED
    BY <1>5, <1>8, <1>10, <1>11, <1>12 DEF TrapInv

-----------------------------------------------------------------------------
(* Interrupts in the kernel, and their handlers. *)

\* A handler starts above an activation at which interrupts are on.
LEMMA InterruptStep ==
  ASSUME TrapInv, Interrupt
  PROVE  TrapInv'
  <1> DEFINE new == [at |-> "handler", ret |-> "restore", epc |-> Place(cur), sst |-> KernelTrap]
  <1>1. /\ RegTypes /\ LevelsOK /\ BelowOK /\ AwayOK /\ HeldAt(Top.at) /\ RegsAt(Top)
        /\ mode = "kernel" /\ sstatus.sie /\ Depth < MaxDepth /\ (Quiet => Top.at # "status")
    BY DEF TrapInv, Interrupt
  <1>2. /\ cur \in Contexts /\ Depth \in Nat /\ Depth \in 1 .. MaxDepth /\ Top \in Activations
        /\ stack \in [Contexts -> Seq(Activations)] /\ stack[cur] \in Seq(Activations)
        /\ Depth = Len(stack[cur])
    BY <1>1, TopIs DEF RegTypes, Depth
  <1>3. Top.at \in OpenAts
    BY <1>1 DEF RegsAt
  <1>4. Place(cur) = [c |-> cur, d |-> Depth, at |-> Top.at] /\ Place(cur) \in Places
    BY <1>2 DEF Place, Depth, Top, Places, Activations
  <1>5. new \in Activations /\ KernelTrap \in Sstatus
    BY <1>4 DEF Activations, Ats, KernelTrap, Sstatus
  <1>6. /\ Append(stack[cur], new) \in Seq(Activations)
        /\ Len(Append(stack[cur], new)) = Depth + 1
        /\ Append(stack[cur], new)[Depth + 1] = new
        /\ \A d \in 1 .. Depth : Append(stack[cur], new)[d] = stack[cur][d]
    BY <1>2, <1>5
  <1> HIDE DEF new
  <1>7. stack' = [stack EXCEPT ![cur] = Append(stack[cur], new)]
    BY DEF Interrupt, new
  <1>8. /\ stack' \in [Contexts -> Seq(Activations)]
        /\ \A c \in Contexts : c # cur => stack'[c] = stack[c]
        /\ Len(stack'[cur]) = Depth + 1 /\ stack'[cur][Depth + 1] = new
        /\ \A d \in 1 .. Depth : stack'[cur][d] = stack[cur][d]
    BY <1>2, <1>6, <1>7
  <1>9. \A c \in Contexts : Len(stack'[c]) \in 1 .. MaxDepth
    <2>1. Depth + 1 \in 1 .. MaxDepth
      BY <1>1, <1>2, TrapAssumption
    <2>2. \A c \in Contexts : c # cur => Len(stack'[c]) \in 1 .. MaxDepth
      BY <1>1, <1>8 DEF RegTypes
    <2> QED
      BY <1>8, <2>1, <2>2
  <1>10. LevelsOK'
    <2>1. ASSUME NEW c \in Contexts, NEW d \in 1 .. Len(stack'[c])
          PROVE  LevelOK(c, d, stack'[c][d])
      <3>1. CASE c # cur
        BY <1>1, <1>8, <3>1 DEF LevelsOK
      <3>2. CASE c = cur /\ d \in 1 .. Depth
        BY <1>1, <1>2, <1>8, <3>2 DEF LevelsOK
      <3>3. CASE c = cur /\ d = Depth + 1
        BY <1>2, <1>8, <3>3 DEF LevelOK, HandlerAts, new
      <3> QED
        BY <1>2, <1>8, <3>1, <3>2, <3>3
    <2> QED
      BY <2>1 DEF LevelsOK, LevelOK
  <1>11. BelowOK'
    <2>1. ASSUME NEW c \in Contexts, NEW d \in 1 .. Len(stack'[c]) - 1
          PROVE  /\ stack'[c][d].at \in OpenAts /\ (Quiet => stack'[c][d].at # "status")
                 /\ stack'[c][d + 1].epc = [c |-> c, d |-> d, at |-> stack'[c][d].at]
      <3>1. CASE c # cur
        BY <1>1, <1>8, <3>1 DEF BelowOK
      <3>2. CASE c = cur /\ d = Depth
        BY <1>1, <1>2, <1>3, <1>4, <1>8, <3>2 DEF Top, new
      <3>3. CASE c = cur /\ d # Depth
        <4>1. d \in 1 .. Len(stack[c]) - 1 /\ d \in 1 .. Depth /\ d + 1 \in 1 .. Depth
          BY <1>2, <1>8, <3>3
        <4>2. /\ stack[c][d].at \in OpenAts /\ (Quiet => stack[c][d].at # "status")
              /\ stack[c][d + 1].epc = [c |-> c, d |-> d, at |-> stack[c][d].at]
          BY <1>1, <4>1 DEF BelowOK
        <4>3. stack'[c][d] = stack[c][d] /\ stack'[c][d + 1] = stack[c][d + 1]
          BY <1>8, <3>3, <4>1
        <4> QED
          BY <4>2, <4>3
      <3> QED
        BY <3>1, <3>2, <3>3
    <2> QED
      BY <2>1 DEF BelowOK
  <1>12. AwayOK'
    BY <1>1, <1>8, TrapAssumption DEF AwayOK, Interrupt, Contexts, Procs
  <1>13. Top' = new
    BY <1>2, <1>8 DEF Top, Depth, Interrupt
  <1>14. RegTypes'
    BY <1>1, <1>4, <1>5, <1>8, <1>9 DEF RegTypes, Interrupt, Offs, UserCode
  <1>15. HeldAt(Top.at)'
    BY <1>1, <1>3, <1>13 DEF HeldAt, PlockAts, OpenAts, Interrupt, Offs, Locks, new
  <1>16. RegsAt(Top)' /\ mode' = "kernel"
    BY <1>1, <1>3, <1>13 DEF RegsAt, OpenAts, Interrupt, KernelTrap, new
  <1> QED
    BY <1>10, <1>11, <1>12, <1>14, <1>15, <1>16 DEF TrapInv

\* A handler's activation is above another one.
LEMMA HandlerIs ==
  ASSUME TrapInv, NEW s \in HandlerAts, At(s)
  PROVE  /\ Depth \in Nat /\ Depth \in 2 .. MaxDepth /\ Top.ret = "restore" /\ Top.sst = KernelTrap
         /\ cur # 0 => idx = cur
  <1>1. LevelOK(cur, Depth, Top) /\ Top.at = s /\ RegTypes /\ LevelsOK /\ AwayOK
    BY AtIs
  <1>2. Depth \in Nat /\ Depth \in 1 .. MaxDepth
    BY <1>1, TopIs
  <1> QED
    BY <1>1, <1>2, TrapAssumption DEF LevelOK, SchedAts, ProcAts, HandlerAts, AwayOK

\* The handler looks at the cause: it yields, or runs a driver.
LEMMA HandleStep ==
  ASSUME TrapInv, HandleTimer \/ HandleDevice
  PROVE  TrapInv'
  <1>1. /\ RegTypes /\ HeldAt("handler") /\ RegsAt(Top) /\ Top.at = "handler" /\ mode = "kernel"
        /\ Top.ret = "restore" /\ Top.sst = KernelTrap /\ Depth > 1 /\ (cur # 0 => idx = cur)
    BY AtIs, HandlerIs DEF HandleTimer, HandleDevice, HandlerAts
  <1>2. PICK s \in {"yield", "restore"} : Goto(s) /\ (cur # 0 \/ s = "restore")
    BY DEF HandleTimer, HandleDevice
  <1>3. LevelOK(cur, Depth, [at |-> s, ret |-> Top.ret, epc |-> Top.epc, sst |-> Top.sst])
    BY <1>1, <1>2 DEF LevelOK, HandlerAts, YieldAts
  <1>4. cur' = cur /\ idx' = idx
    BY DEF HandleTimer, HandleDevice
  <1>5. /\ LevelsOK' /\ BelowOK' /\ AwayOK'
        /\ stack' \in [Contexts -> Seq(Activations)]
        /\ \A c \in Contexts : Len(stack'[c]) \in 1 .. MaxDepth
        /\ Top' = [at |-> s, ret |-> Top.ret, epc |-> Top.epc, sst |-> Top.sst]
    BY <1>1, <1>2, <1>3, <1>4, MoveOn DEF Ats
  <1>6. intena' \in BOOLEAN /\ status' \in [Procs -> {"ready", "running", "sleeping"}]
    BY <1>1, DeviceTypes DEF RegTypes, HandleTimer, HandleDevice, Offs
  <1>7. RegTypes'
    BY <1>1, <1>5, <1>6 DEF RegTypes, HandleTimer, HandleDevice, regs, UserCode
  <1>8. HeldAt(Top.at)'
    BY <1>1, <1>2, <1>5 DEF HeldAt, PlockAts, HandleTimer, HandleDevice, Device, Offs, Locks
  <1>9. RegsAt(Top)' /\ mode' = "kernel"
    BY <1>1, <1>2, <1>5 DEF RegsAt, OpenAts, HandleTimer, HandleDevice, regs
  <1> QED
    BY <1>5, <1>7, <1>8, <1>9 DEF TrapInv

\* The handler writes back sepc.
LEMMA RestoreSepcStep ==
  ASSUME TrapInv, RestoreSepc
  PROVE  TrapInv'
  <1>1. /\ RegTypes /\ HeldAt("restore") /\ RegsAt(Top) /\ Top.at = "restore" /\ mode = "kernel"
        /\ Top.ret = "restore" /\ Top.sst = KernelTrap /\ Depth > 1 /\ (cur # 0 => idx = cur)
        /\ Top \in Activations
    BY AtIs, HandlerIs DEF RestoreSepc, HandlerAts
  <1>2. LevelOK(cur, Depth, [at |-> "status", ret |-> Top.ret, epc |-> Top.epc, sst |-> Top.sst])
    BY <1>1 DEF LevelOK, HandlerAts
  <1>3. /\ LevelsOK' /\ BelowOK' /\ AwayOK'
        /\ stack' \in [Contexts -> Seq(Activations)]
        /\ \A c \in Contexts : Len(stack'[c]) \in 1 .. MaxDepth
        /\ Top' = [at |-> "status", ret |-> Top.ret, epc |-> Top.epc, sst |-> Top.sst]
    BY <1>1, <1>2, MoveOn DEF RestoreSepc, Ats
  <1>4. sepc' = Top.epc /\ Top.epc \in Places
    BY <1>1 DEF RestoreSepc, Activations
  <1>5. RegTypes'
    BY <1>1, <1>3, <1>4 DEF RegTypes, RestoreSepc, Offs, UserCode
  <1>6. HeldAt(Top.at)'
    BY <1>1, <1>3 DEF HeldAt, PlockAts, RestoreSepc, Offs, Locks
  <1>7. RegsAt(Top)' /\ mode' = "kernel"
    BY <1>1, <1>3, <1>4 DEF RegsAt, OpenAts, RestoreSepc
  <1> QED
    BY <1>3, <1>5, <1>6, <1>7 DEF TrapInv

\* The handler writes back sstatus.
LEMMA RestoreSstatusStep ==
  ASSUME TrapInv, RestoreSstatus
  PROVE  TrapInv'
  <1>1. /\ RegTypes /\ HeldAt("status") /\ RegsAt(Top) /\ Top.at = "status" /\ mode = "kernel"
        /\ Top.ret = "restore" /\ Top.sst = KernelTrap /\ Depth > 1 /\ (cur # 0 => idx = cur)
    BY AtIs, HandlerIs DEF RestoreSstatus, HandlerAts
  <1>2. LevelOK(cur, Depth, [at |-> "sret", ret |-> Top.ret, epc |-> Top.epc, sst |-> Top.sst])
    BY <1>1 DEF LevelOK, HandlerAts
  <1>3. /\ LevelsOK' /\ BelowOK' /\ AwayOK'
        /\ stack' \in [Contexts -> Seq(Activations)]
        /\ \A c \in Contexts : Len(stack'[c]) \in 1 .. MaxDepth
        /\ Top' = [at |-> "sret", ret |-> Top.ret, epc |-> Top.epc, sst |-> Top.sst]
    BY <1>1, <1>2, MoveOn DEF RestoreSstatus, Ats
  <1>4. sstatus' = KernelTrap /\ KernelTrap \in Sstatus /\ ~KernelTrap.sie
    BY <1>1 DEF RestoreSstatus, KernelTrap, Sstatus
  <1>5. RegTypes'
    BY <1>1, <1>3, <1>4 DEF RegTypes, RestoreSstatus, Csrs, Offs, UserCode
  <1>6. HeldAt(Top.at)'
    BY <1>1, <1>3 DEF HeldAt, PlockAts, RestoreSstatus, Offs, Locks
  <1>7. RegsAt(Top)' /\ mode' = "kernel"
    BY <1>1, <1>3, <1>4 DEF RegsAt, RestoreSstatus, Csrs
  <1> QED
    BY <1>3, <1>5, <1>6, <1>7 DEF TrapInv

\* The activation below the handler goes on, at a point where interrupts may be on.
LEMMA HandlerSretStep ==
  ASSUME TrapInv, HandlerSret
  PROVE  TrapInv'
  <1> DEFINE rest == SubSeq(stack[cur], 1, Depth - 1)
  <1>1. /\ RegTypes /\ LevelsOK /\ BelowOK /\ AwayOK /\ HeldAt("sret") /\ RegsAt(Top)
        /\ Top.at = "sret" /\ mode = "kernel" /\ Depth \in Nat /\ Depth \in 2 .. MaxDepth
        /\ (cur # 0 => idx = cur) /\ cur \in Contexts
    BY AtIs, HandlerIs DEF HandlerSret, HandlerAts
  <1>2. /\ stack \in [Contexts -> Seq(Activations)] /\ stack[cur] \in Seq(Activations)
        /\ Depth = Len(stack[cur]) /\ Depth - 1 \in 1 .. Depth
    BY <1>1 DEF RegTypes, Depth
  <1>3. /\ rest \in Seq(Activations) /\ Len(rest) = Depth - 1
        /\ \A d \in 1 .. Depth - 1 : rest[d] = stack[cur][d]
    BY <1>1, <1>2
  <1> HIDE DEF rest
  <1>4. stack' = [stack EXCEPT ![cur] = rest]
    BY DEF HandlerSret, rest
  <1>5. /\ stack' \in [Contexts -> Seq(Activations)]
        /\ \A c \in Contexts : c # cur => stack'[c] = stack[c]
        /\ Len(stack'[cur]) = Depth - 1
        /\ \A d \in 1 .. Depth - 1 : stack'[cur][d] = stack[cur][d]
    BY <1>1, <1>2, <1>3, <1>4
  <1>6. \A c \in Contexts : Len(stack'[c]) \in 1 .. MaxDepth
    <2>1. Depth - 1 \in 1 .. MaxDepth
      BY <1>1, <1>2, TrapAssumption
    <2>2. \A c \in Contexts : c # cur => Len(stack'[c]) \in 1 .. MaxDepth
      BY <1>1, <1>5 DEF RegTypes
    <2> QED
      BY <1>5, <2>1, <2>2
  <1>7. LevelsOK'
    <2>1. ASSUME NEW c \in Contexts, NEW d \in 1 .. Len(stack'[c])
          PROVE  LevelOK(c, d, stack'[c][d])
      <3>1. CASE c # cur
        BY <1>1, <1>5, <3>1 DEF LevelsOK
      <3>2. CASE c = cur
        BY <1>1, <1>2, <1>5, <3>2 DEF LevelsOK
      <3> QED
        BY <3>1, <3>2
    <2> QED
      BY <2>1 DEF LevelsOK, LevelOK
  <1>8. BelowOK'
    <2>1. ASSUME NEW c \in Contexts, NEW d \in 1 .. Len(stack'[c]) - 1
          PROVE  /\ stack'[c][d].at \in OpenAts /\ (Quiet => stack'[c][d].at # "status")
                 /\ stack'[c][d + 1].epc = [c |-> c, d |-> d, at |-> stack'[c][d].at]
      <3>1. CASE c # cur
        BY <1>1, <1>5, <3>1 DEF BelowOK
      <3>2. CASE c = cur
        <4>1. d \in 1 .. Len(stack[c]) - 1 /\ d \in 1 .. Depth - 1 /\ d + 1 \in 1 .. Depth - 1
          BY <1>1, <1>2, <1>5, <3>2
        <4>2. /\ stack[c][d].at \in OpenAts /\ (Quiet => stack[c][d].at # "status")
              /\ stack[c][d + 1].epc = [c |-> c, d |-> d, at |-> stack[c][d].at]
          BY <1>1, <4>1 DEF BelowOK
        <4>3. stack'[c][d] = stack[c][d] /\ stack'[c][d + 1] = stack[c][d + 1]
          BY <1>5, <3>2, <4>1
        <4> QED
          BY <4>2, <4>3
      <3> QED
        BY <3>1, <3>2
    <2> QED
      BY <2>1 DEF BelowOK
  <1>9. AwayOK'
    BY <1>1, <1>5, TrapAssumption DEF AwayOK, HandlerSret, Contexts, Procs
  <1>10. Top'.at \in OpenAts /\ (Quiet => Top'.at # "status")
    <2>1. Top' = stack[cur][Depth - 1] /\ Depth - 1 \in 1 .. Len(stack[cur]) - 1
      BY <1>1, <1>2, <1>5 DEF Top, Depth, HandlerSret
    <2> QED
      BY <1>1, <2>1 DEF BelowOK
  <1>11. sstatus = KernelTrap /\ mode' = "kernel" /\ sstatus' \in Sstatus
    <2>1. sstatus = KernelTrap
      BY <1>1 DEF RegsAt
    <2>2. sstatus.spp = "kernel" /\ sstatus.spie = TRUE
      BY <2>1 DEF KernelTrap
    <2> QED
      BY <2>1, <2>2 DEF HandlerSret, Sret, Sstatus
  <1>12. RegTypes'
    BY <1>1, <1>5, <1>6, <1>11 DEF RegTypes, HandlerSret, Offs, UserCode
  <1>13. HeldAt(Top.at)'
    BY <1>1, <1>10 DEF HeldAt, PlockAts, OpenAts, HandlerSret, Offs, Locks
  <1>14. RegsAt(Top)'
    BY <1>1, <1>10 DEF RegsAt, OpenAts, HandlerSret
  <1> QED
    BY <1>7, <1>8, <1>9, <1>11, <1>12, <1>13, <1>14 DEF TrapInv

-----------------------------------------------------------------------------
(* The theorems. *)

\* The invariant holds at first.
LEMMA TrapInit ==
  ASSUME Init
  PROVE  TrapInv
  <1>1. /\ NoPlace \in Places /\ KernelTrap \in Sstatus
        /\ [sie |-> FALSE, spie |-> FALSE, spp |-> "user"] \in Sstatus
    BY TrapAssumption DEF NoPlace, Places, Contexts, KernelTrap, Sstatus
  <1>2. Fresh("loop") \in Activations /\ Fresh("forkret") \in Activations
    BY <1>1 DEF Fresh, Activations, Ats
  <1>3. /\ stack \in [Contexts -> Seq(Activations)]
        /\ \A c \in Contexts : /\ Len(stack[c]) = 1
                                /\ stack[c][1] = Fresh(IF c = 0 THEN "loop" ELSE "forkret")
    BY <1>2 DEF Init
  <1>4. 0 \in Contexts /\ 1 \in Procs /\ 1 \in 1 .. MaxDepth
        /\ \A p \in Procs : p \in Contexts /\ p # 0
    BY TrapAssumption DEF Contexts, Procs
  <1>5. RegTypes
    <2>1. intena \in BOOLEAN
      BY DEF Init
    <2>2. sstatus \in Sstatus
      BY <1>1 DEF Init
    <2>3. status \in [Procs -> {"ready", "running", "sleeping"}]
      BY DEF Init
    <2> QED
      BY <1>1, <1>3, <1>4, <2>1, <2>2, <2>3 DEF RegTypes, Init
  <1>6. LevelsOK
    <2>1. ASSUME NEW c \in Contexts
          PROVE  LevelOK(c, 1, Fresh(IF c = 0 THEN "loop" ELSE "forkret"))
      BY DEF LevelOK, Fresh, SchedAts, ProcAts
    <2>2. ASSUME NEW c \in Contexts, NEW d \in 1 .. Len(stack[c])
          PROVE  d = 1
      <3>1. Len(stack[c]) = 1
        BY <1>3
      <3> QED
        BY <3>1
    <2> QED
      BY <1>3, <2>1, <2>2 DEF LevelsOK
  <1>7. BelowOK
    BY <1>3 DEF BelowOK
  <1>8. AwayOK
    BY <1>3, <1>4 DEF AwayOK, Init, Fresh
  <1>9. Top.at = "loop" /\ mode = "kernel"
    BY <1>3, <1>4 DEF Top, Depth, Init, Fresh
  <1>10. HeldAt(Top.at) /\ RegsAt(Top)
    BY <1>9 DEF HeldAt, RegsAt, PlockAts, OpenAts, Init
  <1> QED
    BY <1>5, <1>6, <1>7, <1>8, <1>9, <1>10 DEF TrapInv

\* The invariant: whatever the interleaving of interrupts, nested handlers and switches,
\* each activation stands where its level allows, the contexts that do not run stand right
\* after swtch, and the locks, sstatus, sepc and stvec are what the running point needs.
THEOREM TrapInvariant == Spec => []TrapInv
  <1>1. Init => TrapInv
    BY TrapInit
  <1>2. TrapInv /\ [Next]_vars => TrapInv'
    <2> SUFFICES ASSUME TrapInv, [Next]_vars
                 PROVE  TrapInv'
      OBVIOUS
    <2>1. CASE Code
      BY <2>1, LoopStep, ScanStep, SwitchStep, BackStep, YieldStep, SleepStep, SleepSwapStep,
         SchedStep, ResumedStep, ForkretStep, SysAcquireStep, SysReleaseStep, SysYieldStep,
         SysReturnStep, UsertrapretStep, RetVectorStep, RetCsrsStep, UserretStep DEF Code
    <2>2. CASE Handler
      BY <2>2, HandleStep, RestoreSepcStep, RestoreSstatusStep, HandlerSretStep DEF Handler
    <2>3. CASE Interrupt
      BY <2>3, InterruptStep
    <2>4. CASE \E cause \in {"ecall", "timer", "device"} : UserTrap(cause)
      BY <2>4, UserTrapStep
    <2>5. CASE UNCHANGED vars
      BY <2>5 DEF vars, regs, TrapInv, RegTypes, LevelsOK, LevelOK, BelowOK, AwayOK, HeldAt,
         RegsAt, UserOK, Top, Depth, UserCode
    <2> QED
      BY <2>1, <2>2, <2>3, <2>4, <2>5 DEF Next
  <1> QED
    BY <1>1, <1>2, PTL DEF Spec

\* Interrupts are off while the hart holds a spinlock, and noff counts the locks it holds.
THEOREM TrapLocks == Spec => []LocksMaskInterrupts
  <1>1. ASSUME TrapInv
        PROVE  LocksMaskInterrupts
    <2>1. RegTypes /\ LevelsOK /\ AwayOK /\ HeldAt(Top.at)
      BY <1>1 DEF TrapInv
    <2>2. LevelOK(cur, Depth, Top) /\ cur \in Contexts
      BY <2>1, TopIs
    <2>3. noff > 0 => ~sstatus.sie
      <3>1. CASE mode = "kernel"
        BY <1>1, <3>1 DEF TrapInv, HeldAt, RegsAt, PlockAts, OpenAts
      <3>2. CASE mode = "user"
        BY <1>1, <3>2 DEF TrapInv, UserOK, HeldAt, PlockAts
      <3> QED
        BY <2>1, <3>1, <3>2 DEF RegTypes
    <2>4. /\ Cardinality({}) = 0 /\ Cardinality({idx}) = 1 /\ Cardinality({cur}) = 1
          /\ {0} \ {0} = {} /\ (cur # 0 => {cur} \ {0} = {cur})
      BY FS_EmptySet, FS_Singleton
    <2>5. Top.at \in {"locked", "swap"} => cur # 0
      BY <2>2 DEF LevelOK, SchedAts, HandlerAts, YieldAts
    <2>6. noff = Cardinality(plock) + Cardinality({klock} \ {0})
      BY <2>1, <2>4, <2>5 DEF HeldAt, PlockAts
    <2> QED
      BY <2>3, <2>6 DEF LocksMaskInterrupts
  <1> QED
    BY <1>1, TrapInvariant, PTL

\* acquire never meets a lock that is taken: nobody spins for ever on the only hart.
THEOREM TrapNoSpin == Spec => []LocksAreFree
  <1>1. TrapInv => LocksAreFree
    BY DEF TrapInv, LocksAreFree, Running, HeldAt, PlockAts
  <1> QED
    BY <1>1, TrapInvariant, PTL

\* A trap always finds the vector of the mode it comes from.
THEOREM TrapVector == Spec => []VectorMatchesMode
  <1>1. TrapInv => VectorMatchesMode
    BY DEF TrapInv, VectorMatchesMode, RegsAt, UserOK, OpenAts
  <1> QED
    BY <1>1, TrapInvariant, PTL

\* If no interrupt comes between the handler's writes of sepc and sstatus, handlers return
\* to what they interrupted and system calls to the user code of their process.
THEOREM TrapReturns ==
  ASSUME Quiet
  PROVE  Spec => []ReturnsToInterrupted
  <1>1. ASSUME TrapInv
        PROVE  ReturnsToInterrupted
    <2>1. CASE Running("sret")
      <3>1. At("sret") /\ "sret" \in HandlerAts
        BY <2>1 DEF Running, At, HandlerAts
      <3>2. RegsAt(Top) /\ Top.at = "sret" /\ Top.sst = KernelTrap
        BY <1>1, <3>1, AtIs, HandlerIs
      <3> QED
        BY <3>2 DEF RegsAt, ReturnsToInterrupted, Running
    <2>2. CASE ~Running("sret")
      BY <1>1, <2>2 DEF TrapInv, ReturnsToInterrupted, Running, RegsAt
    <2> QED
      BY <2>1, <2>2
  <1> QED
    BY <1>1, TrapInvariant, PTL

\* The place a handler returns to is the point of the activation below it.
ReturnsBelow ==
  Running("sret") => sepc = [c |-> cur, d |-> Depth - 1, at |-> stack[cur][Depth - 1].at]

\* So a nested handler resumes exactly the code that was interrupted, on its own stack.
THEOREM TrapReturnsBelow ==
  ASSUME Quiet
  PROVE  Spec => []ReturnsBelow
  <1>1. ASSUME TrapInv, Running("sret")
        PROVE  sepc = [c |-> cur, d |-> Depth - 1, at |-> stack[cur][Depth - 1].at]
    <2>1. At("sret") /\ "sret" \in HandlerAts
      BY <1>1 DEF Running, At, HandlerAts
    <2>2. RegsAt(Top) /\ BelowOK /\ Top.at = "sret" /\ cur \in Contexts
      BY <1>1, <2>1, AtIs
    <2>3. Depth \in Nat /\ Depth >= 2
      BY <1>1, <2>1, HandlerIs
    <2>4. PICK e \in Nat : e = Depth - 1
      BY <2>3
    <2>5. e \in 1 .. Len(stack[cur]) - 1 /\ e + 1 = Depth
      BY <2>3, <2>4 DEF Depth
    <2>6. stack[cur][e + 1].epc = [c |-> cur, d |-> e, at |-> stack[cur][e].at]
      BY <2>2, <2>5 DEF BelowOK
    <2> QED
      BY <2>2, <2>4, <2>5, <2>6 DEF RegsAt, Top
  <1>2. TrapInv => ReturnsBelow
    BY <1>1 DEF ReturnsBelow
  <1> QED
    BY <1>2, TrapInvariant, PTL

\* The variables have their types; noff is at most 2.
THEOREM TrapTypes == Spec => []TypeOK
  <1>1. ASSUME TrapInv
        PROVE  TypeOK
    <2>1. RegTypes /\ LevelsOK /\ AwayOK /\ HeldAt(Top.at)
      BY <1>1 DEF TrapInv
    <2>2. LevelOK(cur, Depth, Top) /\ cur \in Contexts
      BY <2>1, TopIs
    <2>3. Top.at \in {"locked", "swap"} => cur \in Procs
      BY <2>2, TrapAssumption DEF LevelOK, SchedAts, HandlerAts, YieldAts, Contexts, Procs
    <2>4. noff \in 0 .. 2 /\ plock \subseteq Procs /\ klock \in Contexts
      BY <2>1, <2>2, <2>3, TrapAssumption DEF HeldAt, RegTypes, Contexts
    <2>5. \A c \in Contexts : \A d \in 1 .. Len(stack[c]) : stack[c][d] \in Activations
      BY <2>1 DEF RegTypes
    <2>6. tepc \in [Procs -> Places]
      BY <2>1, TrapAssumption DEF RegTypes, UserCode, Places, Contexts, Procs
    <2>7. \A c \in Contexts : Len(stack[c]) \in 1 .. MaxDepth
      BY <2>1 DEF RegTypes
    <2>8. sstatus \in Sstatus /\ intena \in BOOLEAN
      BY <2>1 DEF RegTypes
    <2> QED
      BY <2>1, <2>4, <2>5, <2>6, <2>7, <2>8 DEF TypeOK, RegTypes, Activations
  <1> QED
    BY <1>1, TrapInvariant, PTL

=============================================================================
