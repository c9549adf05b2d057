---------------------------- MODULE MemoryProofs ----------------------------
(***************************************************************************)
(* Proofs about module Memory, for every number of processes and pages and *)
(* every page size, where kalloc is not preempted (Serial).                *)
(*                                                                         *)
(* Ownership is a matter of sets of pages: the free list, what each slot   *)
(* of the process table holds, and what each system call has in its hands. *)
(* A step takes pages from one of these sets and puts them into another,   *)
(* and OwnersMove says that such a step keeps them apart.                  *)
(***************************************************************************)
EXTENDS Memory, FiniteSetTheorems, TLAPS

\* Records of mem and loc.
Mems == [tf : 0 .. NPAGE, kstack : 0 .. NPAGE, as : SpaceType]
Locals ==
  [job : {"none", "fork", "exec", "grow"}, np : 0 .. NPROC, tmp : SUBSET Pages, as : SpaceType,
   v : 0 .. Up(MaxSz), end : 0 .. MaxSz, hold : 0 .. NPAGE, res : 0 .. NPAGE, pg : 0 .. None]

\* The types.
MemTypes ==
  /\ free \subseteq Pages /\ lost \subseteq Pages
  /\ status \in [Procs -> {"free", "alloc", "used", "zombie"}]
  /\ mem \in [Procs -> Mems] /\ loc \in [Procs -> Locals]
  /\ pc \in [Procs -> Asking \cup {"idle", "next", "panic"}]

\* The pages of an address space are all different.
SpaceOK(as) ==
  /\ as.root \notin as.tables
  /\ \A v \in VPages : as.map[v] # 0 => as.map[v] # as.root /\ as.map[v] \notin as.tables
  /\ \A v, w \in VPages : as.map[v] = as.map[w] /\ as.map[v] # 0 => v = w

\* So are those of a slot.
MemOK(m) ==
  /\ SpaceOK(m.as)
  /\ m.tf # 0 => m.tf # m.kstack /\ m.tf \notin SpacePages(m.as)
  /\ m.kstack # 0 => m.kstack \notin SpacePages(m.as)

\* What a system call with locals l has in its hands, beside the address space as that its
\* process has, and that these are different pages.
Fresh(l, as) == SpacePages(l.as) \ (IF l.job = "grow" THEN SpacePages(as) ELSE {})
Hand(l, as) == l.tmp \cup ({l.hold, l.pg} \ {0, None}) \cup Fresh(l, as)
HandOK(l, as) ==
  /\ SpaceOK(l.as)
  /\ l.tmp \cap Fresh(l, as) = {}
  /\ l.hold # 0 => l.hold \notin l.tmp \cup Fresh(l, as) /\ l.hold # l.pg
  /\ l.pg \notin {0, None} => l.pg \notin l.tmp \cup Fresh(l, as)
  /\ l.job = "grow" =>
       /\ l.as.root = as.root /\ as.tables \subseteq l.as.tables /\ l.as.holes = as.holes
       /\ \A u \in VPages : u < Up(as.sz) => l.as.map[u] = as.map[u]

\* What a call has reached determines what it has.
CallOK(p) ==
  LET l == loc[p] IN
  /\ pc[p] \in {"idle", "panic"} <=> l.job = "none"
  /\ pc[p] \in {"idle", "panic"} => l = NoLocals
  /\ pc[p] # "idle" => status[p] = "used"
  /\ pc[p] \in {"tf", "kstack"} => l.job = "fork"
  /\ pc[p] = "arg" => l.job = "exec"
  /\ pc[p] \in {"root", "high", "trap"} => l.job # "grow"
  /\ l.job # "exec" => l.tmp = {}
  /\ pc[p] = "arg" => l.tmp = {}
  /\ pc[p] = "low" <=> l.hold # 0
  /\ pc[p] \notin Asking => l.pg = 0 /\ l.res = 0
  /\ pc[p] \in {"tf", "kstack", "arg", "root"} => SpacePages(l.as) = {}
  /\ pc[p] = "high" => SpacePages(l.as) = {l.as.root}
  /\ pc[p] \in {"page", "low"} =>
       /\ l.v < Up(l.end)
       /\ l.job = "fork" => l.v \in Mapped(mem[p].as)
       /\ l.job # "fork" => l.v \notin l.as.holes
  /\ l.res # 0 => l.pg = 0
  /\ l.job = "exec" => l.end = ImagePages * PGSIZE
  /\ l.job = "fork" =>
       /\ l.np \in Procs /\ l.np # p /\ status[l.np] = "alloc" /\ l.end = mem[p].as.sz
       /\ SpacePages(mem[l.np].as) = {}
       /\ pc[p] = "tf" => mem[l.np].tf = 0
       /\ pc[p] \in {"tf", "kstack"} => mem[l.np].kstack = 0

\* Which pages the address space under way has mapped.
Progress(p) ==
  LET l == loc[p] IN
  /\ l.job = "fork" => Mapped(l.as) = {u \in Mapped(mem[p].as) : u < l.v}
  /\ l.job = "exec" =>
       /\ Mapped(l.as) = {u \in VPages : u < l.v} \ l.as.holes
       /\ l.v <= ImagePages /\ \A u \in l.as.holes : u < ImagePages
  /\ l.job = "grow" =>
       /\ Mapped(l.as) = {u \in VPages : u < l.v} \ l.as.holes
       /\ Up(mem[p].as.sz) <= l.v /\ l.v <= Up(l.end)

\* A process has mapped the pages up to its size but the holes of its image, unless it has
\* panicked, which takes a hole; and a free slot has nothing.
SlotOK(p) ==
  /\ status[p] = "free" => mem[p] = NoMem
  /\ status[p] = "used" =>
       /\ \A v \in mem[p].as.holes : v < Up(mem[p].as.sz)
       /\ pc[p] # "panic" =>
            Mapped(mem[p].as) = {v \in VPages : v < Up(mem[p].as.sz)} \ mem[p].as.holes
       /\ pc[p] = "panic" => mem[p].as.holes # {}

\* Two forks under way have different children.
ChildrenDiffer ==
  \A p, q \in Procs : loc[p].job = "fork" /\ loc[q].job = "fork" /\ loc[p].np = loc[q].np => p = q

\* At most one process is inside kalloc, and the head it has read is the head still.
OneInKalloc ==
  \A p \in Procs : loc[p].res # 0 =>
    /\ free # {} /\ loc[p].res = Head
    /\ \A q \in Procs : loc[q].res # 0 => q = p

\* No page is in two of the sets.
Apart ==
  \A p \in Procs :
    /\ free \cap MemPages(mem[p]) = {} /\ free \cap LocalPages(p) = {}
    /\ \A q \in Procs :
         /\ MemPages(mem[p]) \cap LocalPages(q) = {}
         /\ p # q => /\ MemPages(mem[p]) \cap MemPages(mem[q]) = {}
                     /\ LocalPages(p) \cap LocalPages(q) = {}

\* Within a slot and within the hands of a call, pages differ.
Inside == \A p \in Procs : MemOK(mem[p]) /\ HandOK(loc[p], mem[p].as)

\* The inductive invariant.
MemInv ==
  /\ MemTypes /\ Inside /\ ChildrenDiffer /\ OneInKalloc /\ Apart /\ NoOtherLeak
  /\ \A p \in Procs : CallOK(p) /\ Progress(p) /\ SlotOK(p)

-----------------------------------------------------------------------------
(* Sizes and pages. *)

\* What PGROUNDUP computes: the number k of pages with (k - 1) * PGSIZE < sz <= k * PGSIZE.
LEMMA UpIs ==
  ASSUME NEW sz \in Nat
  PROVE  /\ Up(sz) \in Nat
         /\ PGSIZE * Up(sz) >= sz /\ PGSIZE * Up(sz) < sz + PGSIZE
  <1>1. PGSIZE \in Nat \ {0} /\ sz + PGSIZE - 1 \in Nat
    BY MemoryAssumption
  <1>2. PICK x \in Nat : x = sz + PGSIZE - 1
    BY <1>1
  <1>3. PICK k \in Int : k = x \div PGSIZE
    BY <1>1, <1>2
  <1>4. x = PGSIZE * k + (x % PGSIZE) /\ x % PGSIZE \in 0 .. PGSIZE - 1
    BY <1>1, <1>2, <1>3
  <1>5. k >= 0
    <2>1. k <= -1 => PGSIZE * k <= -PGSIZE
      BY <1>1
    <2> QED
      BY <1>1, <1>2, <1>4, <2>1
  <1>6. Up(sz) = k
    BY <1>2, <1>3 DEF Up
  <1> QED
    BY <1>1, <1>2, <1>4, <1>5, <1>6

\* PGROUNDUP is monotone.
LEMMA UpMono ==
  ASSUME NEW a \in Nat, NEW b \in Nat, a <= b
  PROVE  Up(a) <= Up(b)
  <1>1. PGSIZE \in Nat \ {0}
    BY MemoryAssumption
  <1>2. PICK j \in Nat : j = Up(a) /\ PGSIZE * j < a + PGSIZE
    BY UpIs
  <1>3. PICK k \in Nat : k = Up(b) /\ PGSIZE * k >= b
    BY UpIs
  <1>4. SUFFICES ASSUME j >= k + 1 PROVE FALSE
    BY <1>2, <1>3
  <1>5. PICK d \in Nat : j = k + 1 + d
    BY <1>4
  <1>6. PGSIZE * j = PGSIZE * k + PGSIZE + PGSIZE * d /\ PGSIZE * d >= 0
    BY <1>1, <1>5
  <1>7. PICK x \in Nat, y \in Nat, z \in Nat : x = PGSIZE * j /\ y = PGSIZE * k /\ z = PGSIZE * d
    BY <1>1
  <1> QED
    BY <1>1, <1>2, <1>3, <1>6, <1>7

\* A whole number of pages rounds to itself.
LEMMA UpWhole ==
  ASSUME NEW k \in Nat
  PROVE  Up(k * PGSIZE) = k /\ k * PGSIZE \in Nat
  <1>1. PGSIZE \in Nat \ {0} /\ k * PGSIZE \in Nat
    BY MemoryAssumption
  <1>2. PICK j \in Nat : j = Up(k * PGSIZE) /\ PGSIZE * j >= k * PGSIZE /\ PGSIZE * j < k * PGSIZE + PGSIZE
    BY <1>1, UpIs
  <1>3. CASE j >= k + 1
    <2>1. PICK d \in Nat : j = k + 1 + d
      BY <1>3
    <2>2. PGSIZE * j = k * PGSIZE + PGSIZE + PGSIZE * d /\ PGSIZE * d >= 0
      BY <1>1, <2>1
    <2>3. PICK x \in Nat, y \in Nat, z \in Nat : x = PGSIZE * j /\ y = k * PGSIZE /\ z = PGSIZE * d
      BY <1>1
    <2> QED
      BY <1>1, <1>2, <2>2, <2>3
  <1>4. CASE k >= j + 1
    <2>1. PICK d \in Nat : k = j + 1 + d
      BY <1>4
    <2>2. k * PGSIZE = PGSIZE * j + PGSIZE + PGSIZE * d /\ PGSIZE * d >= 0
      BY <1>1, <2>1
    <2>3. PICK x \in Nat, y \in Nat, z \in Nat : x = PGSIZE * j /\ y = k * PGSIZE /\ z = PGSIZE * d
      BY <1>1
    <2> QED
      BY <1>1, <1>2, <2>2, <2>3
  <1>5. j = k
    BY <1>2, <1>3, <1>4
  <1> QED
    BY <1>1, <1>2, <1>5

\* Virtual pages below the size of a process are within the bound.
LEMMA BelowSize ==
  /\ Up(MaxSz) \in Nat
  /\ \A sz \in 0 .. MaxSz : Up(sz) \in Nat /\ Up(sz) <= Up(MaxSz)
  /\ \A sz \in 0 .. MaxSz : \A v \in Nat : v < Up(sz) => v \in VPages /\ v + 1 \in 0 .. Up(MaxSz)
  /\ Up(2 * PGSIZE) = 2 /\ 2 * PGSIZE \in 0 .. MaxSz
  /\ Up(ImagePages * PGSIZE) = ImagePages /\ ImagePages * PGSIZE \in 0 .. MaxSz /\ ImagePages \in Nat
  <1>1. MaxSz \in Nat /\ PGSIZE \in Nat /\ 2 * PGSIZE \in 0 .. MaxSz /\ ImagePages \in Nat
    BY MemoryAssumption
  <1>2. /\ Up(MaxSz) \in Nat /\ Up(2 * PGSIZE) = 2
        /\ Up(ImagePages * PGSIZE) = ImagePages /\ ImagePages * PGSIZE \in 0 .. MaxSz
    BY <1>1, UpIs, UpWhole, MemoryAssumption
  <1>3. ASSUME NEW sz \in 0 .. MaxSz
        PROVE  Up(sz) \in Nat /\ Up(sz) <= Up(MaxSz)
    <2>1. sz \in Nat /\ sz <= MaxSz
      BY <1>1
    <2> QED
      BY <1>1, <2>1, UpIs, UpMono
  <1>4. ASSUME NEW sz \in 0 .. MaxSz, NEW v \in Nat, v < Up(sz)
        PROVE  v \in VPages /\ v + 1 \in 0 .. Up(MaxSz)
    BY <1>2, <1>3, <1>4 DEF VPages
  <1> QED
    BY <1>1, <1>2, <1>3, <1>4

\* The pages of an address space.
LEMMA SpaceIs ==
  ASSUME NEW as \in SpaceType
  PROVE  /\ SpacePages(as) \subseteq Pages
         /\ \A g : g \in SpacePages(as) <=>
              g # 0 /\ (g = as.root \/ g \in as.tables \/ \E v \in VPages : g = as.map[v])
         /\ Mapped(as) \subseteq VPages
         /\ \A v \in VPages : v \in Mapped(as) <=> as.map[v] # 0
  <1>1. as.root \in 0 .. NPAGE /\ as.tables \subseteq Pages /\ as.map \in [VPages -> 0 .. NPAGE]
    BY DEF SpaceType
  <1>2. \A g : g \in SpacePages(as) <=>
              g # 0 /\ (g = as.root \/ g \in as.tables \/ \E v \in VPages : g = as.map[v])
    BY DEF SpacePages
  <1>3. NPAGE \in Nat
    BY MemoryAssumption
  <1>4. ASSUME NEW g \in SpacePages(as)
        PROVE  g \in Pages
    <2>1. g # 0 /\ (g = as.root \/ g \in as.tables \/ \E v \in VPages : g = as.map[v])
      BY <1>2
    <2>2. g \in as.tables \/ g \in 0 .. NPAGE
      BY <1>1, <2>1
    <2>3. g \in 0 .. NPAGE => g \in Pages
      BY <1>3, <2>1 DEF Pages
    <2> QED
      BY <1>1, <2>2, <2>3
  <1> QED
    BY <1>2, <1>4 DEF Mapped

-----------------------------------------------------------------------------
(* Steps.  A step is one of process p; it changes the locals of p, and the slot a, which *)
(* is p's or one that no other call works on.                                            *)

\* Only p's call and slot a change.
Changed(p, a) ==
  /\ loc' \in [Procs -> Locals] /\ \A q \in Procs : q # p => loc'[q] = loc[q]
  /\ mem' \in [Procs -> Mems] /\ \A q \in Procs : q # a => mem'[q] = mem[q]
  /\ pc' \in [Procs -> Asking \cup {"idle", "next", "panic"}] /\ \A q \in Procs : q # p => pc'[q] = pc[q]
  /\ status' \in [Procs -> {"free", "alloc", "used", "zombie"}]
  /\ \A q \in Procs : q # a => status'[q] = status[q]
  /\ free' \subseteq Pages /\ lost' \subseteq Pages

\* No other call works on slot a.
Alone(p, a) ==
  /\ a = p \/ pc[a] = "idle"
  /\ \A q \in Procs : q # p /\ loc[q].job = "fork" => loc[q].np # a

\* The step moves pages between the free list, the slot and the hands of p, keeps these
\* apart, and records the pages it loses.
Moves(p, a) ==
  LET mine == Hand(loc'[p], mem'[p].as) IN
  /\ free' \cup MemPages(mem'[a]) \cup mine
       \subseteq free \cup MemPages(mem[a]) \cup Hand(loc[p], mem[p].as)
  /\ free \cup MemPages(mem[a]) \cup Hand(loc[p], mem[p].as)
       \subseteq free' \cup MemPages(mem'[a]) \cup mine \cup lost'
  /\ lost \subseteq lost'
  /\ free' \cap MemPages(mem'[a]) = {} /\ free' \cap mine = {}
  /\ MemPages(mem'[a]) \cap mine = {}

\* What the calls of the other processes have is not touched.
LEMMA OthersKeep ==
  ASSUME MemInv, NEW p \in Procs, NEW a \in Procs, Changed(p, a), Alone(p, a),
         NEW q \in Procs, q # p
  PROVE  /\ LocalPages(q)' = LocalPages(q)
         /\ HandOK(loc'[q], mem'[q].as)
         /\ CallOK(q)' /\ Progress(q)'
  <1>1. loc'[q] = loc[q] /\ pc'[q] = pc[q] /\ CallOK(q) /\ Progress(q) /\ HandOK(loc[q], mem[q].as)
    BY DEF Changed, MemInv, Inside
  <1>2. CASE q # a
    <2>1. mem'[q] = mem[q] /\ status'[q] = status[q]
      BY <1>2 DEF Changed
    <2>2. loc[q].job = "fork" => loc[q].np \in Procs /\ mem'[loc[q].np] = mem[loc[q].np]
                               /\ status'[loc[q].np] = status[loc[q].np]
      BY <1>1 DEF Alone, Changed, CallOK
    <2>3. LocalPages(q)' = LocalPages(q) /\ HandOK(loc'[q], mem'[q].as)
      BY <1>1, <2>1 DEF LocalPages
    <2>4. CallOK(q)'
      BY <1>1, <2>1, <2>2 DEF CallOK
    <2>5. Progress(q)'
      BY <1>1, <2>1 DEF Progress
    <2> QED
      BY <2>3, <2>4, <2>5
  <1>3. CASE q = a
    <2>1. pc[q] = "idle" /\ loc[q].job = "none"
      BY <1>1, <1>3 DEF Alone, CallOK
    <2>2. LocalPages(q)' = LocalPages(q) /\ HandOK(loc'[q], mem'[q].as)
      BY <1>1, <2>1 DEF LocalPages, HandOK, Fresh
    <2>3. CallOK(q)' /\ Progress(q)'
      BY <1>1, <2>1 DEF CallOK, Progress
    <2> QED
      BY <2>2, <2>3
  <1> QED
    BY <1>2, <1>3

\* Moving pages between the sets of one call keeps the sets of all apart and loses nothing
\* that is not recorded.
LEMMA OwnersMove ==
  ASSUME MemInv, NEW p \in Procs, NEW a \in Procs, Changed(p, a), Alone(p, a), Moves(p, a)
  PROVE  Apart' /\ NoOtherLeak'
  <1> DEFINE M(q) == MemPages(mem[q])
             L(q) == LocalPages(q)
             N(q) == MemPages(mem'[q])
             K(q) == LocalPages(q)'
  <1>1. L(p) = Hand(loc[p], mem[p].as) /\ K(p) = Hand(loc'[p], mem'[p].as)
    BY DEF LocalPages, Hand, Fresh
  <1>2. \A q \in Procs : q # p => K(q) = L(q)
    BY OthersKeep
  <1>3. \A q \in Procs : q # a => N(q) = M(q)
    BY DEF Changed
  <1>4. /\ free' \cup N(a) \cup K(p) \subseteq free \cup M(a) \cup L(p)
        /\ free \cup M(a) \cup L(p) \subseteq free' \cup N(a) \cup K(p) \cup lost'
        /\ lost \subseteq lost'
        /\ free' \cap N(a) = {} /\ free' \cap K(p) = {} /\ N(a) \cap K(p) = {}
    BY <1>1 DEF Moves
  <1>5. \A q \in Procs :
          /\ free \cap M(q) = {} /\ free \cap L(q) = {}
          /\ \A r \in Procs : /\ M(q) \cap L(r) = {}
                              /\ q # r => M(q) \cap M(r) = {} /\ L(q) \cap L(r) = {}
    BY DEF MemInv, Apart
  <1>6. Pages = free \cup lost \cup UNION {M(q) \cup L(q) : q \in Procs}
    BY DEF MemInv, NoOtherLeak
  <1>7. free' \subseteq Pages /\ lost' \subseteq Pages
    BY DEF Changed
  <1> HIDE DEF M, L, N, K
  <1>8. \A q \in Procs :
          /\ free' \cap N(q) = {} /\ free' \cap K(q) = {}
          /\ \A r \in Procs : /\ N(q) \cap K(r) = {}
                              /\ q # r => N(q) \cap N(r) = {} /\ K(q) \cap K(r) = {}
    <2> TAKE q \in Procs
    <2>1. free' \cap N(q) = {} /\ free' \cap K(q) = {}
      BY <1>2, <1>3, <1>4, <1>5
    <2>2. ASSUME NEW r \in Procs
          PROVE  N(q) \cap K(r) = {}
      BY <1>2, <1>3, <1>4, <1>5
    <2>3. ASSUME NEW r \in Procs, q # r
          PROVE  N(q) \cap N(r) = {}
      BY <1>3, <1>4, <1>5, <2>3
    <2>4. ASSUME NEW r \in Procs, q # r
          PROVE  K(q) \cap K(r) = {}
      BY <1>2, <1>4, <1>5, <2>4
    <2> QED
      BY <2>1, <2>2, <2>3, <2>4
  <1>9. Apart'
    BY <1>8 DEF Apart, N, K
  <1>10. Pages = free' \cup lost' \cup UNION {N(q) \cup K(q) : q \in Procs}
    <2>1. ASSUME NEW g \in Pages
          PROVE  g \in free' \cup lost' \cup UNION {N(q) \cup K(q) : q \in Procs}
      <3>1. CASE g \in free \cup lost \cup M(a) \cup L(p)
        BY <1>4, <3>1
      <3>2. CASE \E q \in Procs : g \in M(q) /\ q # a
        BY <1>3, <3>2
      <3>3. CASE \E q \in Procs : g \in L(q) /\ q # p
        BY <1>2, <3>3
      <3> QED
        BY <1>6, <3>1, <3>2, <3>3
    <2>2. ASSUME NEW q \in Procs, NEW g \in N(q) \cup K(q)
          PROVE  g \in Pages
      <3>1. M(q) \cup L(q) \subseteq Pages /\ free \cup M(a) \cup L(p) \subseteq Pages
        BY <1>6
      <3> QED
        BY <1>2, <1>3, <1>4, <3>1
    <2> QED
      BY <1>7, <2>1, <2>2
  <1>11. NoOtherLeak'
    BY <1>10 DEF NoOtherLeak, N, K
  <1> QED
    BY <1>9, <1>11

\* Inside of the next state.
LEMMA InsideIs ==
  ASSUME \A q \in Procs : MemOK(mem'[q]), \A q \in Procs : HandOK(loc'[q], mem'[q].as)
  PROVE  Inside'
  <1>1. ASSUME NEW q \in Procs
        PROVE  MemOK(mem[q])'
    BY DEF MemOK, SpaceOK, SpacePages
  <1>2. ASSUME NEW q \in Procs
        PROVE  HandOK(loc[q], mem[q].as)'
    BY DEF HandOK, SpaceOK, Fresh, SpacePages
  <1> QED
    BY <1>1, <1>2 DEF Inside

\* What is left to show of a step that moves pages.
LEMMA StepKeeps ==
  ASSUME MemInv, NEW p \in Procs, NEW a \in Procs, Changed(p, a), Alone(p, a), Moves(p, a),
         MemOK(mem'[a]), HandOK(loc'[p], mem'[p].as),
         CallOK(p)', Progress(p)', SlotOK(a)', a # p => pc[p] # "panic" /\ pc'[p] # "panic",
         loc'[p].job = "fork" =>
           \A q \in Procs : q # p /\ loc[q].job = "fork" => loc[q].np # loc'[p].np,
         loc'[p].res # 0 => free' # {} /\ loc'[p].res = Head',
         \A q \in Procs : q # p /\ loc[q].res # 0 => free' = free /\ loc'[p].res = 0
  PROVE  MemInv'
  <1>1. MemTypes'
    BY DEF Changed, MemTypes
  <1>2. Apart' /\ NoOtherLeak'
    BY OwnersMove
  <1>3. Inside'
    <2>1. \A q \in Procs : MemOK(mem'[q])
      BY DEF MemInv, Inside, Changed
    <2>2. \A q \in Procs : HandOK(loc'[q], mem'[q].as)
      BY OthersKeep
    <2> QED
      BY <2>1, <2>2, InsideIs
  <1>4. ChildrenDiffer'
    BY DEF MemInv, ChildrenDiffer, Changed
  <1>5. OneInKalloc'
    <2>1. ASSUME NEW q \in Procs, loc'[q].res # 0
          PROVE  /\ free' # {} /\ loc'[q].res = Head'
                 /\ \A r \in Procs : loc'[r].res # 0 => r = q
      <3>1. CASE q = p
        BY <2>1, <3>1 DEF Changed
      <3>2. CASE q # p
        <4>1. free' = free /\ loc'[p].res = 0 /\ loc[q].res # 0 /\ loc'[q] = loc[q]
          BY <2>1, <3>2 DEF Changed
        <4>2. Head' = Head
          BY <4>1 DEF Head
        <4> QED
          BY <2>1, <3>2, <4>1, <4>2 DEF Changed, MemInv, OneInKalloc
      <3> QED
        BY <3>1, <3>2
    <2> QED
      BY <2>1 DEF OneInKalloc
  <1>6. ASSUME NEW q \in Procs
        PROVE  CallOK(q)' /\ Progress(q)' /\ SlotOK(q)'
    <2>1. CallOK(q)' /\ Progress(q)'
      BY OthersKeep
    <2>2. SlotOK(q)'
      <3>1. CASE q # a
        <4>1. mem'[q] = mem[q] /\ status'[q] = status[q] /\ SlotOK(q)
          BY <3>1 DEF Changed, MemInv
        <4>2. pc'[q] = "panic" <=> pc[q] = "panic"
          BY <3>1 DEF Changed
        <4> QED
          BY <4>1, <4>2 DEF SlotOK
      <3> QED
        BY <3>1
    <2> QED
      BY <2>1, <2>2
  <1> QED
    BY <1>1, <1>2, <1>3, <1>4, <1>5, <1>6 DEF MemInv

\* What the invariant says of process p.
LEMMA CallIs ==
  ASSUME MemInv, NEW p \in Procs
  PROVE  /\ MemTypes /\ loc[p] \in Locals /\ mem[p] \in Mems /\ mem[p].as \in SpaceType
         /\ loc[p].as \in SpaceType
         /\ CallOK(p) /\ Progress(p) /\ SlotOK(p)
         /\ MemOK(mem[p]) /\ HandOK(loc[p], mem[p].as)
         /\ LocalPages(p) = Hand(loc[p], mem[p].as)
         /\ NPAGE \in Nat /\ None \notin Pages /\ 0 \notin Pages /\ None # 0
         /\ loc[p].tmp \subseteq Pages /\ loc[p].hold \in 0 .. NPAGE /\ loc[p].pg \in 0 .. None
         /\ loc[p].pg \notin {0, None} => loc[p].pg \in Pages
         /\ loc[p].hold # 0 => loc[p].hold \in Pages
         /\ Hand(loc[p], mem[p].as) \cap free = {} /\ MemPages(mem[p]) \cap free = {}
         /\ MemPages(mem[p]) \cap Hand(loc[p], mem[p].as) = {}
  <1>1. MemTypes /\ CallOK(p) /\ Progress(p) /\ SlotOK(p) /\ MemOK(mem[p]) /\ HandOK(loc[p], mem[p].as)
    BY DEF MemInv, Inside
  <1>2. loc[p] \in Locals /\ mem[p] \in Mems /\ mem[p].as \in SpaceType /\ loc[p].as \in SpaceType
    BY <1>1 DEF MemTypes, Locals, Mems
  <1>3. LocalPages(p) = Hand(loc[p], mem[p].as)
    BY DEF LocalPages, Hand, Fresh
  <1>4. NPAGE \in Nat /\ None \notin Pages /\ 0 \notin Pages /\ None # 0
    BY MemoryAssumption DEF None, Pages
  <1>5. /\ loc[p].tmp \subseteq Pages /\ loc[p].hold \in 0 .. NPAGE /\ loc[p].pg \in 0 .. None
    BY <1>2 DEF Locals
  <1>6. /\ loc[p].pg \notin {0, None} => loc[p].pg \in Pages
        /\ loc[p].hold # 0 => loc[p].hold \in Pages
    BY <1>4, <1>5 DEF None, Pages
  <1>7. /\ Hand(loc[p], mem[p].as) \cap free = {} /\ MemPages(mem[p]) \cap free = {}
        /\ MemPages(mem[p]) \cap Hand(loc[p], mem[p].as) = {}
    BY <1>3 DEF MemInv, Apart
  <1> QED
    BY <1>1, <1>2, <1>3, <1>4, <1>5, <1>6, <1>7

\* Where kalloc is not preempted, nobody is in it when another one reads or writes the list.
LEMMA Quietly ==
  ASSUME Serial, MemInv, NEW p \in Procs, Undisturbed(p)
  PROVE  \A q \in Procs : q # p => loc[q].res = 0
  BY DEF Undisturbed

\* A process in use is nobody's child under way.
LEMMA UsedIsAlone ==
  ASSUME MemInv, NEW p \in Procs, status[p] # "alloc"
  PROVE  Alone(p, p)
  BY DEF MemInv, CallOK, Alone

\* The child of a fork is nobody else's, and makes no calls.
LEMMA ChildIsAlone ==
  ASSUME MemInv, NEW p \in Procs, loc[p].job = "fork"
  PROVE  /\ loc[p].np \in Procs /\ loc[p].np # p /\ Alone(p, loc[p].np)
         /\ status[loc[p].np] = "alloc" /\ status[p] = "used"
  <1>1. /\ loc[p].np \in Procs /\ loc[p].np # p /\ status[loc[p].np] = "alloc"
        /\ status[p] = "used"
    BY DEF MemInv, CallOK
  <1>2. pc[loc[p].np] = "idle"
    BY <1>1 DEF MemInv, CallOK
  <1> QED
    BY <1>1, <1>2 DEF MemInv, ChildrenDiffer, Alone

\* The locals of one process change.
LEMMA SetLocals ==
  ASSUME MemTypes, NEW p \in Procs, NEW l \in Locals, loc' = [loc EXCEPT ![p] = l]
  PROVE  loc' \in [Procs -> Locals] /\ loc'[p] = l /\ \A q \in Procs : q # p => loc'[q] = loc[q]
  BY DEF MemTypes

\* The position of one process changes.
LEMMA SetPc ==
  ASSUME MemTypes, NEW p \in Procs, NEW s \in Asking \cup {"idle", "next", "panic"}, Goto(p, s)
  PROVE  /\ pc' \in [Procs -> Asking \cup {"idle", "next", "panic"}] /\ pc'[p] = s
         /\ \A q \in Procs : q # p => pc'[q] = pc[q]
  BY DEF MemTypes, Goto

\* Locals are records of their fields.
LEMMA LocalsAre ==
  ASSUME NEW l \in Locals
  PROVE  l = [job |-> l.job, np |-> l.np, tmp |-> l.tmp, as |-> l.as, v |-> l.v, end |-> l.end,
              hold |-> l.hold, res |-> l.res, pg |-> l.pg]
  BY DEF Locals

\* A step that moves pages between the free list and the hands of p only.
LEMMA HandStep ==
  ASSUME MemInv, NEW p \in Procs, Changed(p, p), UNCHANGED <<mem, status>>, status[p] = "used",
         pc[p] # "panic", pc'[p] # "panic",
         HandOK(loc'[p], mem[p].as), CallOK(p)', Progress(p)',
         free' \cup Hand(loc'[p], mem[p].as) \subseteq free \cup Hand(loc[p], mem[p].as),
         free \cup Hand(loc[p], mem[p].as) \subseteq free' \cup Hand(loc'[p], mem[p].as) \cup lost',
         lost \subseteq lost', free' \cap Hand(loc'[p], mem[p].as) = {},
         loc'[p].job = "fork" => loc[p].job = "fork" /\ loc'[p].np = loc[p].np,
         loc'[p].res # 0 => free' # {} /\ loc'[p].res = Head',
         \A q \in Procs : q # p /\ loc[q].res # 0 => free' = free /\ loc'[p].res = 0
  PROVE  MemInv'
  <1>1. /\ SlotOK(p) /\ MemOK(mem[p]) /\ MemPages(mem[p]) \cap free = {}
        /\ MemPages(mem[p]) \cap Hand(loc[p], mem[p].as) = {}
    BY CallIs
  <1>2. Alone(p, p)
    BY UsedIsAlone
  <1>3. mem' = mem /\ status' = status
    OBVIOUS
  <1>4. Moves(p, p)
    <2>1. /\ MemPages(mem[p]) \cap free' = {}
          /\ MemPages(mem[p]) \cap Hand(loc'[p], mem[p].as) = {}
      BY <1>1
    <2> QED
      BY <1>3, <2>1 DEF Moves
  <1>5. SlotOK(p)' /\ MemOK(mem'[p]) /\ HandOK(loc'[p], mem'[p].as)
    BY <1>1, <1>3 DEF SlotOK
  <1>6. loc'[p].job = "fork" =>
          \A q \in Procs : q # p /\ loc[q].job = "fork" => loc[q].np # loc'[p].np
    BY DEF MemInv, ChildrenDiffer
  <1> QED
    BY <1>2, <1>4, <1>5, <1>6, StepKeeps

-----------------------------------------------------------------------------
(* kalloc. *)

\* kalloc reads the head of the list.
LEMMA KallocReadStep ==
  ASSUME Serial, MemInv, NEW p \in Procs, KallocRead(p)
  PROVE  MemInv'
  <1>1. /\ MemTypes /\ loc[p] \in Locals /\ CallOK(p) /\ Progress(p) /\ SlotOK(p)
        /\ MemOK(mem[p]) /\ HandOK(loc[p], mem[p].as) /\ None \notin Pages /\ None # 0
        /\ NPAGE \in Nat /\ loc[p].hold \in 0 .. NPAGE /\ loc[p].pg = 0
        /\ Hand(loc[p], mem[p].as) \cap free = {} /\ MemPages(mem[p]) \cap free = {}
        /\ MemPages(mem[p]) \cap Hand(loc[p], mem[p].as) = {}
    BY CallIs DEF KallocRead
  <1>2. PICK g, r : \/ free = {} /\ g = None /\ r = 0
                    \/ free # {} /\ g = 0 /\ r = Head /\ r \in free
    <2>1. free # {} => Head \in free
      BY DEF Head
    <2> QED
      BY <2>1
  <1>3. g \in 0 .. None /\ r \in 0 .. NPAGE
    <2>1. NPAGE \in Nat /\ free \subseteq 1 .. NPAGE /\ None = NPAGE + 1
      BY <1>1 DEF MemTypes, Pages, None
    <2>2. CASE free = {}
      BY <1>2, <2>1, <2>2
    <2>3. CASE free # {}
      <3>1. g = 0 /\ r \in 1 .. NPAGE
        BY <1>2, <2>1, <2>3
      <3> QED
        BY <2>1, <3>1
    <2> QED
      BY <2>2, <2>3
  <1> DEFINE l == [job |-> loc[p].job, np |-> loc[p].np, tmp |-> loc[p].tmp, as |-> loc[p].as,
                   v |-> loc[p].v, end |-> loc[p].end, hold |-> loc[p].hold, res |-> r, pg |-> g]
  <1>4. /\ loc' \in [Procs -> Locals] /\ \A q \in Procs : q # p => loc'[q] = loc[q]
        /\ loc'[p] = l
    <2>1. l \in Locals
      BY <1>1, <1>3 DEF Locals
    <2>2. loc[p] = [job |-> loc[p].job, np |-> loc[p].np, tmp |-> loc[p].tmp, as |-> loc[p].as,
                    v |-> loc[p].v, end |-> loc[p].end, hold |-> loc[p].hold, res |-> 0, pg |-> 0]
      BY <1>1, LocalsAre DEF KallocRead
    <2>3. loc' = [loc EXCEPT ![p] = l]
      <3>1. CASE free = {}
        <4>1. loc' = [loc EXCEPT ![p].pg = None] /\ g = None /\ r = 0
          BY <1>2, <3>1 DEF KallocRead
        <4>2. [loc[p] EXCEPT !.pg = None] = l
          BY <2>2, <4>1
        <4> QED
          BY <4>1, <4>2, Zenon
      <3>2. CASE free # {}
        <4>1. loc' = [loc EXCEPT ![p].res = Head] /\ g = 0 /\ r = Head
          BY <1>2, <3>2 DEF KallocRead
        <4>2. [loc[p] EXCEPT !.res = Head] = l
          BY <2>2, <4>1
        <4> QED
          BY <4>1, <4>2, Zenon
      <3> QED
        BY <3>1, <3>2
    <2> QED
      BY <1>1, <2>1, <2>3, SetLocals
  <1>5. /\ loc'[p].pg = g /\ loc'[p].res = r /\ loc'[p].job = loc[p].job /\ loc'[p].np = loc[p].np
        /\ loc'[p].tmp = loc[p].tmp /\ loc'[p].as = loc[p].as /\ loc'[p].v = loc[p].v
        /\ loc'[p].end = loc[p].end /\ loc'[p].hold = loc[p].hold
    BY <1>1, <1>4 DEF Locals
  <1>6. Changed(p, p) /\ mem' = mem /\ status' = status /\ pc' = pc /\ free' = free /\ lost' = lost
    BY <1>1, <1>4 DEF Changed, KallocRead, MemTypes
  <1>7. Hand(loc'[p], mem[p].as) = Hand(loc[p], mem[p].as) /\ HandOK(loc'[p], mem[p].as)
    <2>1. {loc'[p].hold, loc'[p].pg} \ {0, None} = {loc[p].hold, loc[p].pg} \ {0, None}
      BY <1>1, <1>2, <1>5
    <2>2. loc'[p].hold # 0 => loc'[p].hold # loc'[p].pg
      BY <1>1, <1>2, <1>5 DEF None
    <2> QED
      BY <1>1, <1>2, <1>5, <2>1, <2>2 DEF Hand, HandOK, Fresh
  <1>8. pc[p] \in Asking /\ pc[p] \notin {"idle", "panic"}
    BY DEF KallocRead, Asking
  <1>9. status[p] = "used"
    BY <1>1, <1>8 DEF CallOK
  <1>10. CallOK(p)' /\ Progress(p)'
    BY <1>1, <1>2, <1>5, <1>6, <1>8 DEF CallOK, Progress
  <1>11. \A q \in Procs : q # p => loc[q].res = 0
    BY Quietly DEF KallocRead
  <1>12. Head' = Head
    BY <1>6 DEF Head
  <1> QED
    BY <1>1, <1>2, <1>5, <1>6, <1>7, <1>8, <1>9, <1>10, <1>11, <1>12, HandStep

\* kalloc unlinks the page it has read.
LEMMA KallocTakeStep ==
  ASSUME Serial, MemInv, NEW p \in Procs, KallocTake(p)
  PROVE  MemInv'
  <1>1. /\ MemTypes /\ loc[p] \in Locals /\ CallOK(p) /\ Progress(p)
        /\ HandOK(loc[p], mem[p].as) /\ None \notin Pages /\ None # 0 /\ 0 \notin Pages
        /\ NPAGE \in Nat /\ Hand(loc[p], mem[p].as) \cap free = {}
    BY CallIs
  <1>2. /\ loc[p].res = Head /\ Head \in free /\ Head \in Pages
        /\ loc[p].pg = 0 /\ \A q \in Procs : q # p => loc[q].res = 0
    <2>1. Head \in free
      BY DEF KallocTake, Head
    <2> QED
      BY <1>1, <2>1 DEF KallocTake, MemInv, OneInKalloc, MemTypes, CallOK
  <1> DEFINE l == [job |-> loc[p].job, np |-> loc[p].np, tmp |-> loc[p].tmp, as |-> loc[p].as,
                   v |-> loc[p].v, end |-> loc[p].end, hold |-> loc[p].hold, res |-> 0, pg |-> Head]
  <1>3. l \in Locals
    BY <1>1, <1>2 DEF Locals, None, Pages
  <1>4. loc' = [loc EXCEPT ![p] = l]
    BY <1>1, <1>2, LocalsAre DEF KallocTake, MemTypes
  <1>5. loc' \in [Procs -> Locals] /\ loc'[p] = l /\ \A q \in Procs : q # p => loc'[q] = loc[q]
    BY <1>1, <1>3, <1>4, SetLocals
  <1>6. Changed(p, p) /\ mem' = mem /\ status' = status /\ pc' = pc /\ lost' = lost
    BY <1>1, <1>5 DEF Changed, KallocTake, MemTypes
  <1>7. Hand(loc'[p], mem[p].as) = Hand(loc[p], mem[p].as) \cup {Head} /\ HandOK(loc'[p], mem[p].as)
    <2>1. Fresh(loc'[p], mem[p].as) = Fresh(loc[p], mem[p].as)
      BY <1>5 DEF Fresh
    <2>2. {loc'[p].hold, loc'[p].pg} \ {0, None} = ({loc[p].hold, loc[p].pg} \ {0, None}) \cup {Head}
      BY <1>1, <1>2, <1>5
    <2>3. Hand(loc'[p], mem[p].as) = Hand(loc[p], mem[p].as) \cup {Head}
      BY <1>5, <2>1, <2>2 DEF Hand
    <2>4. Head \notin Hand(loc[p], mem[p].as) /\ (loc[p].hold # 0 => loc[p].hold # Head)
      BY <1>1, <1>2, CallIs DEF Hand
    <2> QED
      BY <1>1, <1>5, <2>1, <2>3, <2>4 DEF Hand, HandOK
  <1>8. free' = free \ {Head}
    BY DEF KallocTake
  <1>9. pc[p] \in Asking /\ pc[p] \notin {"idle", "panic"} /\ status[p] = "used"
    BY <1>1 DEF KallocTake, CallOK, Asking
  <1>10. CallOK(p)' /\ Progress(p)'
    BY <1>1, <1>2, <1>5, <1>6, <1>9 DEF CallOK, Progress
  <1> QED
    BY <1>1, <1>2, <1>5, <1>6, <1>7, <1>8, <1>9, <1>10, HandStep

-----------------------------------------------------------------------------
(* Address spaces under construction. *)

\* A page is in use for the root of a page table.
LEMMA RootIs ==
  ASSUME NEW as \in SpaceType, SpacePages(as) = {}, NEW g \in Pages, NEW new \in SpaceType,
         new.root = g, new.tables = as.tables, new.map = as.map
  PROVE  SpaceOK(new) /\ SpacePages(new) = {g} /\ Mapped(new) = Mapped(as)
  <1>1. as.tables \subseteq Pages
    BY DEF SpaceType
  <1>2. NPAGE \in Nat /\ g \in 0 .. NPAGE /\ g # 0 /\ 0 \notin Pages
    BY MemoryAssumption DEF Pages
  <1>3. as.tables = {} /\ \A v \in VPages : as.map[v] = 0
    <2>1. \A h : h \in SpacePages(as) <=>
            h # 0 /\ (h = as.root \/ h \in as.tables \/ \E v \in VPages : h = as.map[v])
      BY SpaceIs
    <2>2. \A h : ~(h # 0 /\ (h = as.root \/ h \in as.tables \/ \E v \in VPages : h = as.map[v]))
      BY <2>1
    <2>3. \A h \in as.tables : FALSE
      BY <1>1, <1>2, <2>2
    <2>4. as.tables = {}
      BY <2>3
    <2> QED
      BY <2>2, <2>4
  <1>4. SpacePages(new) = {g}
    <2>1. \A h : h \in SpacePages(new) <=>
            h # 0 /\ (h = new.root \/ h \in new.tables \/ \E v \in VPages : h = new.map[v])
      BY SpaceIs
    <2>2. new.tables = {} /\ \A v \in VPages : new.map[v] = 0
      BY <1>3
    <2>3. \A h : h \in SpacePages(new) => h = g
      BY <2>1, <2>2
    <2>4. g \in SpacePages(new)
      BY <1>2, <2>1
    <2> QED
      BY <2>3, <2>4
  <1> QED
    BY <1>2, <1>3, <1>4 DEF SpaceOK, Mapped

\* new has one table more than as.
OneTable(as, g, new) ==
  /\ SpaceOK(new) /\ SpacePages(new) = SpacePages(as) \cup {g}
  /\ Mapped(new) = Mapped(as)

\* A page is in use for tables.
LEMMA TableIs ==
  ASSUME NEW as \in SpaceType, SpaceOK(as), NEW g \in Pages, g \notin SpacePages(as),
         NEW new \in SpaceType,
         new.root = as.root, new.tables = as.tables \cup {g}, new.map = as.map
  PROVE  OneTable(as, g, new)
  <1>1. g # 0
    BY MemoryAssumption DEF Pages
  <1>2. \A h : h \in SpacePages(as) <=>
          h # 0 /\ (h = as.root \/ h \in as.tables \/ \E v \in VPages : h = as.map[v])
    BY SpaceIs
  <1>3. \A h : h \in SpacePages(new) <=>
          h # 0 /\ (h = as.root \/ h \in as.tables \cup {g} \/ \E v \in VPages : h = as.map[v])
    <2>1. \A h : h \in SpacePages(new) <=>
            h # 0 /\ (h = new.root \/ h \in new.tables \/ \E v \in VPages : h = new.map[v])
      BY SpaceIs
    <2> QED
      BY <2>1
  <1>4. SpacePages(new) = SpacePages(as) \cup {g}
    BY <1>1, <1>2, <1>3
  <1>5. g # as.root /\ \A v \in VPages : g # as.map[v]
    BY <1>1, <1>2
  <1>6. SpaceOK(new)
    BY <1>5 DEF SpaceOK
  <1> QED
    BY <1>4, <1>6 DEF Mapped, OneTable

\* In new, the page g is at v, and all else is as in as.
PutAt(as, v, g, new) ==
  /\ new.root = as.root /\ new.tables = as.tables /\ new.map[v] = g
  /\ \A u \in VPages : u # v => new.map[u] = as.map[u]

\* new has one page more than as, at v.
OneMore(as, v, g, new) ==
  /\ SpaceOK(new) /\ SpacePages(new) = SpacePages(as) \cup {g} /\ Mapped(new) = Mapped(as) \cup {v}

\* A page is mapped at v.
LEMMA MapIs ==
  ASSUME NEW as \in SpaceType, SpaceOK(as), NEW g \in Pages, g \notin SpacePages(as),
         NEW v \in VPages, as.map[v] = 0, NEW new \in SpaceType, PutAt(as, v, g, new)
  PROVE  OneMore(as, v, g, new)
  <1>1. as.map \in [VPages -> 0 .. NPAGE]
    BY DEF SpaceType
  <1>2. NPAGE \in Nat /\ g # 0 /\ g \in 0 .. NPAGE
    BY MemoryAssumption DEF Pages
  <1>3. new.root = as.root /\ new.tables = as.tables
    BY DEF PutAt
  <1>4. new.map[v] = g /\ \A u \in VPages : u # v => new.map[u] = as.map[u]
    BY DEF PutAt
  <1>5. \A h : h \in SpacePages(as) <=>
          h # 0 /\ (h = as.root \/ h \in as.tables \/ \E u \in VPages : h = as.map[u])
    BY SpaceIs
  <1>6. \A h : h \in SpacePages(new) <=>
          h # 0 /\ (h = as.root \/ h \in as.tables \/ \E u \in VPages : h = new.map[u])
    BY <1>3, SpaceIs
  <1>7. g # as.root /\ g \notin as.tables /\ \A u \in VPages : g # as.map[u]
    BY <1>2, <1>5
  <1>8. SpacePages(new) = SpacePages(as) \cup {g}
    <2>1. ASSUME NEW h \in SpacePages(new) PROVE h \in SpacePages(as) \cup {g}
      <3>1. h # 0 /\ (h = as.root \/ h \in as.tables \/ \E u \in VPages : h = new.map[u])
        BY <1>6
      <3>2. CASE h = as.root \/ h \in as.tables
        BY <1>5, <3>1, <3>2
      <3>3. CASE \E u \in VPages : h = new.map[u]
        <4>1. PICK u \in VPages : h = new.map[u]
          BY <3>3
        <4>2. u = v \/ h = as.map[u]
          BY <1>4, <4>1
        <4> QED
          BY <1>4, <1>5, <3>1, <4>1, <4>2
      <3> QED
        BY <3>1, <3>2, <3>3
    <2>2. ASSUME NEW h \in SpacePages(as) PROVE h \in SpacePages(new)
      <3>1. CASE h = as.root \/ h \in as.tables
        BY <1>5, <1>6, <3>1
      <3>2. CASE \E u \in VPages : h = as.map[u]
        <4>1. PICK u \in VPages : h = as.map[u]
          BY <3>2
        <4>2. u # v /\ h # 0
          BY <1>5, <4>1
        <4> QED
          BY <1>4, <1>6, <4>1, <4>2
      <3> QED
        BY <1>5, <3>1, <3>2
    <2>3. g \in SpacePages(new)
      BY <1>2, <1>4, <1>6
    <2> QED
      BY <2>1, <2>2, <2>3
  <1>9. SpaceOK(new)
    <2>1. \A u \in VPages : new.map[u] # 0 => new.map[u] # new.root /\ new.map[u] \notin new.tables
      BY <1>3, <1>4, <1>7 DEF SpaceOK
    <2>2. \A u, w \in VPages : new.map[u] = new.map[w] /\ new.map[u] # 0 => u = w
      <3>1. \A u, w \in VPages : as.map[u] = as.map[w] /\ as.map[u] # 0 => u = w
        BY DEF SpaceOK
      <3>2. ASSUME NEW u \in VPages, NEW w \in VPages, new.map[u] = new.map[w], new.map[u] # 0
            PROVE  u = w
        <4>1. CASE u = v \/ w = v
          BY <1>4, <1>7, <3>2, <4>1
        <4>2. CASE u # v /\ w # v
          <5>1. new.map[u] = as.map[u] /\ new.map[w] = as.map[w]
            BY <1>4, <4>2
          <5> QED
            BY <3>1, <3>2, <5>1
        <4> QED
          BY <4>1, <4>2
      <3> QED
        BY <3>2
    <2> QED
      BY <1>3, <2>1, <2>2 DEF SpaceOK
  <1>10. Mapped(new) = Mapped(as) \cup {v}
    BY <1>2, <1>4 DEF Mapped
  <1> QED
    BY <1>8, <1>9, <1>10 DEF OneMore

\* A step of the loops over pages, which moves pages within the hands of p.
LEMMA BuildStep ==
  ASSUME MemInv, NEW p \in Procs, status[p] = "used", pc[p] # "panic",
         NEW l \in Locals, loc' = [loc EXCEPT ![p] = l],
         NEW s \in Asking \cup {"idle", "next"}, Goto(p, s),
         UNCHANGED <<free, status, mem, lost>>,
         Hand(l, mem[p].as) = Hand(loc[p], mem[p].as), HandOK(l, mem[p].as),
         l.job = "fork" => loc[p].job = "fork" /\ l.np = loc[p].np,
         l.res = 0,
         loc'[p] = l /\ pc'[p] = s /\ mem' = mem /\ status' = status => CallOK(p)' /\ Progress(p)'
  PROVE  MemInv'
  <1>1. /\ MemTypes /\ Hand(loc[p], mem[p].as) \cap free = {}
    BY CallIs
  <1>2. loc' \in [Procs -> Locals] /\ loc'[p] = l /\ \A q \in Procs : q # p => loc'[q] = loc[q]
    BY <1>1, SetLocals
  <1>3. /\ pc' \in [Procs -> Asking \cup {"idle", "next", "panic"}] /\ pc'[p] = s
        /\ \A q \in Procs : q # p => pc'[q] = pc[q]
    BY <1>1, SetPc
  <1>4. /\ Changed(p, p) /\ mem' = mem /\ status' = status /\ lost' = lost /\ free' = free
        /\ pc'[p] # "panic"
    BY <1>1, <1>2, <1>3 DEF Changed, MemTypes, Asking
  <1>5. CallOK(p)' /\ Progress(p)'
    BY <1>2, <1>3, <1>4
  <1> QED
    BY <1>1, <1>2, <1>4, <1>5, HandStep

\* proc_pagetable has a page for the root.
LEMMA RootStep ==
  ASSUME MemInv, NEW p \in Procs, Root(p)
  PROVE  MemInv'
  <1>1. /\ MemTypes /\ loc[p] \in Locals /\ CallOK(p) /\ Progress(p) /\ loc[p].as \in SpaceType
        /\ HandOK(loc[p], mem[p].as)
        /\ None \notin Pages /\ None # 0 /\ 0 \notin Pages /\ 0 \in 0 .. None /\ 0 \in 0 .. NPAGE
    BY CallIs, MemoryAssumption DEF None
  <1>2. pc[p] = "root" /\ loc[p].pg \in Pages /\ loc[p].hold = 0 /\ loc[p].job \in {"fork", "exec"}
        /\ SpacePages(loc[p].as) = {} /\ loc[p].res = 0 /\ status[p] = "used" /\ loc[p].pg \notin {0, None}
    BY <1>1 DEF Root, At, Granted, CallOK, Locals
  <1>3. PICK as : as = [loc[p].as EXCEPT !.root = loc[p].pg]
    OBVIOUS
  <1>4. /\ as \in SpaceType /\ SpaceOK(as) /\ SpacePages(as) = {loc[p].pg}
        /\ Mapped(as) = Mapped(loc[p].as) /\ as.root = loc[p].pg /\ as.holes = loc[p].as.holes
    <2>1. loc[p].pg \in 0 .. NPAGE
      BY <1>1, <1>2, MemoryAssumption DEF Pages
    <2>2. /\ as \in SpaceType /\ as.root = loc[p].pg /\ as.tables = loc[p].as.tables
          /\ as.map = loc[p].as.map /\ as.holes = loc[p].as.holes
      BY <1>1, <1>3, <2>1 DEF SpaceType
    <2> HIDE <1>3
    <2> QED
      BY <1>1, <1>2, <2>2, RootIs
  <1>5. PICK l : l = [[loc[p] EXCEPT !.as = as] EXCEPT !.pg = 0]
    OBVIOUS
  <1>6. loc' = [loc EXCEPT ![p] = l]
    BY <1>1, <1>3, <1>5 DEF Root, MemTypes
  <1>7. l \in Locals
    BY <1>1, <1>4, <1>5 DEF Locals
  <1>8. /\ l.job = loc[p].job /\ l.np = loc[p].np /\ l.tmp = loc[p].tmp /\ l.as = as
        /\ l.v = loc[p].v /\ l.end = loc[p].end /\ l.hold = loc[p].hold /\ l.res = 0 /\ l.pg = 0
    BY <1>1, <1>2, <1>5 DEF Locals
  <1>9. Fresh(l, mem[p].as) = {loc[p].pg} /\ Fresh(loc[p], mem[p].as) = {}
    BY <1>2, <1>4, <1>8 DEF Fresh
  <1>10. Hand(l, mem[p].as) = Hand(loc[p], mem[p].as)
    BY <1>1, <1>2, <1>8, <1>9 DEF Hand
  <1>11. HandOK(l, mem[p].as)
    BY <1>1, <1>2, <1>4, <1>8, <1>9 DEF HandOK
  <1>12. ASSUME loc'[p] = l /\ pc'[p] = "high" /\ mem' = mem /\ status' = status
         PROVE  CallOK(p)' /\ Progress(p)'
    <2>1. CallOK(p)'
      BY <1>1, <1>2, <1>4, <1>8, <1>12 DEF CallOK, Asking
    <2>2. Progress(p)'
      BY <1>1, <1>4, <1>8, <1>12 DEF Progress
    <2> QED
      BY <2>1, <2>2
  <1>13. "high" \in Asking \cup {"idle", "next"} /\ Goto(p, "high") /\ UNCHANGED <<free, status, mem, lost>>
    BY DEF Asking, Root
  <1> QED
    BY <1>2, <1>6, <1>7, <1>8, <1>10, <1>11, <1>12, <1>13, BuildStep

\* A page that kalloc has returned, and the one that waits for a table, are in use nowhere.
LEMMA GrantedIs ==
  ASSUME MemInv, NEW p \in Procs, Granted(p)
  PROVE  /\ loc[p].pg \in Pages /\ loc[p].pg \notin {0, None} /\ loc[p].res = 0
         /\ pc[p] \in Asking /\ pc[p] # "panic" /\ status[p] = "used"
         /\ loc[p].pg \notin SpacePages(loc[p].as) \cup loc[p].tmp
         /\ loc[p].hold # 0 => /\ loc[p].hold \in Pages /\ loc[p].hold # loc[p].pg
                               /\ loc[p].hold \notin SpacePages(loc[p].as) \cup loc[p].tmp
         /\ loc[p].hold # None
         /\ 0 \in 0 .. None /\ 0 \in 0 .. NPAGE /\ loc[p].pg \in 0 .. NPAGE
         /\ loc[p].tmp \cap SpacePages(loc[p].as) = {}
  <1>1. /\ CallOK(p) /\ HandOK(loc[p], mem[p].as) /\ None \notin Pages /\ 0 \notin Pages /\ NPAGE \in Nat
        /\ MemPages(mem[p]) \cap Hand(loc[p], mem[p].as) = {}
        /\ loc[p].hold # 0 => loc[p].hold \in Pages
        /\ None # 0
    BY CallIs
  <1>2. loc[p].pg \in Pages /\ loc[p].pg \notin {0, None}
    BY <1>1 DEF Granted
  <1>3. pc[p] \in Asking /\ pc[p] \notin {"idle", "panic"} /\ status[p] = "used" /\ loc[p].res = 0
    BY <1>1, <1>2 DEF CallOK, Asking
  <1>4. loc[p].pg \in Hand(loc[p], mem[p].as) /\ (loc[p].hold # 0 => loc[p].hold \in Hand(loc[p], mem[p].as))
    BY <1>1, <1>2 DEF Hand
  <1>5. loc[p].pg \notin SpacePages(mem[p].as) /\ (loc[p].hold # 0 => loc[p].hold \notin SpacePages(mem[p].as))
    BY <1>1, <1>4 DEF MemPages
  <1>6. \A g : g \notin Fresh(loc[p], mem[p].as) /\ g \notin SpacePages(mem[p].as)
                 => g \notin SpacePages(loc[p].as)
    BY DEF Fresh
  <1>7. loc[p].tmp \cap SpacePages(loc[p].as) = {}
    <2>1. loc[p].tmp \cap Fresh(loc[p], mem[p].as) = {} /\ (loc[p].job = "grow" => loc[p].tmp = {})
      BY <1>1 DEF HandOK, CallOK
    <2> QED
      BY <2>1 DEF Fresh
  <1>8. 0 \in 0 .. None /\ 0 \in 0 .. NPAGE /\ loc[p].pg \in 0 .. NPAGE
    BY <1>1, <1>2 DEF Pages, None
  <1> QED
    BY <1>1, <1>2, <1>3, <1>5, <1>6, <1>7, <1>8 DEF HandOK

\* proc_pagetable has a page for the tables of the trampoline, or of the trapframe.
LEMMA HighStep ==
  ASSUME MemInv, NEW p \in Procs, High(p) \/ Trap(p)
  PROVE  MemInv'
  <1>1. /\ MemTypes /\ loc[p] \in Locals /\ CallOK(p) /\ Progress(p) /\ loc[p].as \in SpaceType
        /\ HandOK(loc[p], mem[p].as) /\ Granted(p)
    BY CallIs DEF High, Trap
  <1>2. /\ loc[p].pg \in Pages /\ loc[p].pg \notin {0, None} /\ loc[p].res = 0 /\ status[p] = "used"
        /\ loc[p].pg \notin SpacePages(loc[p].as) \cup loc[p].tmp /\ 0 \in 0 .. None
        /\ loc[p].tmp \cap SpacePages(loc[p].as) = {}
    BY <1>1, GrantedIs
  <1>3. pc[p] \in {"high", "trap"} /\ loc[p].hold = 0 /\ loc[p].job \in {"fork", "exec"}
    BY <1>1 DEF High, Trap, At, CallOK, Locals
  <1>4. PICK as : as = [loc[p].as EXCEPT !.tables = loc[p].as.tables \cup {loc[p].pg}]
    OBVIOUS
  <1>5. /\ as \in SpaceType /\ as.root = loc[p].as.root /\ as.holes = loc[p].as.holes
        /\ as.tables = loc[p].as.tables \cup {loc[p].pg} /\ as.map = loc[p].as.map
    BY <1>1, <1>2, <1>4 DEF SpaceType
  <1>6. PICK l : l = [[loc[p] EXCEPT !.as = as] EXCEPT !.pg = 0]
    OBVIOUS
  <1>7. loc' = [loc EXCEPT ![p] = l]
    BY <1>1, <1>4, <1>6 DEF High, Trap, MemTypes
  <1>8. l \in Locals
    BY <1>1, <1>2, <1>5, <1>6 DEF Locals
  <1>9. /\ l.job = loc[p].job /\ l.np = loc[p].np /\ l.tmp = loc[p].tmp /\ l.as = as
        /\ l.v = loc[p].v /\ l.end = loc[p].end /\ l.hold = loc[p].hold /\ l.res = 0 /\ l.pg = 0
    BY <1>1, <1>2, <1>6 DEF Locals
  <1> HIDE <1>4, <1>6
  <1>10. SpaceOK(as) /\ SpacePages(as) = SpacePages(loc[p].as) \cup {loc[p].pg} /\ Mapped(as) = Mapped(loc[p].as)
    <2>1. OneTable(loc[p].as, loc[p].pg, as)
      BY <1>1, <1>2, <1>5, TableIs DEF HandOK
    <2> QED
      BY <2>1 DEF OneTable
  <1>11. Fresh(l, mem[p].as) = SpacePages(as) /\ Fresh(loc[p], mem[p].as) = SpacePages(loc[p].as)
    BY <1>3, <1>9 DEF Fresh
  <1>12. Hand(l, mem[p].as) = Hand(loc[p], mem[p].as)
    BY <1>2, <1>3, <1>9, <1>10, <1>11 DEF Hand
  <1>13. HandOK(l, mem[p].as)
    <2>1. SpaceOK(l.as) /\ l.tmp \cap Fresh(l, mem[p].as) = {}
      BY <1>2, <1>9, <1>10, <1>11
    <2>2. l.hold = 0 /\ l.pg = 0 /\ l.job # "grow"
      BY <1>3, <1>9
    <2> QED
      BY <2>1, <2>2 DEF HandOK
  <1>14. PICK s \in {"next", "trap"} : Goto(p, s)
    BY DEF High, Trap
  <1>15. ASSUME loc'[p] = l /\ pc'[p] = s /\ mem' = mem /\ status' = status
         PROVE  CallOK(p)' /\ Progress(p)'
    <2>1. CallOK(p)'
      BY <1>1, <1>2, <1>3, <1>9, <1>14, <1>15 DEF CallOK, Asking
    <2>2. Progress(p)'
      BY <1>1, <1>5, <1>9, <1>10, <1>15 DEF Progress
    <2> QED
      BY <2>1, <2>2
  <1>16. s \in Asking \cup {"idle", "next"} /\ UNCHANGED <<free, status, mem, lost>>
    BY DEF Asking, High, Trap
  <1> QED
    BY <1>2, <1>3, <1>7, <1>8, <1>9, <1>12, <1>13, <1>14, <1>15, <1>16, BuildStep

\* sys_exec has a page for its argument.
LEMMA ExecArgStep ==
  ASSUME MemInv, NEW p \in Procs, ExecArg(p)
  PROVE  MemInv'
  <1>1. /\ MemTypes /\ loc[p] \in Locals /\ CallOK(p) /\ Progress(p) /\ loc[p].as \in SpaceType
        /\ HandOK(loc[p], mem[p].as) /\ Granted(p)
    BY CallIs DEF ExecArg
  <1>2. /\ loc[p].pg \in Pages /\ loc[p].pg \notin {0, None} /\ loc[p].res = 0 /\ status[p] = "used"
        /\ loc[p].pg \notin SpacePages(loc[p].as) \cup loc[p].tmp /\ 0 \in 0 .. None
        /\ loc[p].tmp \cap SpacePages(loc[p].as) = {}
    BY <1>1, GrantedIs
  <1>3. pc[p] = "arg" /\ loc[p].hold = 0 /\ loc[p].job = "exec"
    BY <1>1 DEF ExecArg, At, CallOK, Locals
  <1>4. PICK l : l = [[loc[p] EXCEPT !.tmp = loc[p].tmp \cup {loc[p].pg}] EXCEPT !.pg = 0]
    OBVIOUS
  <1>5. loc' = [loc EXCEPT ![p] = l]
    BY <1>1, <1>4 DEF ExecArg, MemTypes
  <1>6. l \in Locals
    BY <1>1, <1>2, <1>4 DEF Locals
  <1>7. /\ l.job = loc[p].job /\ l.np = loc[p].np /\ l.tmp = loc[p].tmp \cup {loc[p].pg}
        /\ l.as = loc[p].as /\ l.v = loc[p].v /\ l.end = loc[p].end /\ l.hold = loc[p].hold
        /\ l.res = 0 /\ l.pg = 0
    BY <1>1, <1>2, <1>4 DEF Locals
  <1> HIDE <1>4
  <1>8. Fresh(l, mem[p].as) = SpacePages(loc[p].as) /\ Fresh(loc[p], mem[p].as) = SpacePages(loc[p].as)
    BY <1>3, <1>7 DEF Fresh
  <1>9. Hand(l, mem[p].as) = Hand(loc[p], mem[p].as)
    BY <1>2, <1>3, <1>7, <1>8 DEF Hand
  <1>10. HandOK(l, mem[p].as)
    BY <1>1, <1>2, <1>3, <1>7, <1>8 DEF HandOK
  <1>11. ASSUME loc'[p] = l /\ pc'[p] = "root" /\ mem' = mem /\ status' = status
         PROVE  CallOK(p)' /\ Progress(p)'
    <2>1. CallOK(p)'
      BY <1>1, <1>2, <1>3, <1>7, <1>11 DEF CallOK, Asking
    <2>2. Progress(p)'
      BY <1>1, <1>7, <1>11 DEF Progress
    <2> QED
      BY <2>1, <2>2
  <1>12. "root" \in Asking \cup {"idle", "next"} /\ Goto(p, "root") /\ UNCHANGED <<free, status, mem, lost>>
    BY DEF Asking, ExecArg
  <1> QED
    BY <1>2, <1>3, <1>5, <1>6, <1>7, <1>9, <1>10, <1>11, <1>12, BuildStep

\* The locals m are l with the page g mapped.
HasMapped(l, g, m) ==
  /\ m \in Locals /\ SpaceOK(m.as) /\ SpacePages(m.as) = SpacePages(l.as) \cup {g}
  /\ Mapped(m.as) = Mapped(l.as) \cup {l.v}
  /\ m.as.root = l.as.root /\ m.as.tables = l.as.tables /\ m.as.holes = l.as.holes
  /\ \A u \in VPages : u # l.v => m.as.map[u] = l.as.map[u]
  /\ m.job = l.job /\ m.np = l.np /\ m.tmp = l.tmp /\ m.v = l.v + 1 /\ m.end = l.end
  /\ m.hold = 0 /\ m.res = l.res /\ m.pg = 0

\* mappages changes the address space at one place.
LEMMA MapAtIs ==
  ASSUME NEW l \in Locals, SpaceOK(l.as), l.v \in VPages, l.v + 1 \in 0 .. Up(MaxSz), l.as.map[l.v] = 0,
         NEW g \in Pages, g \notin SpacePages(l.as), NEW m, m = MapAt(l, g)
  PROVE  HasMapped(l, g, m)
  <1>1. l.as \in SpaceType /\ l.as.map \in [VPages -> 0 .. NPAGE]
    BY DEF Locals, SpaceType
  <1>2. NPAGE \in Nat /\ g \in 0 .. NPAGE /\ 0 \in 0 .. NPAGE /\ 0 \in 0 .. None
    BY MemoryAssumption DEF Pages, None
  <1>3. PICK f : f = [l.as.map EXCEPT ![l.v] = g]
    OBVIOUS
  <1>4. f \in [VPages -> 0 .. NPAGE]
    BY <1>1, <1>2, <1>3
  <1>5. PICK as : as = [l.as EXCEPT !.map = f]
    OBVIOUS
  <1>6. /\ as \in SpaceType /\ as.root = l.as.root /\ as.tables = l.as.tables /\ as.map = f
        /\ as.holes = l.as.holes
    BY <1>1, <1>4, <1>5 DEF SpaceType
  <1>7. m = [[[[l EXCEPT !.as = as] EXCEPT !.v = l.v + 1] EXCEPT !.hold = 0] EXCEPT !.pg = 0]
    BY <1>3, <1>5 DEF MapAt, Locals
  <1>8. m \in Locals
    BY <1>2, <1>6, <1>7 DEF Locals
  <1>9. /\ m.job = l.job /\ m.np = l.np /\ m.tmp = l.tmp /\ m.as = as /\ m.v = l.v + 1 /\ m.end = l.end
        /\ m.hold = 0 /\ m.res = l.res /\ m.pg = 0
    BY <1>7 DEF Locals
  <1>10. as.map[l.v] = g /\ \A u \in VPages : u # l.v => as.map[u] = l.as.map[u]
    BY <1>1, <1>3, <1>6
  <1>11. PutAt(l.as, l.v, g, as)
    BY <1>6, <1>10 DEF PutAt
  <1> HIDE <1>3, <1>5, <1>7
  <1>12. /\ SpaceOK(as) /\ SpacePages(as) = SpacePages(l.as) \cup {g}
         /\ Mapped(as) = Mapped(l.as) \cup {l.v}
    <2>1. OneMore(l.as, l.v, g, as)
      BY <1>1, <1>6, <1>11, MapIs
    <2> QED
      BY <2>1 DEF OneMore
  <1> QED
    BY <1>6, <1>10, <1>8, <1>9, <1>12 DEF HasMapped

\* Where a loop over pages is, nothing is mapped yet.
LEMMA HereIs ==
  ASSUME MemInv, NEW p \in Procs, pc[p] \in {"page", "low"}
  PROVE  /\ loc[p].v \in VPages /\ loc[p].v + 1 \in 0 .. Up(MaxSz) /\ loc[p].as.map[loc[p].v] = 0
         /\ loc[p].v + 1 <= Up(loc[p].end) /\ loc[p].v \in Nat
         /\ loc[p].job = "exec" => loc[p].v + 1 <= ImagePages
         /\ loc[p].job = "fork" => loc[p].v \in Mapped(mem[p].as)
         /\ loc[p].job # "fork" => loc[p].v \notin loc[p].as.holes
         /\ loc[p].job = "grow" => Up(mem[p].as.sz) \in Nat
         /\ loc[p].job \in {"fork", "exec", "grow"}
  <1>1. /\ MemTypes /\ loc[p] \in Locals /\ CallOK(p) /\ Progress(p) /\ loc[p].as \in SpaceType
        /\ mem[p].as \in SpaceType
    BY CallIs
  <1>2. /\ loc[p].v \in 0 .. Up(MaxSz) /\ loc[p].end \in 0 .. MaxSz /\ mem[p].as.sz \in 0 .. MaxSz
        /\ loc[p].job \in {"none", "fork", "exec", "grow"} /\ mem[p].as.holes \subseteq VPages /\ loc[p].as.holes \subseteq VPages
    BY <1>1 DEF Locals, SpaceType
  <1>3. Up(MaxSz) \in Nat /\ Up(loc[p].end) \in Nat /\ Up(mem[p].as.sz) \in Nat
    BY <1>2, BelowSize
  <1>4. loc[p].v < Up(loc[p].end) /\ loc[p].v \in Nat /\ pc[p] # "idle"
    BY <1>1, <1>2, <1>3 DEF CallOK
  <1>5. loc[p].v \in VPages /\ loc[p].v + 1 \in 0 .. Up(MaxSz)
    BY <1>2, <1>4, BelowSize
  <1>6. loc[p].job \in {"fork", "exec", "grow"}
    BY <1>1, <1>2, <1>4 DEF CallOK
  <1>7. loc[p].v \notin Mapped(loc[p].as)
    <2>1. CASE loc[p].job = "fork"
      BY <1>1, <1>4, <2>1 DEF Progress
    <2>2. CASE loc[p].job \in {"exec", "grow"}
      BY <1>1, <1>4, <2>2 DEF Progress
    <2> QED
      BY <1>6, <2>1, <2>2
  <1>8. loc[p].as.map[loc[p].v] = 0
    BY <1>1, <1>5, <1>7, SpaceIs
  <1>9. loc[p].job = "exec" => Up(loc[p].end) = ImagePages
    BY <1>1, BelowSize DEF CallOK
  <1>10. /\ loc[p].job = "fork" => loc[p].v \in Mapped(mem[p].as)
         /\ loc[p].job # "fork" => loc[p].v \notin loc[p].as.holes
    BY <1>1 DEF CallOK
  <1> QED
    BY <1>3, <1>4, <1>5, <1>6, <1>8, <1>9, <1>10

\* The locals m are l with the page at hand mapped.
Advanced(l, m) ==
  /\ SpaceOK(m.as) /\ Mapped(m.as) = Mapped(l.as) \cup {l.v}
  /\ m.as.root = l.as.root /\ l.as.tables \subseteq m.as.tables /\ m.as.holes = l.as.holes
  /\ \A u \in VPages : u # l.v => m.as.map[u] = l.as.map[u]
  /\ m.job = l.job /\ m.np = l.np /\ m.tmp = l.tmp /\ m.v = l.v + 1 /\ m.end = l.end
  /\ m.hold = 0 /\ m.res = 0 /\ m.pg = 0
  /\ SpacePages(m.as) = SpacePages(l.as) \cup ({l.hold, l.pg} \ {0})

\* A page is mapped: the address space has one page more, and one of the page that
\* kalloc returned and the one that waited is in its place.
LEMMA MappedStep ==
  ASSUME MemInv, NEW p \in Procs, Granted(p), pc[p] \in {"page", "low"},
         NEW l \in Locals, loc' = [loc EXCEPT ![p] = l], Goto(p, "next"),
         UNCHANGED <<free, status, mem, lost>>,
         Advanced(loc[p], l)
  PROVE  MemInv'
  <1> USE DEF Advanced
  <1>1. /\ MemTypes /\ loc[p] \in Locals /\ CallOK(p) /\ Progress(p) /\ HandOK(loc[p], mem[p].as)
        /\ mem[p].as \in SpaceType /\ MemPages(mem[p]) \cap Hand(loc[p], mem[p].as) = {}
    BY CallIs
  <1>2. /\ loc[p].pg \in Pages /\ loc[p].pg \notin {0, None} /\ loc[p].res = 0 /\ status[p] = "used"
        /\ loc[p].pg \notin SpacePages(loc[p].as) \cup loc[p].tmp /\ loc[p].hold # None
        /\ loc[p].hold # 0 => loc[p].hold \notin SpacePages(loc[p].as) \cup loc[p].tmp
        /\ loc[p].tmp \cap SpacePages(loc[p].as) = {}
    BY GrantedIs
  <1>3. /\ loc[p].v \in VPages /\ loc[p].v + 1 <= Up(loc[p].end) /\ loc[p].v \in Nat
        /\ loc[p].job = "exec" => loc[p].v + 1 <= ImagePages
        /\ loc[p].job = "fork" => loc[p].v \in Mapped(mem[p].as)
        /\ loc[p].job # "fork" => loc[p].v \notin loc[p].as.holes
        /\ loc[p].job = "grow" => Up(mem[p].as.sz) \in Nat
        /\ loc[p].job \in {"fork", "exec", "grow"}
    BY HereIs
  <1>4. PICK S : S = {loc[p].hold, loc[p].pg} \ {0}
    OBVIOUS
  <1>5. {loc[p].hold, loc[p].pg} \ {0, None} = S /\ {l.hold, l.pg} \ {0, None} = {}
    BY <1>2, <1>4
  <1>6. S \cap SpacePages(mem[p].as) = {}
    BY <1>1, <1>5 DEF MemPages, Hand
  <1>7. Fresh(l, mem[p].as) = Fresh(loc[p], mem[p].as) \cup S
    BY <1>4, <1>6 DEF Fresh
  <1>8. Hand(l, mem[p].as) = Hand(loc[p], mem[p].as)
    BY <1>5, <1>7 DEF Hand
  <1>9. HandOK(l, mem[p].as)
    <2>1. l.tmp \cap Fresh(l, mem[p].as) = {}
      BY <1>1, <1>2, <1>4, <1>7 DEF HandOK
    <2>2. ASSUME l.job = "grow"
          PROVE  /\ l.as.root = mem[p].as.root /\ mem[p].as.tables \subseteq l.as.tables
                 /\ l.as.holes = mem[p].as.holes
                 /\ \A u \in VPages : u < Up(mem[p].as.sz) => l.as.map[u] = mem[p].as.map[u]
      <3>1. Up(mem[p].as.sz) <= loc[p].v
        BY <1>1, <2>2 DEF Progress
      <3>2. \A u \in VPages : u < Up(mem[p].as.sz) => u # loc[p].v
        BY <1>3, <2>2, <3>1
      <3> QED
        BY <1>1, <2>2, <3>2 DEF HandOK
    <2> QED
      BY <2>1, <2>2 DEF HandOK
  <1>10. ASSUME loc'[p] = l /\ pc'[p] = "next" /\ mem' = mem /\ status' = status
         PROVE  CallOK(p)' /\ Progress(p)'
    <2>1. CallOK(p)'
      BY <1>1, <1>2, <1>3, <1>10 DEF CallOK, Asking
    <2>2. Mapped(l.as) = Mapped(loc[p].as) \cup {loc[p].v} /\ VPages \subseteq Nat
      BY BelowSize DEF VPages
    <2>3. loc[p].as.holes \subseteq VPages /\ mem[p].as.sz \in 0 .. MaxSz /\ Mapped(mem[p].as) \subseteq VPages
      BY <1>1, SpaceIs DEF Locals, SpaceType
    <2>4. CASE loc[p].job = "fork"
      <3>1. Mapped(loc[p].as) = {u \in Mapped(mem[p].as) : u < loc[p].v}
        BY <1>1, <2>4 DEF Progress
      <3>2. \A u \in Mapped(mem[p].as) : u < loc[p].v + 1 <=> u < loc[p].v \/ u = loc[p].v
        BY <1>3, <2>2, <2>3
      <3>3. Mapped(l.as) = {u \in Mapped(mem[p].as) : u < loc[p].v + 1}
        BY <1>3, <2>2, <2>4, <3>1, <3>2
      <3> QED
        <4>1. loc'[p].job = "fork" /\ loc'[p].as = l.as /\ loc'[p].v = loc[p].v + 1 /\ mem'[p] = mem[p]
          BY <1>10, <2>4
        <4> QED
          BY <2>1, <3>3, <4>1 DEF Progress
    <2>5. ASSUME loc[p].job \in {"exec", "grow"}
          PROVE  Mapped(l.as) = {u \in VPages : u < l.v} \ l.as.holes
      <3>1. Mapped(loc[p].as) = {u \in VPages : u < loc[p].v} \ l.as.holes
        BY <1>1, <2>5 DEF Progress
      <3>2. \A u \in VPages : u < loc[p].v + 1 <=> u < loc[p].v \/ u = loc[p].v
        BY <1>3, <2>2
      <3>3. loc[p].v \notin l.as.holes /\ l.v = loc[p].v + 1
        BY <1>3, <2>5
      <3> QED
        BY <1>3, <2>2, <3>1, <3>2, <3>3
    <2>6. CASE loc[p].job = "exec"
      <3>1. loc'[p].job = "exec" /\ loc'[p].as = l.as /\ loc'[p].v = l.v /\ l.v <= ImagePages
        BY <1>3, <1>10, <2>6
      <3>2. \A u \in l.as.holes : u < ImagePages
        BY <1>1, <2>6 DEF Progress
      <3> QED
        BY <2>1, <2>5, <2>6, <3>1, <3>2 DEF Progress
    <2>7. CASE loc[p].job = "grow"
      <3>1. Up(mem[p].as.sz) <= loc[p].v
        BY <1>1, <2>7 DEF Progress
      <3>2. Up(mem[p].as.sz) <= l.v /\ l.v <= Up(l.end)
        BY <1>3, <2>7, <3>1
      <3> QED
        <4>1. /\ loc'[p].job = "grow" /\ loc'[p].as = l.as /\ loc'[p].v = l.v /\ loc'[p].end = l.end
              /\ mem'[p] = mem[p]
          BY <1>10, <2>7
        <4> QED
          BY <2>1, <2>5, <2>7, <3>2, <4>1 DEF Progress
    <2> QED
      BY <1>3, <2>1, <2>4, <2>6, <2>7
  <1>11. "next" \in Asking \cup {"idle", "next"}
    OBVIOUS
  <1> QED
    BY <1>2, <1>8, <1>9, <1>10, <1>11, BuildStep

\* uvmcopy passes over a page that the parent has not mapped, and exec over one in no
\* segment; otherwise the loops ask for a page.
LEMMA NextPageStep ==
  ASSUME MemInv, NEW p \in Procs, NextPage(p)
  PROVE  MemInv'
  <1>1. /\ MemTypes /\ loc[p] \in Locals /\ CallOK(p) /\ Progress(p) /\ HandOK(loc[p], mem[p].as)
        /\ mem[p].as \in SpaceType
    BY CallIs
  <1>2. pc[p] = "next" /\ loc[p].hold = 0 /\ loc[p].pg = 0 /\ loc[p].res = 0 /\ status[p] = "used"
    BY <1>1 DEF NextPage, At, CallOK, Asking
  <1>3. /\ loc[p].v \in 0 .. Up(MaxSz) /\ loc[p].end \in 0 .. MaxSz
        /\ loc[p].job \in {"none", "fork", "exec", "grow"}
    BY <1>1 DEF Locals
  <1>4. loc[p].v \in Nat /\ loc[p].v < Up(loc[p].end) /\ loc[p].v + 1 \in 0 .. Up(MaxSz)
    BY <1>3, BelowSize DEF NextPage, More
  <1>5. UNCHANGED <<free, status, mem, lost>>
    BY DEF NextPage
  <1>6. CASE Skip(p)
    <2>1. /\ loc[p].job = "fork" => loc[p].v \notin Mapped(mem[p].as)
          /\ loc[p].job # "fork" => loc[p].v \in loc[p].as.holes
      BY <1>6 DEF Skip
    <2>2. PICK l : l = [loc[p] EXCEPT !.v = loc[p].v + 1]
      OBVIOUS
    <2>3. loc' = [loc EXCEPT ![p] = l]
      BY <1>1, <1>6, <2>2 DEF NextPage, MemTypes
    <2>4. Goto(p, "next")
      BY <1>1, <1>2, <1>6 DEF NextPage, MemTypes, Goto
    <2>5. l \in Locals
      BY <1>1, <1>4, <2>2 DEF Locals
    <2>6. /\ l.job = loc[p].job /\ l.np = loc[p].np /\ l.tmp = loc[p].tmp /\ l.as = loc[p].as
          /\ l.v = loc[p].v + 1 /\ l.end = loc[p].end /\ l.hold = 0 /\ l.res = 0 /\ l.pg = 0
      BY <1>1, <1>2, <2>2 DEF Locals
    <2> HIDE <2>2
    <2>7. Hand(l, mem[p].as) = Hand(loc[p], mem[p].as) /\ HandOK(l, mem[p].as)
      BY <1>1, <1>2, <2>6 DEF Hand, HandOK, Fresh
    <2>8. ASSUME loc'[p] = l /\ pc'[p] = "next" /\ mem' = mem /\ status' = status
          PROVE  CallOK(p)' /\ Progress(p)'
      <3>1. CallOK(p)'
        BY <1>1, <1>2, <2>6, <2>8 DEF CallOK, Asking
      <3>2. /\ loc'[p].job = loc[p].job /\ loc'[p].as = loc[p].as /\ loc'[p].v = loc[p].v + 1
            /\ loc'[p].end = loc[p].end /\ mem'[p] = mem[p]
        BY <2>6, <2>8
      <3>3. VPages \subseteq Nat /\ Mapped(mem[p].as) \subseteq VPages
        BY <1>1, SpaceIs, BelowSize DEF VPages
      <3>4. CASE loc[p].job = "fork"
        <4>1. Mapped(loc[p].as) = {u \in Mapped(mem[p].as) : u < loc[p].v}
          BY <1>1, <3>4 DEF Progress
        <4>2. \A u \in Mapped(mem[p].as) : u < loc[p].v <=> u < loc[p].v + 1
          <5>1. \A u \in Mapped(mem[p].as) : u \in Nat /\ u # loc[p].v
            BY <2>1, <3>3, <3>4
          <5> QED
            BY <1>4, <5>1
        <4>3. Mapped(loc[p].as) = {u \in Mapped(mem[p].as) : u < loc[p].v + 1}
          BY <4>1, <4>2
        <4> QED
          BY <3>1, <3>2, <3>4, <4>3 DEF Progress
      <3>5. CASE loc[p].job \in {"exec", "grow"}
        <4>1. Mapped(loc[p].as) = {u \in VPages : u < loc[p].v} \ loc[p].as.holes
          BY <1>1, <3>5 DEF Progress
        <4>2. \A u \in VPages : u \notin loc[p].as.holes => (u < loc[p].v <=> u < loc[p].v + 1)
          BY <1>4, <2>1, <3>3, <3>5
        <4>3. Mapped(loc[p].as) = {u \in VPages : u < loc[p].v + 1} \ loc[p].as.holes
          BY <4>1, <4>2
        <4>4. loc[p].job = "exec" => Up(loc[p].end) = ImagePages /\ ImagePages \in Nat
          BY <1>1, BelowSize DEF CallOK
        <4>5. Up(loc[p].end) \in Nat
          BY <1>3, BelowSize
        <4>6. loc[p].job = "exec" => loc[p].v + 1 <= ImagePages
          BY <1>4, <4>4
        <4>7. loc[p].job = "grow" => Up(mem[p].as.sz) <= loc[p].v + 1 /\ loc[p].v + 1 <= Up(loc[p].end)
          <5>1. Up(mem[p].as.sz) \in Nat
            BY <1>1, BelowSize DEF SpaceType
          <5> QED
            BY <1>1, <1>4, <4>5, <5>1 DEF Progress
        <4>8. loc[p].job = "exec" => \A u \in loc[p].as.holes : u < ImagePages
          BY <1>1 DEF Progress
        <4> QED
          BY <3>1, <3>2, <3>5, <4>3, <4>6, <4>7, <4>8 DEF Progress
      <3>6. loc[p].job # "none"
        BY <1>1, <1>2 DEF CallOK
      <3> QED
        BY <1>3, <3>4, <3>5, <3>6
    <2> QED
      BY <1>2, <1>5, <2>3, <2>4, <2>5, <2>6, <2>7, <2>8, BuildStep
  <1>7. CASE ~Skip(p)
    <2>1. Goto(p, "page") /\ "page" \in Asking \cup {"idle", "next"}
      BY <1>7 DEF NextPage, Asking
    <2>2. loc' = [loc EXCEPT ![p] = loc[p]]
      BY <1>1, <1>7 DEF NextPage, MemTypes
    <2>3. /\ loc[p].job = "fork" => loc[p].v \in Mapped(mem[p].as)
          /\ loc[p].job # "fork" => loc[p].v \notin loc[p].as.holes
      BY <1>7 DEF Skip
    <2>4. ASSUME loc'[p] = loc[p] /\ pc'[p] = "page" /\ mem' = mem /\ status' = status
          PROVE  CallOK(p)' /\ Progress(p)'
      <3>1. CallOK(p)'
        BY <1>1, <1>2, <1>4, <2>3, <2>4 DEF CallOK, Asking
      <3> QED
        BY <1>1, <2>4, <3>1 DEF Progress
    <2> QED
      BY <1>1, <1>2, <1>5, <2>1, <2>2, <2>4, BuildStep
  <1> QED
    BY <1>6, <1>7

\* There is a page: it is mapped if the table is there, and else waits for one.
LEMMA PageStep ==
  ASSUME MemInv, NEW p \in Procs, Page(p)
  PROVE  MemInv'
  <1>1. /\ MemTypes /\ loc[p] \in Locals /\ CallOK(p) /\ Progress(p) /\ HandOK(loc[p], mem[p].as)
        /\ mem[p].as \in SpaceType /\ Granted(p) /\ loc[p].as \in SpaceType
    BY CallIs DEF Page
  <1>2. pc[p] = "page" /\ loc[p].hold = 0
    BY <1>1 DEF Page, At, CallOK
  <1>3. /\ loc[p].pg \in Pages /\ loc[p].pg \notin {0, None} /\ loc[p].res = 0 /\ status[p] = "used"
        /\ loc[p].pg \notin SpacePages(loc[p].as) \cup loc[p].tmp
        /\ 0 \in 0 .. None /\ loc[p].pg \in 0 .. NPAGE
    BY <1>1, GrantedIs
  <1>4. loc[p].v \in VPages /\ loc[p].v + 1 \in 0 .. Up(MaxSz) /\ loc[p].as.map[loc[p].v] = 0
    BY <1>2, HereIs
  <1>5. UNCHANGED <<free, status, mem, lost>>
    BY DEF Page
  <1>6. CASE loc[p].as.low # 0
    <2>1. PICK l : l = MapAt(loc[p], loc[p].pg)
      OBVIOUS
    <2>2. loc' = [loc EXCEPT ![p] = l] /\ Goto(p, "next")
      BY <1>6, <2>1 DEF Page
    <2>3. HasMapped(loc[p], loc[p].pg, l)
      BY <1>1, <1>3, <1>4, <2>1, MapAtIs DEF HandOK
    <2>4. Advanced(loc[p], l) /\ l \in Locals
      BY <1>2, <1>3, <2>3 DEF HasMapped, Advanced
    <2> QED
      BY <1>1, <1>2, <1>5, <2>2, <2>4, MappedStep
  <1>7. CASE loc[p].as.low = 0
    <2>1. PICK l : l = [[loc[p] EXCEPT !.hold = loc[p].pg] EXCEPT !.pg = 0]
      OBVIOUS
    <2>2. loc' = [loc EXCEPT ![p] = l] /\ Goto(p, "low") /\ "low" \in Asking \cup {"idle", "next"}
      BY <1>1, <1>7, <2>1 DEF Page, MemTypes, Asking
    <2>3. l \in Locals
      BY <1>1, <1>3, <2>1 DEF Locals
    <2>4. /\ l.job = loc[p].job /\ l.np = loc[p].np /\ l.tmp = loc[p].tmp /\ l.as = loc[p].as
          /\ l.v = loc[p].v /\ l.end = loc[p].end /\ l.hold = loc[p].pg /\ l.res = 0 /\ l.pg = 0
      BY <1>1, <1>3, <2>1 DEF Locals
    <2> HIDE <2>1
    <2>5. {l.hold, l.pg} \ {0, None} = {loc[p].hold, loc[p].pg} \ {0, None} /\ Fresh(l, mem[p].as) = Fresh(loc[p], mem[p].as)
      BY <1>2, <2>4 DEF Fresh
    <2>6. Hand(l, mem[p].as) = Hand(loc[p], mem[p].as) /\ HandOK(l, mem[p].as)
      BY <1>1, <1>3, <2>4, <2>5 DEF Hand, HandOK
    <2>7. ASSUME loc'[p] = l /\ pc'[p] = "low" /\ mem' = mem /\ status' = status
          PROVE  CallOK(p)' /\ Progress(p)'
      <3>1. CallOK(p)'
        BY <1>1, <1>2, <1>3, <2>4, <2>7 DEF CallOK, Asking
      <3> QED
        BY <1>1, <2>4, <2>7, <3>1 DEF Progress
    <2> QED
      BY <1>2, <1>3, <1>5, <2>2, <2>3, <2>4, <2>6, <2>7, BuildStep
  <1> QED
    BY <1>6, <1>7

\* There is a page for the table: the page that waited is mapped.
LEMMA LowStep ==
  ASSUME MemInv, NEW p \in Procs, Low(p)
  PROVE  MemInv'
  <1>1. /\ MemTypes /\ loc[p] \in Locals /\ CallOK(p) /\ Progress(p) /\ HandOK(loc[p], mem[p].as)
        /\ mem[p].as \in SpaceType /\ Granted(p) /\ loc[p].as \in SpaceType
    BY CallIs DEF Low
  <1>2. pc[p] = "low" /\ loc[p].hold # 0
    BY <1>1 DEF Low, At, CallOK
  <1>3. /\ loc[p].pg \in Pages /\ loc[p].pg \notin {0, None} /\ loc[p].res = 0
        /\ loc[p].pg \notin SpacePages(loc[p].as) /\ loc[p].hold \in Pages /\ loc[p].hold # loc[p].pg
        /\ loc[p].hold \notin SpacePages(loc[p].as)
    BY <1>1, <1>2, GrantedIs
  <1>4. loc[p].v \in VPages /\ loc[p].v + 1 \in 0 .. Up(MaxSz) /\ loc[p].as.map[loc[p].v] = 0
    BY <1>2, HereIs
  <1>5. UNCHANGED <<free, status, mem, lost>>
    BY DEF Low
  <1>6. PICK k : k = MapAt(loc[p], loc[p].hold)
    OBVIOUS
  <1>7. HasMapped(loc[p], loc[p].hold, k)
    BY <1>1, <1>3, <1>4, <1>6, MapAtIs DEF HandOK
  <1>8. /\ k \in Locals /\ SpaceOK(k.as) /\ SpacePages(k.as) = SpacePages(loc[p].as) \cup {loc[p].hold}
        /\ Mapped(k.as) = Mapped(loc[p].as) \cup {loc[p].v}
        /\ k.as.root = loc[p].as.root /\ k.as.tables = loc[p].as.tables /\ k.as.holes = loc[p].as.holes
        /\ \A u \in VPages : u # loc[p].v => k.as.map[u] = loc[p].as.map[u]
        /\ k.job = loc[p].job /\ k.np = loc[p].np /\ k.tmp = loc[p].tmp /\ k.v = loc[p].v + 1
        /\ k.end = loc[p].end /\ k.hold = 0 /\ k.res = loc[p].res /\ k.pg = 0
    BY <1>7 DEF HasMapped
  <1>9. PICK as : as = [[k.as EXCEPT !.tables = k.as.tables \cup {loc[p].pg}] EXCEPT !.low = loc[p].pg]
    OBVIOUS
  <1>10. /\ as \in SpaceType /\ as.root = k.as.root /\ as.holes = k.as.holes
        /\ as.tables = k.as.tables \cup {loc[p].pg} /\ as.map = k.as.map /\ k.as \in SpaceType
    <2>1. k.as \in SpaceType
      BY <1>8 DEF Locals
    <2>2. loc[p].pg \in 0 .. NPAGE
      BY <1>3, MemoryAssumption DEF Pages
    <2> QED
      BY <1>3, <1>9, <2>1, <2>2 DEF SpaceType
  <1>11. PICK l : l = [k EXCEPT !.as = as]
    OBVIOUS
  <1>12. loc' = [loc EXCEPT ![p] = l] /\ Goto(p, "next")
    BY <1>6, <1>9, <1>11 DEF Low
  <1>13. l \in Locals
    BY <1>8, <1>10, <1>11 DEF Locals
  <1>14. /\ l.job = k.job /\ l.np = k.np /\ l.tmp = k.tmp /\ l.as = as /\ l.v = k.v /\ l.end = k.end
         /\ l.hold = 0 /\ l.res = k.res /\ l.pg = 0
    BY <1>8, <1>11 DEF Locals
  <1> HIDE <1>6, <1>9, <1>11
  <1>15. SpaceOK(as) /\ SpacePages(as) = SpacePages(k.as) \cup {loc[p].pg} /\ Mapped(as) = Mapped(k.as)
    <2>1. OneTable(k.as, loc[p].pg, as)
      BY <1>3, <1>8, <1>10, TableIs
    <2> QED
      BY <2>1 DEF OneTable
  <1>16. SpacePages(l.as) = SpacePages(loc[p].as) \cup ({loc[p].hold, loc[p].pg} \ {0})
    BY <1>2, <1>3, <1>8, <1>14, <1>15
  <1>17. Advanced(loc[p], l)
    <2>1. SpaceOK(l.as) /\ Mapped(l.as) = Mapped(loc[p].as) \cup {loc[p].v}
      BY <1>8, <1>14, <1>15
    <2>2. /\ l.as.root = loc[p].as.root /\ loc[p].as.tables \subseteq l.as.tables
          /\ l.as.holes = loc[p].as.holes /\ \A u \in VPages : u # loc[p].v => l.as.map[u] = loc[p].as.map[u]
      BY <1>8, <1>10, <1>14
    <2>3. /\ l.job = loc[p].job /\ l.np = loc[p].np /\ l.tmp = loc[p].tmp /\ l.v = loc[p].v + 1
          /\ l.end = loc[p].end /\ l.hold = 0 /\ l.res = 0 /\ l.pg = 0
      BY <1>3, <1>8, <1>14
    <2> QED
      BY <1>16, <2>1, <2>2, <2>3 DEF Advanced
  <1> QED
    BY <1>1, <1>2, <1>5, <1>12, <1>13, <1>17, MappedStep

-----------------------------------------------------------------------------
(* Calls begin and end. *)

\* An address space without pages.
LEMMA EmptyIs ==
  ASSUME NEW as \in SpaceType, as.root = 0, as.tables = {}, \A v \in VPages : as.map[v] = 0
  PROVE  SpaceOK(as) /\ SpacePages(as) = {} /\ Mapped(as) = {}
  <1>1. \A g : g \in SpacePages(as) <=>
          g # 0 /\ (g = as.root \/ g \in as.tables \/ \E v \in VPages : g = as.map[v])
    BY SpaceIs
  <1>2. SpacePages(as) = {}
    BY <1>1
  <1> QED
    BY <1>2 DEF SpaceOK, Mapped

\* A process in no call, and a slot that is free, have nothing.
LEMMA NothingIs ==
  /\ NoSpace \in SpaceType /\ NoLocals \in Locals /\ NoMem \in Mems
  /\ SpaceOK(NoSpace) /\ SpacePages(NoSpace) = {} /\ Mapped(NoSpace) = {}
  /\ NoSpace.holes = {} /\ NoSpace.sz = 0 /\ NoMem.as = NoSpace /\ NoMem.tf = 0 /\ NoMem.kstack = 0
  /\ MemPages(NoMem) = {} /\ MemOK(NoMem)
  /\ \A as : Hand(NoLocals, as) = {} /\ HandOK(NoLocals, as)
  <1>1. MaxSz \in Nat /\ NPAGE \in Nat /\ NPROC \in Nat /\ Up(MaxSz) \in Nat /\ None \in Nat /\ None # 0
    BY MemoryAssumption, BelowSize DEF None
  <1>2. /\ NoSpace \in SpaceType /\ NoSpace.root = 0 /\ NoSpace.tables = {}
        /\ NoSpace.holes = {} /\ NoSpace.sz = 0 /\ \A v \in VPages : NoSpace.map[v] = 0
    BY <1>1 DEF NoSpace, SpaceType
  <1>3. SpaceOK(NoSpace) /\ SpacePages(NoSpace) = {} /\ Mapped(NoSpace) = {}
    BY <1>2, EmptyIs
  <1>4. /\ NoLocals \in Locals /\ NoLocals.job = "none" /\ NoLocals.tmp = {} /\ NoLocals.as = NoSpace
        /\ NoLocals.hold = 0 /\ NoLocals.pg = 0
    BY <1>1, <1>2 DEF NoLocals, Locals
  <1>5. NoMem \in Mems /\ NoMem.as = NoSpace /\ NoMem.tf = 0 /\ NoMem.kstack = 0
    BY <1>1, <1>2 DEF NoMem, Mems
  <1>6. MemPages(NoMem) = {} /\ MemOK(NoMem)
    BY <1>3, <1>5 DEF MemPages, MemOK
  <1>7. ASSUME NEW as
        PROVE  Hand(NoLocals, as) = {} /\ HandOK(NoLocals, as)
    <2>1. Fresh(NoLocals, as) = {}
      BY <1>3, <1>4 DEF Fresh
    <2> QED
      BY <1>1, <1>3, <1>4, <2>1 DEF Hand, HandOK
  <1> QED
    BY <1>2, <1>3, <1>4, <1>5, <1>6, <1>7

\* A call that returns has nothing in its hands.
LEMMA DoneIs ==
  ASSUME MemInv, NEW p \in Procs, Done(p)
  PROVE  /\ loc' \in [Procs -> Locals] /\ \A q \in Procs : q # p => loc'[q] = loc[q]
         /\ pc' \in [Procs -> Asking \cup {"idle", "next", "panic"}] /\ \A q \in Procs : q # p => pc'[q] = pc[q]
         /\ Hand(loc'[p], mem'[p].as) = {} /\ HandOK(loc'[p], mem'[p].as)
         /\ CallOK(p)' /\ Progress(p)' /\ loc'[p].job = "none" /\ loc'[p].res = 0 /\ pc'[p] = "idle"
  <1>1. MemTypes /\ NoLocals \in Locals /\ "idle" \in Asking \cup {"idle", "next"} /\ Goto(p, "idle")
    BY CallIs, NothingIs DEF Done
  <1>2. /\ loc' \in [Procs -> Locals] /\ \A q \in Procs : q # p => loc'[q] = loc[q]
        /\ loc'[p] = NoLocals
    BY <1>1, SetLocals DEF Done
  <1>3. /\ pc' \in [Procs -> Asking \cup {"idle", "next", "panic"}] /\ \A q \in Procs : q # p => pc'[q] = pc[q]
        /\ pc'[p] = "idle"
    BY <1>1, SetPc
  <1>4. Hand(loc'[p], mem'[p].as) = {} /\ HandOK(loc'[p], mem'[p].as)
    BY <1>2, NothingIs
  <1>5. NoLocals.job = "none" /\ NoLocals.res = 0 /\ NoLocals.hold = 0 /\ NoLocals.pg = 0 /\ NoLocals.tmp = {}
    BY DEF NoLocals
  <1>6. CallOK(p)' /\ Progress(p)'
    BY <1>2, <1>3, <1>5 DEF CallOK, Progress, Asking
  <1> QED
    BY <1>2, <1>3, <1>4, <1>5, <1>6

\* What a process has that enters the kernel.
LEMMA EnterIs ==
  ASSUME MemInv, NEW p \in Procs, Enter(p)
  PROVE  /\ status[p] = "used" /\ pc[p] = "idle" /\ loc[p] = NoLocals
         /\ Hand(loc[p], mem[p].as) = {} /\ loc[p].job = "none" /\ loc[p].res = 0
         /\ loc[p].np = 0 /\ loc[p].tmp = {} /\ loc[p].as = NoSpace /\ loc[p].hold = 0 /\ loc[p].pg = 0
         /\ loc[p].v = 0
  <1>1. status[p] = "used" /\ pc[p] = "idle"
    BY DEF Enter, Idle, At
  <1>2. loc[p] = NoLocals
    BY <1>1, CallIs DEF CallOK
  <1> QED
    BY <1>1, <1>2, NothingIs DEF NoLocals

\* sys_exec begins.
LEMMA ExecStep ==
  ASSUME MemInv, NEW p \in Procs, NEW H \in SUBSET (0 .. ImagePages - 2), Exec(p, H)
  PROVE  MemInv'
  <1>1. /\ MemTypes /\ loc[p] \in Locals /\ loc[p].as \in SpaceType /\ CallOK(p)
    BY CallIs
  <1>2. /\ status[p] = "used" /\ pc[p] = "idle" /\ loc[p] = NoLocals
        /\ Hand(loc[p], mem[p].as) = {} /\ loc[p].res = 0
        /\ loc[p].tmp = {} /\ loc[p].as = NoSpace /\ loc[p].hold = 0 /\ loc[p].pg = 0 /\ loc[p].v = 0
    BY EnterIs DEF Exec
  <1>3. /\ ImagePages * PGSIZE \in 0 .. MaxSz /\ None # 0 /\ ImagePages \in Nat
        /\ H \subseteq VPages /\ \A u \in H : u < ImagePages
    <2>1. /\ ImagePages \in Nat /\ Up(ImagePages * PGSIZE) = ImagePages
          /\ ImagePages * PGSIZE \in 0 .. MaxSz
      BY BelowSize
    <2>2. \A u \in H : u \in Nat /\ u < ImagePages
      BY <2>1
    <2>3. \A u \in H : u \in VPages
      BY <2>1, <2>2, BelowSize
    <2> QED
      BY <2>1, <2>2, <2>3, MemoryAssumption DEF None
  <1>4. PICK as : as = [loc[p].as EXCEPT !.holes = H]
    OBVIOUS
  <1>5. /\ as \in SpaceType /\ as.root = loc[p].as.root /\ as.holes = H
        /\ as.tables = loc[p].as.tables /\ as.map = loc[p].as.map
    BY <1>1, <1>3, <1>4 DEF SpaceType
  <1>6. PICK l : l = [[[loc[p] EXCEPT !.job = "exec"] EXCEPT !.as = as] EXCEPT !.end = ImagePages * PGSIZE]
    OBVIOUS
  <1>7. loc' = [loc EXCEPT ![p] = l]
    BY <1>1, <1>4, <1>6, ZenonT(60) DEF Exec, MemTypes
  <1>8. l \in Locals
    BY <1>1, <1>3, <1>5, <1>6 DEF Locals
  <1>9. /\ l.job = "exec" /\ l.tmp = {} /\ l.as = as
        /\ l.v = 0 /\ l.end = ImagePages * PGSIZE /\ l.hold = 0 /\ l.res = 0 /\ l.pg = 0
    BY <1>1, <1>2, <1>6 DEF Locals
  <1> HIDE <1>4, <1>6
  <1>10. SpaceOK(as) /\ SpacePages(as) = {} /\ Mapped(as) = {}
    <2>1. as.root = 0 /\ as.tables = {} /\ \A v \in VPages : as.map[v] = 0
      BY <1>2, <1>5 DEF NoSpace
    <2> QED
      BY <1>5, <2>1, EmptyIs
  <1>11. Fresh(l, mem[p].as) = {}
    BY <1>9, <1>10 DEF Fresh
  <1>12. Hand(l, mem[p].as) = Hand(loc[p], mem[p].as) /\ HandOK(l, mem[p].as)
    BY <1>2, <1>3, <1>9, <1>10, <1>11 DEF Hand, HandOK
  <1>13. ASSUME loc'[p] = l /\ pc'[p] = "arg" /\ mem' = mem /\ status' = status
         PROVE  CallOK(p)' /\ Progress(p)'
    <2>1. CallOK(p)'
      BY <1>2, <1>9, <1>10, <1>13 DEF CallOK, Asking
    <2>2. VPages \subseteq Nat
      BY BelowSize DEF VPages
    <2>3. Mapped(l.as) = {u \in VPages : u < l.v} \ l.as.holes
      <3>1. \A u \in VPages : ~(u < 0)
        BY <2>2
      <3> QED
        BY <1>9, <1>10, <3>1
    <2>4. l.v <= ImagePages /\ \A u \in l.as.holes : u < ImagePages
      <3>1. l.as.holes = H /\ l.v = 0
        BY <1>5, <1>9
      <3>2. l.v <= ImagePages
        BY <1>3, <3>1
      <3>3. \A u \in l.as.holes : u < ImagePages
        BY <1>3, <3>1, Zenon
      <3> QED
        BY <3>2, <3>3
    <2> QED
      BY <1>9, <1>13, <2>1, <2>3, <2>4 DEF Progress
  <1>14. "arg" \in Asking \cup {"idle", "next"} /\ Goto(p, "arg") /\ UNCHANGED <<free, status, mem, lost>>
    BY DEF Asking, Exec
  <1> QED
    BY <1>2, <1>7, <1>8, <1>9, <1>12, <1>13, <1>14, BuildStep

\* sbrk begins to grow.
LEMMA GrowStep ==
  ASSUME MemInv, NEW p \in Procs, NEW n \in Nat, Grow(p, n)
  PROVE  MemInv'
  <1>1. /\ MemTypes /\ loc[p] \in Locals /\ mem[p].as \in SpaceType /\ SlotOK(p) /\ MemOK(mem[p])
        /\ None # 0
    BY CallIs
  <1>2. /\ status[p] = "used" /\ pc[p] = "idle" /\ Hand(loc[p], mem[p].as) = {} /\ loc[p].res = 0
        /\ loc[p].tmp = {} /\ loc[p].hold = 0 /\ loc[p].pg = 0
    BY EnterIs DEF Grow
  <1>3. mem[p].as.sz \in 0 .. MaxSz /\ mem[p].as.sz + n \in 0 .. MaxSz /\ mem[p].as.holes \subseteq VPages
    <2>1. mem[p].as.sz \in 0 .. MaxSz /\ MaxSz \in Nat /\ mem[p].as.holes \subseteq VPages
      BY <1>1, MemoryAssumption DEF SpaceType
    <2> QED
      BY <2>1 DEF Grow
  <1>4. /\ Up(mem[p].as.sz) \in 0 .. Up(MaxSz) /\ Up(mem[p].as.sz) <= Up(mem[p].as.sz + n)
    <2>1. Up(mem[p].as.sz) \in 0 .. Up(MaxSz)
      BY <1>3, BelowSize
    <2> QED
      BY <1>3, <2>1, UpMono
  <1>5. PICK l : l = [[[[loc[p] EXCEPT !.job = "grow"] EXCEPT !.as = mem[p].as] EXCEPT !.v = Up(mem[p].as.sz)]
                        EXCEPT !.end = mem[p].as.sz + n]
    OBVIOUS
  <1>6. loc' = [loc EXCEPT ![p] = l]
    BY <1>1, <1>5 DEF Grow, MemTypes
  <1>7. l \in Locals
    BY <1>1, <1>3, <1>4, <1>5 DEF Locals
  <1>8. /\ l.job = "grow" /\ l.tmp = {} /\ l.as = mem[p].as /\ l.v = Up(mem[p].as.sz)
        /\ l.end = mem[p].as.sz + n /\ l.hold = 0 /\ l.res = 0 /\ l.pg = 0
    BY <1>1, <1>2, <1>5 DEF Locals
  <1> HIDE <1>5
  <1>9. Fresh(l, mem[p].as) = {}
    BY <1>8 DEF Fresh
  <1>10. Hand(l, mem[p].as) = Hand(loc[p], mem[p].as) /\ HandOK(l, mem[p].as)
    BY <1>1, <1>2, <1>8, <1>9 DEF Hand, HandOK, MemOK
  <1>11. ASSUME loc'[p] = l /\ pc'[p] = "next" /\ mem' = mem /\ status' = status
         PROVE  CallOK(p)' /\ Progress(p)'
    <2>1. CallOK(p)'
      BY <1>2, <1>8, <1>11 DEF CallOK, Asking
    <2>2. Mapped(mem[p].as) = {v \in VPages : v < Up(mem[p].as.sz)} \ mem[p].as.holes
      BY <1>1, <1>2 DEF SlotOK
    <2>3. l.v <= l.v
      BY <1>4, <1>8
    <2> QED
      BY <1>4, <1>8, <1>11, <2>1, <2>2, <2>3 DEF Progress
  <1>12. "next" \in Asking \cup {"idle", "next"} /\ Goto(p, "next") /\ UNCHANGED <<free, status, mem, lost>>
    BY DEF Grow
  <1> QED
    BY <1>2, <1>6, <1>7, <1>8, <1>10, <1>11, <1>12, BuildStep

\* proc_freepagetable frees pages of the address space only, and all of them but the user's
\* pages that it spares.
LEMMA FreeIs ==
  ASSUME NEW p \in Procs, NEW as \in SpaceType, mem[p].tf \notin SpacePages(as)
  PROVE  /\ Freepagetable(p, as) \subseteq SpacePages(as)
         /\ UserPages(as) \cap Spared \subseteq SpacePages(as)
         /\ SpacePages(as) \subseteq Freepagetable(p, as) \cup (UserPages(as) \cap Spared)
  <1>1. \A g : g \in SpacePages(as) <=>
          g # 0 /\ (g = as.root \/ g \in as.tables \/ \E v \in VPages : g = as.map[v])
    BY SpaceIs
  <1>2. \A g : g \in UserPages(as) <=> g # 0 /\ \E v \in VPages : g = as.map[v]
    BY DEF UserPages
  <1>3. \A g : g \in Freepagetable(p, as) <=>
          \/ g # 0 /\ (g = as.root \/ g \in as.tables)
          \/ g \in UserPages(as) /\ g \notin Spared /\ g # mem[p].tf
    BY DEF Freepagetable
  <1> QED
    BY <1>1, <1>2, <1>3

\* sys_exec fails: it gives back the arguments' pages and, of the image it has made, what
\* proc_freepagetable frees.
LEMMA ExecFailStep ==
  ASSUME Serial, MemInv, NEW p \in Procs, ExecFail(p)
  PROVE  MemInv'
  <1>1. /\ MemTypes /\ CallOK(p) /\ loc[p].as \in SpaceType /\ loc[p].tmp \subseteq Pages
        /\ loc[p].hold # 0 => loc[p].hold \in Pages
        /\ None \notin Pages /\ 0 \notin Pages /\ Hand(loc[p], mem[p].as) \cap free = {}
        /\ MemPages(mem[p]) \cap Hand(loc[p], mem[p].as) = {}
    BY CallIs
  <1>2. /\ loc[p].job = "exec" /\ loc[p].pg \in {0, None} /\ status[p] = "used" /\ pc[p] # "panic"
        /\ UNCHANGED <<mem, status>> /\ Undisturbed(p) /\ Done(p)
    BY <1>1 DEF ExecFail, Failed, At, Kfree, CallOK, Asking
  <1>3. /\ loc' \in [Procs -> Locals] /\ \A q \in Procs : q # p => loc'[q] = loc[q]
        /\ pc' \in [Procs -> Asking \cup {"idle", "next", "panic"}] /\ \A q \in Procs : q # p => pc'[q] = pc[q]
        /\ Hand(loc'[p], mem'[p].as) = {} /\ HandOK(loc'[p], mem'[p].as) /\ pc'[p] # "panic"
        /\ CallOK(p)' /\ Progress(p)' /\ loc'[p].job = "none" /\ loc'[p].res = 0
    BY <1>2, DoneIs
  <1>4. \A q \in Procs : q # p => loc[q].res = 0
    BY <1>2, Quietly
  <1>5. PICK T : T = loc[p].tmp \cup ({loc[p].hold} \ {0})
    OBVIOUS
  <1>6. Hand(loc[p], mem[p].as) = T \cup SpacePages(loc[p].as) /\ T \subseteq Pages
    <2>1. {loc[p].hold, loc[p].pg} \ {0, None} = {loc[p].hold} \ {0}
      BY <1>1, <1>2
    <2> QED
      BY <1>1, <1>2, <1>5, <2>1 DEF Hand, Fresh
  <1>7. SpacePages(loc[p].as) \subseteq Pages
    BY <1>1, SpaceIs
  <1>8. CASE pc[p] \in {"high", "trap"}
    <2>1. loc[p].hold = 0
      BY <1>1, <1>8 DEF CallOK
    <2>2. free' = free \cup T /\ lost' = lost \cup SpacePages(loc[p].as)
      BY <1>5, <1>8, <2>1 DEF ExecFail, Kfree
    <2>3. Changed(p, p)
      BY <1>1, <1>2, <1>3, <1>6, <1>7, <2>2 DEF Changed, MemTypes
    <2> QED
      BY <1>1, <1>2, <1>3, <1>4, <1>6, <2>2, <2>3, HandStep
  <1>9. CASE pc[p] \notin {"high", "trap"}
    <2>1. PICK F, W : F = Freepagetable(p, loc[p].as) /\ W = UserPages(loc[p].as) \cap Spared
      OBVIOUS
    <2>2. free' = free \cup T \cup F /\ lost' = lost \cup W
      BY <1>5, <1>9, <2>1 DEF ExecFail, Kfree
    <2>3. mem[p].tf \notin SpacePages(loc[p].as)
      <3>1. mem[p].tf # 0 => mem[p].tf \in MemPages(mem[p])
        BY DEF MemPages
      <3> QED
        BY <1>1, <1>6, <1>7, <3>1
    <2>4. F \subseteq SpacePages(loc[p].as) /\ W \subseteq SpacePages(loc[p].as) /\ SpacePages(loc[p].as) \subseteq F \cup W
      BY <1>1, <2>1, <2>3, FreeIs
    <2>5. Changed(p, p)
      BY <1>1, <1>2, <1>3, <1>6, <1>7, <2>2, <2>4 DEF Changed, MemTypes
    <2> QED
      BY <1>1, <1>2, <1>3, <1>4, <1>6, <2>2, <2>4, <2>5, HandStep
  <1> QED
    BY <1>8, <1>9

-----------------------------------------------------------------------------
(* fork: steps that work on the child's slot. *)

\* The step gives p the locals l, and the slot a the pages m and the status t.
Sets(p, a, l, s, m, t) ==
  /\ loc' = [loc EXCEPT ![p] = l] /\ Goto(p, s)
  /\ mem' = [mem EXCEPT ![a] = m] /\ status' = [status EXCEPT ![a] = t]
  /\ free' \subseteq Pages /\ lost' \subseteq Pages

\* The locals of p and the slot a change.
LEMMA SlotSet ==
  ASSUME MemInv, NEW p \in Procs, NEW a \in Procs,
         NEW l \in Locals, NEW s \in Asking \cup {"idle", "next"}, NEW m \in Mems,
         NEW t \in {"free", "alloc", "used", "zombie"}, Sets(p, a, l, s, m, t)
  PROVE  /\ Changed(p, a) /\ loc'[p] = l /\ pc'[p] = s /\ mem'[a] = m /\ status'[a] = t
         /\ p # a => mem'[p] = mem[p] /\ status'[p] = status[p]
  <1>1. MemTypes
    BY CallIs
  <1>2. loc' \in [Procs -> Locals] /\ loc'[p] = l /\ \A q \in Procs : q # p => loc'[q] = loc[q]
    BY <1>1, SetLocals DEF Sets
  <1>3. /\ pc' \in [Procs -> Asking \cup {"idle", "next", "panic"}] /\ pc'[p] = s
        /\ \A q \in Procs : q # p => pc'[q] = pc[q]
    BY <1>1, SetPc DEF Sets
  <1>4. mem' \in [Procs -> Mems] /\ mem'[a] = m /\ \A q \in Procs : q # a => mem'[q] = mem[q]
    BY <1>1 DEF MemTypes, Sets
  <1>5. /\ status' \in [Procs -> {"free", "alloc", "used", "zombie"}] /\ status'[a] = t
        /\ \A q \in Procs : q # a => status'[q] = status[q]
    BY <1>1 DEF MemTypes, Sets
  <1> QED
    BY <1>2, <1>3, <1>4, <1>5 DEF Changed, Sets

\* The pages of the slot a, the free list and the hands of p are apart.
LEMMA SlotApart ==
  ASSUME MemInv, NEW p \in Procs, NEW a \in Procs
  PROVE  /\ free \cap MemPages(mem[a]) = {} /\ free \cap Hand(loc[p], mem[p].as) = {}
         /\ MemPages(mem[a]) \cap Hand(loc[p], mem[p].as) = {}
         /\ free \subseteq Pages /\ lost \subseteq Pages /\ MemPages(mem[a]) \subseteq Pages
         /\ mem[a] \in Mems /\ MemOK(mem[a]) /\ mem[a].as \in SpaceType
         /\ mem[a].tf \in 0 .. NPAGE /\ mem[a].kstack \in 0 .. NPAGE
  <1>1. LocalPages(p) = Hand(loc[p], mem[p].as) /\ MemTypes
    BY CallIs
  <1>2. /\ free \cap MemPages(mem[a]) = {} /\ free \cap Hand(loc[p], mem[p].as) = {}
        /\ MemPages(mem[a]) \cap Hand(loc[p], mem[p].as) = {}
    BY <1>1 DEF MemInv, Apart
  <1>3. mem[a] \in Mems /\ MemOK(mem[a]) /\ mem[a].as \in SpaceType
    BY CallIs
  <1>4. mem[a].tf \in 0 .. NPAGE /\ mem[a].kstack \in 0 .. NPAGE /\ NPAGE \in Nat
    BY <1>3, MemoryAssumption DEF Mems
  <1>5. \A g \in 0 .. NPAGE : g # 0 => g \in Pages
    BY <1>4 DEF Pages
  <1>6. MemPages(mem[a]) \subseteq Pages
    BY <1>3, <1>4, <1>5, SpaceIs DEF MemPages
  <1> QED
    BY <1>1, <1>2, <1>3, <1>4, <1>6 DEF MemTypes

\* sys_fork takes a slot.
LEMMA ForkStep ==
  ASSUME MemInv, NEW p \in Procs, Fork(p)
  PROVE  MemInv'
  <1>1. /\ MemTypes /\ loc[p] \in Locals /\ CallOK(p) /\ mem[p].as \in SpaceType
        /\ None # 0
    BY CallIs
  <1>2. /\ status[p] = "used" /\ pc[p] = "idle" /\ Hand(loc[p], mem[p].as) = {} /\ loc[p].res = 0
        /\ loc[p].tmp = {} /\ loc[p].as = NoSpace /\ loc[p].hold = 0 /\ loc[p].pg = 0 /\ loc[p].v = 0
    BY EnterIs DEF Fork
  <1>3. PICK a \in Procs :
          /\ status[a] = "free" /\ status' = [status EXCEPT ![a] = "alloc"]
          /\ loc' = [loc EXCEPT ![p].job = "fork", ![p].np = a, ![p].end = mem[p].as.sz]
    BY ZenonT(60) DEF Fork
  <1>4. UNCHANGED <<free, mem, lost>> /\ Goto(p, "tf") /\ "tf" \in Asking \cup {"idle", "next"}
    BY DEF Fork, Asking
  <1>5. mem[a] = NoMem /\ SlotOK(a)
    BY <1>3, CallIs DEF SlotOK
  <1>6. /\ a # p /\ pc[a] = "idle" /\ \A q \in Procs : loc[q].job = "fork" => loc[q].np # a
    BY <1>2, <1>3 DEF MemInv, CallOK
  <1>7. PICK l : l = [[[loc[p] EXCEPT !.job = "fork"] EXCEPT !.np = a] EXCEPT !.end = mem[p].as.sz]
    OBVIOUS
  <1>8. loc' = [loc EXCEPT ![p] = l]
    BY <1>1, <1>3, <1>7 DEF MemTypes
  <1>9. mem[p].as.sz \in 0 .. MaxSz /\ a \in 0 .. NPROC
    BY <1>1, MemoryAssumption DEF SpaceType, Procs
  <1>10. l \in Locals
    BY <1>1, <1>7, <1>9 DEF Locals
  <1>11. /\ l.job = "fork" /\ l.np = a /\ l.tmp = {} /\ l.as = NoSpace /\ l.v = 0
         /\ l.end = mem[p].as.sz /\ l.hold = 0 /\ l.res = 0 /\ l.pg = 0
    BY <1>1, <1>2, <1>7 DEF Locals
  <1>12. mem' = [mem EXCEPT ![a] = NoMem] /\ NoMem \in Mems
    BY <1>1, <1>4, <1>5, NothingIs DEF MemTypes
  <1> HIDE <1>7
  <1>13. /\ Changed(p, a) /\ loc'[p] = l /\ pc'[p] = "tf" /\ mem'[a] = NoMem /\ status'[a] = "alloc"
         /\ mem'[p] = mem[p] /\ status'[p] = status[p]
    <2>1. free' \subseteq Pages /\ lost' \subseteq Pages
      BY <1>1, <1>4 DEF MemTypes
    <2>2. Sets(p, a, l, "tf", NoMem, "alloc")
      BY <1>3, <1>4, <1>8, <1>12, <2>1 DEF Sets
    <2> QED
      BY <1>4, <1>6, <1>10, <1>12, <2>2, SlotSet
  <1>14. Alone(p, a)
    BY <1>6 DEF Alone
  <1>15. Hand(l, mem[p].as) = {} /\ HandOK(l, mem[p].as)
    <2>1. Fresh(l, mem[p].as) = {}
      BY <1>11, NothingIs DEF Fresh
    <2> QED
      BY <1>1, <1>11, <2>1, NothingIs DEF Hand, HandOK
  <1>16. Moves(p, a)
    BY <1>2, <1>4, <1>5, <1>13, <1>15, NothingIs DEF Moves
  <1>17. MemOK(mem'[a]) /\ HandOK(loc'[p], mem'[p].as) /\ SlotOK(a)'
    BY <1>13, <1>15, NothingIs DEF SlotOK
  <1>18. CallOK(p)'
    BY <1>2, <1>6, <1>11, <1>13, NothingIs DEF CallOK, Asking
  <1>19. Progress(p)'
    <2>1. Mapped(NoSpace) = {u \in Mapped(mem[p].as) : u < 0}
      <3>1. \A u \in Mapped(mem[p].as) : ~(u < 0)
        BY <1>1, SpaceIs, BelowSize DEF VPages
      <3> QED
        BY <3>1, NothingIs
    <2> QED
      BY <1>11, <1>13, <2>1 DEF Progress
  <1> QED
    BY <1>2, <1>4, <1>6, <1>11, <1>13, <1>14, <1>16, <1>17, <1>18, <1>19, StepKeeps

\* allocproc has the page of the trapframe, or of the kernel stack.
LEMMA ForkPageStep ==
  ASSUME MemInv, NEW p \in Procs, ForkTrapframe(p) \/ ForkKstack(p)
  PROVE  MemInv'
  <1>1. /\ MemTypes /\ loc[p] \in Locals /\ CallOK(p) /\ Progress(p) /\ HandOK(loc[p], mem[p].as)
        /\ Granted(p) /\ None # 0
    BY CallIs DEF ForkTrapframe, ForkKstack
  <1>2. /\ loc[p].pg \in Pages /\ loc[p].pg \notin {0, None} /\ loc[p].res = 0 /\ status[p] = "used"
        /\ 0 \in 0 .. None /\ loc[p].pg \in 0 .. NPAGE
    BY <1>1, GrantedIs
  <1>3. /\ pc[p] \in {"tf", "kstack"} /\ loc[p].job = "fork" /\ loc[p].hold = 0 /\ loc[p].tmp = {}
        /\ SpacePages(loc[p].as) = {}
    BY <1>1 DEF ForkTrapframe, ForkKstack, At, CallOK
  <1>4. PICK a \in Procs : a = loc[p].np
    BY <1>3, ChildIsAlone
  <1>5. a # p /\ Alone(p, a) /\ status[a] = "alloc"
    BY <1>3, <1>4, ChildIsAlone
  <1>6. /\ free \cap MemPages(mem[a]) = {} /\ free \cap Hand(loc[p], mem[p].as) = {}
        /\ MemPages(mem[a]) \cap Hand(loc[p], mem[p].as) = {}
        /\ mem[a] \in Mems /\ MemOK(mem[a]) /\ free \subseteq Pages /\ lost \subseteq Pages
    BY SlotApart
  <1>7. /\ SpacePages(mem[a].as) = {} /\ mem[a].kstack = 0
        /\ pc[p] = "tf" => mem[a].tf = 0
    BY <1>1, <1>3, <1>4 DEF CallOK
  <1>8. UNCHANGED <<free, status, lost>>
    BY DEF ForkTrapframe, ForkKstack
  <1>9. Hand(loc[p], mem[p].as) = {loc[p].pg}
    <2>1. Fresh(loc[p], mem[p].as) = {}
      BY <1>3 DEF Fresh
    <2> QED
      BY <1>2, <1>3, <2>1 DEF Hand
  <1>10. PICK l : l = [loc[p] EXCEPT !.pg = 0]
    OBVIOUS
  <1>11. loc' = [loc EXCEPT ![p] = l]
    BY <1>1, <1>10 DEF ForkTrapframe, ForkKstack, MemTypes
  <1>12. l \in Locals
    BY <1>1, <1>2, <1>10 DEF Locals
  <1>13. /\ l.job = "fork" /\ l.np = a /\ l.tmp = {} /\ l.as = loc[p].as /\ l.v = loc[p].v
         /\ l.end = loc[p].end /\ l.hold = 0 /\ l.res = 0 /\ l.pg = 0
    BY <1>1, <1>2, <1>3, <1>4, <1>10 DEF Locals
  <1> HIDE <1>10
  <1>14. PICK m, s :
           /\ mem' = [mem EXCEPT ![a] = m] /\ Goto(p, s) /\ m \in Mems /\ m.as = mem[a].as
           /\ \/ pc[p] = "tf" /\ s = "kstack" /\ m.tf = loc[p].pg /\ m.kstack = 0
              \/ pc[p] = "kstack" /\ s = "root" /\ m.tf = mem[a].tf /\ m.kstack = loc[p].pg
    <2>1. CASE ForkTrapframe(p)
      <3>1. PICK m : m = [mem[a] EXCEPT !.tf = loc[p].pg]
        OBVIOUS
      <3>2. mem' = [mem EXCEPT ![a] = m] /\ Goto(p, "kstack") /\ pc[p] = "tf"
        BY <1>1, <1>4, <2>1, <3>1 DEF ForkTrapframe, At, MemTypes
      <3>3. m \in Mems /\ m.as = mem[a].as /\ m.tf = loc[p].pg /\ m.kstack = mem[a].kstack
        BY <1>2, <1>6, <3>1 DEF Mems
      <3> QED
        BY <1>7, <3>2, <3>3
    <2>2. CASE ForkKstack(p)
      <3>1. PICK m : m = [mem[a] EXCEPT !.kstack = loc[p].pg]
        OBVIOUS
      <3>2. mem' = [mem EXCEPT ![a] = m] /\ Goto(p, "root") /\ pc[p] = "kstack"
        BY <1>1, <1>4, <2>2, <3>1 DEF ForkKstack, At, MemTypes
      <3>3. m \in Mems /\ m.as = mem[a].as /\ m.tf = mem[a].tf /\ m.kstack = loc[p].pg
        BY <1>2, <1>6, <3>1 DEF Mems
      <3> QED
        BY <3>2, <3>3
    <2> QED
      BY <2>1, <2>2
  <1>15. s \in Asking \cup {"idle", "next"} /\ s \in {"kstack", "root"}
    BY <1>14 DEF Asking
  <1>16. status' = [status EXCEPT ![a] = "alloc"]
    BY <1>1, <1>5, <1>8 DEF MemTypes
  <1>17. /\ Changed(p, a) /\ loc'[p] = l /\ pc'[p] = s /\ mem'[a] = m /\ status'[a] = "alloc"
         /\ mem'[p] = mem[p] /\ status'[p] = status[p]
    <2>1. free' \subseteq Pages /\ lost' \subseteq Pages
      BY <1>6, <1>8
    <2>2. Sets(p, a, l, s, m, "alloc") /\ m \in Mems
      BY <1>11, <1>14, <1>16, <2>1 DEF Sets
    <2> QED
      BY <1>5, <1>12, <1>15, <2>2, SlotSet
  <1>18. Hand(l, mem[p].as) = {} /\ HandOK(l, mem[p].as)
    <2>1. Fresh(l, mem[p].as) = {}
      BY <1>3, <1>13 DEF Fresh
    <2> QED
      BY <1>1, <1>13, <2>1 DEF Hand, HandOK
  <1>19. MemPages(m) = MemPages(mem[a]) \cup {loc[p].pg}
    BY <1>2, <1>7, <1>14 DEF MemPages
  <1>20. MemOK(m)
    <2>1. mem[a].tf # 0 => mem[a].tf # loc[p].pg
      BY <1>6, <1>9 DEF MemPages
    <2> QED
      BY <1>2, <1>6, <1>7, <1>14, <2>1 DEF MemOK
  <1>21. Moves(p, a)
    BY <1>6, <1>8, <1>9, <1>17, <1>18, <1>19 DEF Moves
  <1>22. SlotOK(a)'
    BY <1>17 DEF SlotOK
  <1>23. CallOK(p)'
    <2>1. SpacePages(l.as) = {} /\ SpacePages(m.as) = {} /\ (s = "kstack" => m.kstack = 0)
      BY <1>3, <1>7, <1>13, <1>14
    <2> QED
      BY <1>1, <1>2, <1>3, <1>4, <1>5, <1>13, <1>15, <1>17, <2>1 DEF CallOK, Asking
  <1>24. Progress(p)'
    BY <1>1, <1>3, <1>13, <1>17 DEF Progress
  <1>25. \A q \in Procs : q # p /\ loc[q].job = "fork" => loc[q].np # loc'[p].np
    BY <1>5, <1>13, <1>17 DEF Alone
  <1> QED
    BY <1>3, <1>5, <1>8, <1>13, <1>15, <1>17, <1>18, <1>20, <1>21, <1>22, <1>23, <1>24, <1>25, StepKeeps

\* What a step has to show that ends the call of p and leaves the slot a with m and t.
LEMMA EndStep ==
  ASSUME Serial, MemInv, NEW p \in Procs, NEW a \in Procs, Alone(p, a), Done(p),
         loc[p].job # "none" \/ pc[p] = "idle",
         NEW m \in Mems, NEW t \in {"free", "alloc", "used", "zombie"},
         Sets(p, a, NoLocals, "idle", m, t), MemOK(m),
         free' \cup MemPages(m) \subseteq free \cup MemPages(mem[a]) \cup Hand(loc[p], mem[p].as),
         free \cup MemPages(mem[a]) \cup Hand(loc[p], mem[p].as) \subseteq free' \cup MemPages(m) \cup lost',
         lost \subseteq lost', free' \cap MemPages(m) = {},
         mem'[a] = m /\ status'[a] = t /\ pc'[a] = "idle" => SlotOK(a)',
         free' = free \/ Undisturbed(p)
  PROVE  MemInv'
  <1>1. NoLocals \in Locals /\ "idle" \in Asking \cup {"idle", "next"}
    BY NothingIs
  <1>2. Changed(p, a) /\ mem'[a] = m /\ status'[a] = t
    BY <1>1, SlotSet
  <1>3. /\ Hand(loc'[p], mem'[p].as) = {} /\ HandOK(loc'[p], mem'[p].as)
        /\ CallOK(p)' /\ Progress(p)' /\ loc'[p].job = "none" /\ loc'[p].res = 0 /\ pc'[p] = "idle"
    BY DoneIs
  <1>4. Moves(p, a)
    BY <1>2, <1>3 DEF Moves
  <1>5. \A q \in Procs : q # p /\ loc[q].res # 0 => free' = free
    BY Quietly
  <1>6. pc[p] # "panic"
    BY CallIs DEF CallOK
  <1>7. pc'[a] = "idle"
    BY <1>2, <1>3 DEF Alone, Changed
  <1> QED
    BY <1>2, <1>3, <1>4, <1>5, <1>6, <1>7, StepKeeps

\* What a fork has in its hands.
LEMMA ForkIs ==
  ASSUME MemInv, NEW p \in Procs, loc[p].job = "fork", loc[p].pg \in {0, None}
  PROVE  /\ Hand(loc[p], mem[p].as) = SpacePages(loc[p].as) \cup ({loc[p].hold} \ {0})
         /\ MemPages(mem[loc[p].np]) = {mem[loc[p].np].tf, mem[loc[p].np].kstack} \ {0}
         /\ loc[p].hold # 0 => loc[p].hold \in Pages /\ loc[p].hold \notin SpacePages(loc[p].as)
         /\ SpaceOK(loc[p].as) /\ loc[p].as \in SpaceType /\ SpacePages(loc[p].as) \subseteq Pages
  <1>1. /\ CallOK(p) /\ HandOK(loc[p], mem[p].as) /\ loc[p].as \in SpaceType /\ None \notin Pages
        /\ loc[p].hold # 0 => loc[p].hold \in Pages
    BY CallIs
  <1>2. loc[p].tmp = {} /\ SpacePages(mem[loc[p].np].as) = {}
    BY <1>1 DEF CallOK
  <1>3. {loc[p].hold, loc[p].pg} \ {0, None} = {loc[p].hold} \ {0}
    BY <1>1
  <1>4. Fresh(loc[p], mem[p].as) = SpacePages(loc[p].as)
    BY DEF Fresh
  <1>5. Hand(loc[p], mem[p].as) = SpacePages(loc[p].as) \cup ({loc[p].hold} \ {0})
    BY <1>2, <1>3, <1>4 DEF Hand
  <1>6. MemPages(mem[loc[p].np]) = {mem[loc[p].np].tf, mem[loc[p].np].kstack} \ {0}
    BY <1>2 DEF MemPages
  <1>7. SpacePages(loc[p].as) \subseteq Pages
    BY <1>1, SpaceIs
  <1> QED
    BY <1>1, <1>4, <1>5, <1>6, <1>7 DEF HandOK

\* The child's slot is given back, and what there is of its page table is forgotten.
LEMMA ForkFailStep ==
  ASSUME Serial, MemInv, NEW p \in Procs, ForkFail(p)
  PROVE  MemInv'
  <1>1. loc[p].job = "fork" /\ loc[p].pg \in {0, None} /\ Done(p) /\ Undisturbed(p)
    BY DEF ForkFail, Failed, Kfree
  <1>2. PICK a \in Procs : a = loc[p].np
    BY <1>1, ChildIsAlone
  <1>3. Alone(p, a)
    BY <1>1, <1>2, ChildIsAlone
  <1>4. /\ Hand(loc[p], mem[p].as) = SpacePages(loc[p].as) \cup ({loc[p].hold} \ {0})
        /\ MemPages(mem[a]) = {mem[a].tf, mem[a].kstack} \ {0}
        /\ loc[p].as \in SpaceType /\ SpacePages(loc[p].as) \subseteq Pages
    BY <1>1, <1>2, ForkIs
  <1>5. pc[p] \in {"tf", "kstack", "root", "high", "trap"} /\ CallOK(p)
    BY CallIs DEF ForkFail
  <1>6. loc[p].hold = 0
    BY <1>5 DEF CallOK
  <1>8. /\ free' = free \cup MemPages(mem[a]) /\ lost' = lost \cup SpacePages(loc[p].as)
        /\ mem' = [mem EXCEPT ![a] = NoMem] /\ status' = [status EXCEPT ![a] = "free"]
    BY <1>2, <1>4 DEF ForkFail, Kfree
  <1>9. free \subseteq Pages /\ lost \subseteq Pages /\ MemPages(mem[a]) \subseteq Pages
    BY SlotApart
  <1>10. Sets(p, a, NoLocals, "idle", NoMem, "free")
    BY <1>1, <1>4, <1>8, <1>9 DEF Sets, Done
  <1>11. NoMem \in Mems /\ MemPages(NoMem) = {} /\ MemOK(NoMem)
    BY NothingIs
  <1>12. mem'[a] = NoMem /\ status'[a] = "free" => SlotOK(a)'
    BY DEF SlotOK
  <1>13. free \cup MemPages(mem[a]) \cup Hand(loc[p], mem[p].as) \subseteq free' \cup MemPages(NoMem) \cup lost'
    BY <1>4, <1>6, <1>8
  <1>14. /\ free' \cup MemPages(NoMem) \subseteq free \cup MemPages(mem[a]) \cup Hand(loc[p], mem[p].as)
         /\ lost \subseteq lost' /\ free' \cap MemPages(NoMem) = {}
    BY <1>8, <1>11
  <1> QED
    BY <1>1, <1>3, <1>10, <1>11, <1>12, <1>13, <1>14, EndStep

\* The address space of m is as, and the rest is that of o.
HasSpace(o, as, m) ==
  /\ m \in Mems /\ MemOK(m) /\ m.as = as
  /\ MemPages(m) = ({o.tf, o.kstack} \ {0}) \cup SpacePages(as)
  /\ MemPages(o) = ({o.tf, o.kstack} \ {0}) \cup SpacePages(o.as)

\* Two page tables have the same pages at the same places.
SameTable(as, bs) == as.root = bs.root /\ as.tables = bs.tables /\ as.map = bs.map

\* A slot gets the address space as, with pages different from its trapframe and kernel stack.
LEMMA SpaceSet ==
  ASSUME NEW o \in Mems, MemOK(o), NEW as \in SpaceType, SpaceOK(as),
         o.tf \notin SpacePages(as), o.kstack \notin SpacePages(as)
  PROVE  HasSpace(o, as, [o EXCEPT !.as = as])
  <1>1. PICK m : m = [o EXCEPT !.as = as]
    OBVIOUS
  <1>2. m \in Mems /\ m.as = as /\ m.tf = o.tf /\ m.kstack = o.kstack
    BY <1>1 DEF Mems
  <1>3. HasSpace(o, as, m)
    <2> HIDE <1>1
    <2>1. m.tf # 0 => m.tf # m.kstack
      BY <1>2 DEF MemOK
    <2>2. MemOK(m)
      BY <1>2, <2>1 DEF MemOK
    <2> QED
      BY <1>2, <2>2 DEF MemPages, HasSpace
  <1> QED
    BY <1>1, <1>3

\* The child has the address space as.
LEMMA ChildGets ==
  ASSUME MemInv, NEW p \in Procs, loc[p].job = "fork", loc[p].pg \in {0, None},
         NEW a \in Procs, a = loc[p].np, NEW as \in SpaceType, SameTable(as, loc[p].as)
  PROVE  /\ HasSpace(mem[a], as, [mem[a] EXCEPT !.as = as])
         /\ SpacePages(as) = SpacePages(loc[p].as)
         /\ MemPages(mem[a]) = {mem[a].tf, mem[a].kstack} \ {0}
  <1>1. /\ Hand(loc[p], mem[p].as) = SpacePages(loc[p].as) \cup ({loc[p].hold} \ {0})
        /\ MemPages(mem[a]) = {mem[a].tf, mem[a].kstack} \ {0}
        /\ SpaceOK(loc[p].as)
    BY ForkIs
  <1>2. MemPages(mem[a]) \cap Hand(loc[p], mem[p].as) = {} /\ mem[a] \in Mems /\ MemOK(mem[a])
    BY SlotApart
  <1>3. SpacePages(as) = SpacePages(loc[p].as) /\ SpaceOK(as) /\ 0 \notin SpacePages(as)
    BY <1>1 DEF SameTable, SpacePages, SpaceOK
  <1>4. mem[a].tf \notin SpacePages(as) /\ mem[a].kstack \notin SpacePages(as)
    BY <1>1, <1>2, <1>3
  <1>5. HasSpace(mem[a], as, [mem[a] EXCEPT !.as = as])
    BY <1>2, <1>3, <1>4, SpaceSet
  <1> QED
    BY <1>1, <1>3, <1>5

\* uvmcopy fails: the child's slot keeps what it has.
LEMMA UvmcopyFailStep ==
  ASSUME Serial, MemInv, NEW p \in Procs, UvmcopyFail(p)
  PROVE  MemInv'
  <1>1. loc[p].job = "fork" /\ loc[p].pg \in {0, None} /\ Done(p) /\ Undisturbed(p)
    BY DEF UvmcopyFail, Failed, Kfree
  <1>2. PICK a \in Procs : a = loc[p].np
    BY <1>1, ChildIsAlone
  <1>3. Alone(p, a) /\ status[a] = "alloc"
    BY <1>1, <1>2, ChildIsAlone
  <1>4. /\ Hand(loc[p], mem[p].as) = SpacePages(loc[p].as) \cup ({loc[p].hold} \ {0})
        /\ loc[p].hold # 0 => loc[p].hold \in Pages /\ loc[p].hold \notin SpacePages(loc[p].as)
        /\ loc[p].as \in SpaceType
    BY <1>1, ForkIs
  <1>5. /\ free \subseteq Pages /\ lost \subseteq Pages
        /\ free \cap MemPages(mem[a]) = {} /\ free \cap Hand(loc[p], mem[p].as) = {}
        /\ MemPages(mem[a]) \cap Hand(loc[p], mem[p].as) = {}
    BY SlotApart
  <1>6. PICK m : m = [mem[a] EXCEPT !.as = loc[p].as]
    OBVIOUS
  <1>7. m \in Mems /\ MemOK(m) /\ MemPages(m) = MemPages(mem[a]) \cup SpacePages(loc[p].as)
    <2>1. SameTable(loc[p].as, loc[p].as)
      BY DEF SameTable
    <2>2. /\ HasSpace(mem[a], loc[p].as, [mem[a] EXCEPT !.as = loc[p].as])
          /\ MemPages(mem[a]) = {mem[a].tf, mem[a].kstack} \ {0}
      BY <1>1, <1>2, <1>4, <2>1, ChildGets
    <2>3. HasSpace(mem[a], loc[p].as, m)
      BY <1>6, <2>2
    <2> QED
      BY <2>2, <2>3 DEF HasSpace
  <1>8. /\ free' = free \cup ({loc[p].hold} \ {0}) /\ lost' = lost
        /\ mem' = [mem EXCEPT ![a] = m] /\ status' = status
    BY <1>2, <1>6, CallIs DEF UvmcopyFail, Kfree, MemTypes
  <1>9. status' = [status EXCEPT ![a] = "alloc"]
    BY <1>3, <1>8, CallIs DEF MemTypes
  <1>10. Sets(p, a, NoLocals, "idle", m, "alloc")
    BY <1>1, <1>4, <1>5, <1>8, <1>9 DEF Sets, Done
  <1>11. mem'[a] = m /\ status'[a] = "alloc" => SlotOK(a)'
    BY DEF SlotOK
  <1>12. /\ free' \cup MemPages(m) \subseteq free \cup MemPages(mem[a]) \cup Hand(loc[p], mem[p].as)
         /\ free \cup MemPages(mem[a]) \cup Hand(loc[p], mem[p].as) \subseteq free' \cup MemPages(m) \cup lost'
         /\ lost \subseteq lost'
    BY <1>4, <1>7, <1>8
  <1>13. free' \cap MemPages(m) = {}
    BY <1>4, <1>5, <1>7, <1>8
  <1> QED
    BY <1>1, <1>3, <1>7, <1>10, <1>11, <1>12, <1>13, EndStep

\* sys_fork is done: the child has mapped what the parent has.
LEMMA ForkDoneStep ==
  ASSUME Serial, MemInv, NEW p \in Procs, ForkDone(p)
  PROVE  MemInv'
  <1>1. loc[p].job = "fork" /\ pc[p] = "next" /\ ~More(p) /\ Done(p)
    BY DEF ForkDone, At
  <1>2. PICK a \in Procs : a = loc[p].np
    BY <1>1, ChildIsAlone
  <1>3. Alone(p, a) /\ status[p] = "used"
    BY <1>1, <1>2, ChildIsAlone
  <1>4. /\ MemTypes /\ CallOK(p) /\ Progress(p) /\ SlotOK(p) /\ mem[p].as \in SpaceType
        /\ loc[p] \in Locals /\ loc[p].as \in SpaceType
    BY CallIs
  <1>5. loc[p].pg = 0 /\ loc[p].hold = 0 /\ loc[p].end = mem[p].as.sz
    BY <1>1, <1>4 DEF CallOK, Asking
  <1>6. Hand(loc[p], mem[p].as) = SpacePages(loc[p].as)
    BY <1>1, <1>5, ForkIs
  <1>7. /\ free \subseteq Pages /\ lost \subseteq Pages
        /\ free \cap MemPages(mem[a]) = {} /\ free \cap Hand(loc[p], mem[p].as) = {}
    BY SlotApart
  <1>8. PICK as : as = [[loc[p].as EXCEPT !.sz = mem[p].as.sz] EXCEPT !.holes = mem[p].as.holes]
    OBVIOUS
  <1>9. /\ as \in SpaceType /\ as.root = loc[p].as.root /\ as.tables = loc[p].as.tables
        /\ as.map = loc[p].as.map /\ as.holes = mem[p].as.holes /\ as.sz = mem[p].as.sz
    <2>1. mem[p].as.holes \subseteq VPages /\ mem[p].as.sz \in 0 .. MaxSz
      BY <1>4 DEF SpaceType
    <2> QED
      BY <1>4, <1>8, <2>1 DEF SpaceType
  <1>10. PICK m : m = [mem[a] EXCEPT !.as = as]
    OBVIOUS
  <1>11. /\ free' = free /\ lost' = lost
         /\ mem' = [mem EXCEPT ![a] = m] /\ status' = [status EXCEPT ![a] = "used"]
    BY <1>2, <1>4, <1>8, <1>10 DEF ForkDone, MemTypes
  <1> HIDE <1>8
  <1>12. /\ m \in Mems /\ MemOK(m) /\ MemPages(m) = MemPages(mem[a]) \cup SpacePages(loc[p].as)
         /\ Mapped(as) = Mapped(loc[p].as) /\ m.as = as
    <2>1. SameTable(as, loc[p].as)
      BY <1>9 DEF SameTable
    <2>2. /\ HasSpace(mem[a], as, [mem[a] EXCEPT !.as = as]) /\ SpacePages(as) = SpacePages(loc[p].as)
          /\ MemPages(mem[a]) = {mem[a].tf, mem[a].kstack} \ {0}
      BY <1>1, <1>2, <1>5, <1>9, <2>1, ChildGets
    <2>3. HasSpace(mem[a], as, m)
      BY <1>10, <2>2
    <2>4. Mapped(as) = Mapped(loc[p].as)
      BY <1>9 DEF Mapped
    <2> QED
      BY <2>2, <2>3, <2>4 DEF HasSpace
  <1> HIDE <1>10
  <1>13. Mapped(as) = Mapped(mem[p].as)
    <2>1. /\ loc[p].v \in 0 .. Up(MaxSz) /\ mem[p].as.sz \in 0 .. MaxSz /\ mem[p].as.holes \subseteq VPages
      BY <1>4 DEF Locals, SpaceType
    <2>2. Up(MaxSz) \in Nat /\ Up(mem[p].as.sz) \in Nat /\ VPages \subseteq Nat
      BY <2>1, BelowSize DEF VPages
    <2>3. Up(mem[p].as.sz) <= loc[p].v
      BY <1>1, <1>5, <2>1, <2>2 DEF More
    <2>4. Mapped(mem[p].as) = {v \in VPages : v < Up(mem[p].as.sz)} \ mem[p].as.holes
      BY <1>1, <1>3, <1>4 DEF SlotOK
    <2>5. ASSUME NEW u \in Mapped(mem[p].as)
          PROVE  u < loc[p].v
      <3>1. u \in VPages /\ u < Up(mem[p].as.sz)
        BY <2>4
      <3>2. u \in Nat /\ u < Up(mem[p].as.sz) /\ loc[p].v \in Nat
        BY <2>1, <2>2, <3>1
      <3> QED
        BY <2>2, <2>3, <3>2
    <2>6. Mapped(loc[p].as) = {u \in Mapped(mem[p].as) : u < loc[p].v}
      BY <1>1, <1>4 DEF Progress
    <2> QED
      BY <1>12, <2>5, <2>6
  <1>14. mem'[a] = m /\ status'[a] = "used" /\ pc'[a] = "idle" => SlotOK(a)'
    <2>1. /\ Mapped(mem[p].as) = {v \in VPages : v < Up(mem[p].as.sz)} \ mem[p].as.holes
          /\ \A v \in mem[p].as.holes : v < Up(mem[p].as.sz)
      BY <1>1, <1>3, <1>4 DEF SlotOK
    <2>2. /\ Mapped(as) = {v \in VPages : v < Up(as.sz)} \ as.holes
          /\ \A v \in as.holes : v < Up(as.sz)
      BY <1>9, <1>13, <2>1
    <2> QED
      BY <1>12, <2>2 DEF SlotOK
  <1>15. Sets(p, a, NoLocals, "idle", m, "used")
    BY <1>1, <1>7, <1>11 DEF Sets, Done
  <1>16. /\ free' \cup MemPages(m) \subseteq free \cup MemPages(mem[a]) \cup Hand(loc[p], mem[p].as)
         /\ free \cup MemPages(mem[a]) \cup Hand(loc[p], mem[p].as) \subseteq free' \cup MemPages(m) \cup lost'
         /\ lost \subseteq lost' /\ free' \cap MemPages(m) = {}
    BY <1>6, <1>7, <1>11, <1>12
  <1> QED
    BY <1>1, <1>3, <1>11, <1>12, <1>14, <1>15, <1>16, EndStep

-----------------------------------------------------------------------------
(* exec and sbrk: steps that change the address space of the process itself. *)

\* exec is done: the old address space is given back but for the pages it spares, and the
\* trapframe, which it maps too, is not.
LEMMA ExecDoneStep ==
  ASSUME Serial, MemInv, NEW p \in Procs, ExecDone(p)
  PROVE  MemInv'
  <1>1. loc[p].job = "exec" /\ pc[p] = "next" /\ ~More(p) /\ Done(p) /\ Undisturbed(p)
    BY DEF ExecDone, At, Kfree
  <1>2. /\ MemTypes /\ CallOK(p) /\ Progress(p) /\ loc[p].as \in SpaceType /\ loc[p].tmp \subseteq Pages
        /\ loc[p] \in Locals /\ HandOK(loc[p], mem[p].as)
    BY CallIs
  <1>3. loc[p].pg = 0 /\ loc[p].hold = 0 /\ status[p] = "used" /\ loc[p].end = ImagePages * PGSIZE
    BY <1>1, <1>2 DEF CallOK, Asking
  <1>4. Alone(p, p)
    BY <1>3, UsedIsAlone
  <1>5. /\ Hand(loc[p], mem[p].as) = loc[p].tmp \cup SpacePages(loc[p].as)
        /\ SpaceOK(loc[p].as) /\ loc[p].tmp \cap SpacePages(loc[p].as) = {}
    BY <1>1, <1>2, <1>3 DEF Hand, HandOK, Fresh
  <1>6. /\ free \subseteq Pages /\ lost \subseteq Pages /\ MemPages(mem[p]) \subseteq Pages
        /\ free \cap MemPages(mem[p]) = {} /\ free \cap Hand(loc[p], mem[p].as) = {}
        /\ MemPages(mem[p]) \cap Hand(loc[p], mem[p].as) = {}
        /\ mem[p] \in Mems /\ MemOK(mem[p])
    BY SlotApart
  <1>7. PICK as : as = [loc[p].as EXCEPT !.sz = loc[p].end]
    OBVIOUS
  <1>8. /\ as \in SpaceType /\ as.root = loc[p].as.root /\ as.tables = loc[p].as.tables
        /\ as.map = loc[p].as.map /\ as.holes = loc[p].as.holes /\ as.sz = ImagePages * PGSIZE
    BY <1>2, <1>3, <1>7, BelowSize DEF SpaceType
  <1>9. PICK m : m = [mem[p] EXCEPT !.as = as]
    OBVIOUS
  <1>10. PICK F, W : F = Freepagetable(p, mem[p].as) /\ W = UserPages(mem[p].as) \cap Spared
    OBVIOUS
  <1>17. /\ free' = free \cup loc[p].tmp \cup F /\ lost' = lost \cup W
         /\ mem' = [mem EXCEPT ![p] = m] /\ status' = [status EXCEPT ![p] = "used"]
    BY <1>2, <1>3, <1>7, <1>9, <1>10 DEF ExecDone, Kfree, MemTypes
  <1>18. /\ F \subseteq SpacePages(mem[p].as) /\ W \subseteq SpacePages(mem[p].as)
         /\ SpacePages(mem[p].as) \subseteq F \cup W
    <2>1. mem[p].as \in SpaceType /\ mem[p].tf \notin SpacePages(mem[p].as)
      BY <1>6, CallIs DEF MemOK, SpacePages
    <2> QED
      BY <1>10, <2>1, FreeIs
  <1> HIDE <1>7
  <1>11. SpacePages(as) = SpacePages(loc[p].as) /\ SpaceOK(as) /\ Mapped(as) = Mapped(loc[p].as)
    BY <1>5, <1>8 DEF SpacePages, SpaceOK, Mapped
  <1>12. /\ m \in Mems /\ MemOK(m) /\ m.as = as
         /\ MemPages(m) = ({mem[p].tf, mem[p].kstack} \ {0}) \cup SpacePages(as)
         /\ MemPages(mem[p]) = ({mem[p].tf, mem[p].kstack} \ {0}) \cup SpacePages(mem[p].as)
    <2>1. SpacePages(as) \cap ({mem[p].tf, mem[p].kstack} \ {0}) = {}
      BY <1>5, <1>6, <1>11 DEF MemPages
    <2> QED
      <3>1. 0 \notin SpacePages(as)
        BY DEF SpacePages
      <3>2. mem[p].tf \notin SpacePages(as) /\ mem[p].kstack \notin SpacePages(as)
        BY <2>1, <3>1
      <3>3. HasSpace(mem[p], as, [mem[p] EXCEPT !.as = as])
        BY <1>6, <1>8, <1>11, <3>2, SpaceSet
      <3>4. HasSpace(mem[p], as, m)
        BY <1>9, <3>3
      <3> QED
        BY <3>4 DEF HasSpace
  <1> HIDE <1>9
  <1>13. mem'[p] = m /\ status'[p] = "used" /\ pc'[p] = "idle" => SlotOK(p)'
    <2>1. /\ loc[p].v \in 0 .. Up(MaxSz) /\ Up(MaxSz) \in Nat /\ ImagePages \in Nat
          /\ Up(ImagePages * PGSIZE) = ImagePages
      BY <1>2, BelowSize DEF Locals
    <2>2. /\ loc[p].v <= ImagePages /\ Mapped(as) = {u \in VPages : u < loc[p].v} \ as.holes
          /\ \A u \in as.holes : u < ImagePages
      BY <1>1, <1>2, <1>8, <1>11 DEF Progress
    <2>3. loc[p].v = ImagePages
      BY <1>1, <1>3, <2>1, <2>2 DEF More
    <2>4. /\ Mapped(as) = {u \in VPages : u < Up(as.sz)} \ as.holes
          /\ \A u \in as.holes : u < Up(as.sz)
      BY <1>8, <2>1, <2>2, <2>3
    <2> QED
      BY <1>12, <2>4 DEF SlotOK
  <1>14. Sets(p, p, NoLocals, "idle", m, "used")
    <2>1. SpacePages(mem[p].as) \subseteq Pages
      BY <1>6, <1>12
    <2> QED
      BY <1>1, <1>2, <1>6, <1>17, <1>18, <2>1 DEF Sets, Done
  <1>15. /\ free' \cup MemPages(m) \subseteq free \cup MemPages(mem[p]) \cup Hand(loc[p], mem[p].as)
         /\ free \cup MemPages(mem[p]) \cup Hand(loc[p], mem[p].as) \subseteq free' \cup MemPages(m) \cup lost'
         /\ lost \subseteq lost'
    BY <1>5, <1>11, <1>12, <1>17, <1>18
  <1>16. free' \cap MemPages(m) = {}
    <2>1. ({mem[p].tf, mem[p].kstack} \ {0}) \cap SpacePages(mem[p].as) = {}
      BY <1>6 DEF MemOK
    <2> QED
      BY <1>5, <1>6, <1>11, <1>12, <1>17, <1>18, <2>1
  <1> QED
    BY <1>1, <1>4, <1>12, <1>13, <1>14, <1>15, <1>16, EndStep

\* A growing address space has the pages of the old one, and those in the hands of the call.
LEMMA GrowIs ==
  ASSUME MemInv, NEW p \in Procs, loc[p].job = "grow"
  PROVE  /\ SpacePages(mem[p].as) \subseteq SpacePages(loc[p].as)
         /\ SpacePages(loc[p].as) = SpacePages(mem[p].as) \cup Fresh(loc[p], mem[p].as)
         /\ \A u \in VPages : u >= Up(mem[p].as.sz) => mem[p].as.map[u] = 0
         /\ \A u \in VPages : u < Up(mem[p].as.sz) => mem[p].as.map[u] = loc[p].as.map[u]
         /\ \A u \in VPages : loc[p].as.map[u] # 0 => u < loc[p].v
         /\ Up(mem[p].as.sz) \in Nat /\ loc[p].v \in Nat /\ VPages \subseteq Nat
         /\ loc[p].as.root = mem[p].as.root /\ mem[p].as.tables \subseteq loc[p].as.tables
         /\ loc[p].as.holes = mem[p].as.holes /\ status[p] = "used" /\ loc[p].tmp = {}
  <1>1. /\ CallOK(p) /\ Progress(p) /\ SlotOK(p) /\ HandOK(loc[p], mem[p].as)
        /\ loc[p] \in Locals /\ mem[p].as \in SpaceType /\ loc[p].as \in SpaceType
    BY CallIs
  <1>2. status[p] = "used" /\ loc[p].tmp = {}
    BY <1>1 DEF CallOK
  <1>3. /\ mem[p].as.sz \in 0 .. MaxSz /\ mem[p].as.holes \subseteq VPages /\ loc[p].v \in 0 .. Up(MaxSz)
        /\ Up(MaxSz) \in Nat
    BY <1>1, BelowSize DEF SpaceType, Locals
  <1>4. Up(mem[p].as.sz) \in Nat /\ loc[p].v \in Nat /\ VPages \subseteq Nat
    BY <1>3, BelowSize DEF VPages
  <1>5. \A u \in VPages : u >= Up(mem[p].as.sz) => mem[p].as.map[u] = 0
    <2>1. \A u \in VPages : u \in Mapped(mem[p].as) => u < Up(mem[p].as.sz)
      BY <1>1, <1>2 DEF SlotOK, CallOK
    <2>2. \A u \in VPages : u >= Up(mem[p].as.sz) => u \notin Mapped(mem[p].as)
      BY <1>4, <2>1
    <2> QED
      BY <1>1, <2>2, SpaceIs
  <1>6. \A u \in VPages : loc[p].as.map[u] # 0 => u < loc[p].v
    <2>1. \A u \in VPages : u \in Mapped(loc[p].as) => u < loc[p].v
      BY <1>1 DEF Progress
    <2> QED
      BY <1>1, <2>1, SpaceIs
  <1>7. /\ loc[p].as.root = mem[p].as.root /\ mem[p].as.tables \subseteq loc[p].as.tables
        /\ loc[p].as.holes = mem[p].as.holes
        /\ \A u \in VPages : u < Up(mem[p].as.sz) => loc[p].as.map[u] = mem[p].as.map[u]
    BY <1>1 DEF HandOK
  <1>8. SpacePages(mem[p].as) \subseteq SpacePages(loc[p].as)
    <2>1. \A u \in VPages : mem[p].as.map[u] # 0 => mem[p].as.map[u] = loc[p].as.map[u]
      BY <1>4, <1>5, <1>7
    <2> QED
      BY <1>7, <2>1 DEF SpacePages
  <1>9. SpacePages(loc[p].as) = SpacePages(mem[p].as) \cup Fresh(loc[p], mem[p].as)
    BY <1>8 DEF Fresh
  <1> QED
    BY <1>2, <1>4, <1>5, <1>6, <1>7, <1>8, <1>9

\* sbrk is done.
LEMMA GrowDoneStep ==
  ASSUME Serial, MemInv, NEW p \in Procs, GrowDone(p)
  PROVE  MemInv'
  <1>1. loc[p].job = "grow" /\ pc[p] = "next" /\ ~More(p) /\ Done(p)
    BY DEF GrowDone, At
  <1>2. /\ MemTypes /\ CallOK(p) /\ Progress(p) /\ loc[p].as \in SpaceType /\ SlotOK(p)
        /\ loc[p] \in Locals /\ HandOK(loc[p], mem[p].as)
    BY CallIs
  <1>3. /\ SpacePages(mem[p].as) \subseteq SpacePages(loc[p].as)
        /\ SpacePages(loc[p].as) = SpacePages(mem[p].as) \cup Fresh(loc[p], mem[p].as)
        /\ loc[p].as.holes = mem[p].as.holes /\ status[p] = "used" /\ loc[p].tmp = {}
        /\ Up(mem[p].as.sz) \in Nat /\ loc[p].v \in Nat
    BY <1>1, GrowIs
  <1>4. loc[p].pg = 0 /\ loc[p].hold = 0
    BY <1>1, <1>2 DEF CallOK, Asking
  <1>5. Hand(loc[p], mem[p].as) = Fresh(loc[p], mem[p].as) /\ SpaceOK(loc[p].as)
    BY <1>2, <1>3, <1>4 DEF Hand, HandOK
  <1>6. /\ free \subseteq Pages /\ lost \subseteq Pages
        /\ free \cap MemPages(mem[p]) = {} /\ free \cap Hand(loc[p], mem[p].as) = {}
        /\ MemPages(mem[p]) \cap Hand(loc[p], mem[p].as) = {}
        /\ mem[p] \in Mems /\ MemOK(mem[p])
    BY SlotApart
  <1>7. PICK as : as = [loc[p].as EXCEPT !.sz = loc[p].end]
    OBVIOUS
  <1>8. loc[p].end \in 0 .. MaxSz /\ loc[p].as.holes \subseteq VPages /\ Up(loc[p].end) \in Nat
    BY <1>2, BelowSize DEF Locals, SpaceType
  <1>9. /\ as \in SpaceType /\ as.root = loc[p].as.root /\ as.tables = loc[p].as.tables
        /\ as.map = loc[p].as.map /\ as.holes = loc[p].as.holes /\ as.sz = loc[p].end
    BY <1>2, <1>7, <1>8 DEF SpaceType
  <1>10. PICK m : m = [mem[p] EXCEPT !.as = as]
    OBVIOUS
  <1>11. /\ free' = free /\ lost' = lost
         /\ mem' = [mem EXCEPT ![p] = m] /\ status' = [status EXCEPT ![p] = "used"]
    BY <1>2, <1>3, <1>7, <1>10 DEF GrowDone, MemTypes
  <1> HIDE <1>7
  <1>12. SpacePages(as) = SpacePages(loc[p].as) /\ SpaceOK(as) /\ Mapped(as) = Mapped(loc[p].as)
    BY <1>5, <1>9 DEF SpacePages, SpaceOK, Mapped
  <1>13. /\ m \in Mems /\ MemOK(m) /\ m.as = as
         /\ MemPages(m) = ({mem[p].tf, mem[p].kstack} \ {0}) \cup SpacePages(as)
         /\ MemPages(mem[p]) = ({mem[p].tf, mem[p].kstack} \ {0}) \cup SpacePages(mem[p].as)
    <2>1. ({mem[p].tf, mem[p].kstack} \ {0}) \cap SpacePages(mem[p].as) = {}
      BY <1>6 DEF MemOK
    <2>2. SpacePages(as) \cap ({mem[p].tf, mem[p].kstack} \ {0}) = {}
      BY <1>3, <1>5, <1>6, <1>12, <2>1 DEF MemPages
    <2> QED
      <3>1. 0 \notin SpacePages(as)
        BY DEF SpacePages
      <3>2. mem[p].tf \notin SpacePages(as) /\ mem[p].kstack \notin SpacePages(as)
        BY <2>2, <3>1
      <3>3. HasSpace(mem[p], as, [mem[p] EXCEPT !.as = as])
        BY <1>6, <1>9, <1>12, <3>2, SpaceSet
      <3>4. HasSpace(mem[p], as, m)
        BY <1>10, <3>3
      <3> QED
        BY <3>4 DEF HasSpace
  <1> HIDE <1>10
  <1>14. mem'[p] = m /\ status'[p] = "used" /\ pc'[p] = "idle" => SlotOK(p)'
    <2>1. Mapped(as) = {u \in VPages : u < loc[p].v} \ as.holes /\ Up(mem[p].as.sz) <= loc[p].v /\ loc[p].v <= Up(loc[p].end)
      BY <1>1, <1>2, <1>9, <1>12 DEF Progress
    <2>2. loc[p].v = Up(as.sz)
      BY <1>1, <1>3, <1>8, <1>9, <2>1 DEF More
    <2>3. \A u \in mem[p].as.holes : u < Up(mem[p].as.sz)
      BY <1>2, <1>3 DEF SlotOK
    <2>4. \A u \in as.holes : u < Up(as.sz)
      <3>1. as.holes \subseteq Nat /\ Up(as.sz) \in Nat
        BY <1>8, <1>9, BelowSize DEF VPages
      <3> QED
        BY <1>3, <1>9, <2>1, <2>2, <2>3, <3>1
    <2> QED
      BY <1>13, <2>1, <2>2, <2>4 DEF SlotOK
  <1>15. Sets(p, p, NoLocals, "idle", m, "used")
    BY <1>1, <1>6, <1>11 DEF Sets, Done
  <1>16. /\ free' \cup MemPages(m) \subseteq free \cup MemPages(mem[p]) \cup Hand(loc[p], mem[p].as)
         /\ free \cup MemPages(mem[p]) \cup Hand(loc[p], mem[p].as) \subseteq free' \cup MemPages(m) \cup lost'
         /\ lost \subseteq lost' /\ free' \cap MemPages(m) = {}
    BY <1>3, <1>5, <1>6, <1>11, <1>12, <1>13
  <1>17. Alone(p, p)
    BY <1>3, UsedIsAlone
  <1> QED
    BY <1>1, <1>11, <1>13, <1>14, <1>15, <1>16, <1>17, EndStep

\* new is as without its virtual pages in D; Above are the pages that were there.
Cut(as, D, new) ==
  /\ new.root = as.root /\ new.tables = as.tables
  /\ \A v \in VPages : new.map[v] = IF v \in D THEN 0 ELSE as.map[v]
Above(as, D) == {as.map[v] : v \in D} \ {0}

\* The virtual pages from k on.
From(k) == {u \in VPages : k <= u}

\* What is left of an address space, and what is not.
Parted(as, D, new) ==
  /\ SpaceOK(new) /\ SpacePages(as) = SpacePages(new) \cup Above(as, D)
  /\ SpacePages(new) \cap Above(as, D) = {} /\ Mapped(new) = Mapped(as) \ D

\* uvmunmap parts the pages of an address space in two.
LEMMA CutIs ==
  ASSUME NEW as, NEW new \in SpaceType, SpaceOK(as), NEW D, D \subseteq VPages, Cut(as, D, new)
  PROVE  Parted(as, D, new)
  <1>1. new.root = as.root /\ new.tables = as.tables
    BY DEF Cut
  <1>2. \A v \in VPages : (v \in D => new.map[v] = 0) /\ (v \notin D => new.map[v] = as.map[v])
    BY DEF Cut
  <1>3. \A v \in VPages : new.map[v] # 0 => v \notin D /\ new.map[v] = as.map[v]
    BY <1>2
  <1>4. SpaceOK(new)
    <2>1. /\ as.root \notin as.tables
          /\ \A v \in VPages : as.map[v] # 0 => as.map[v] # as.root /\ as.map[v] \notin as.tables
          /\ \A v, w \in VPages : as.map[v] = as.map[w] /\ as.map[v] # 0 => v = w
      BY DEF SpaceOK
    <2>2. \A v \in VPages : new.map[v] # 0 => new.map[v] # as.root /\ new.map[v] \notin as.tables
      BY <1>3, <2>1
    <2>3. \A v, w \in VPages : new.map[v] = new.map[w] /\ new.map[v] # 0 => v = w
      BY <1>3, <2>1
    <2> QED
      BY <1>1, <2>1, <2>2, <2>3 DEF SpaceOK
  <1>5. \A g : g \in Above(as, D) <=> g # 0 /\ \E v \in D : g = as.map[v]
    BY DEF Above
  <1>6. \A g : g \in SpacePages(new) <=>
          g # 0 /\ (g = as.root \/ g \in as.tables \/ \E v \in VPages \ D : g = as.map[v])
    <2>1. \A g : g \in SpacePages(new) <=>
            g # 0 /\ (g = new.root \/ g \in new.tables \/ \E v \in VPages : g = new.map[v])
      BY SpaceIs
    <2>2. \A g : g # 0 => ((\E v \in VPages : g = new.map[v]) <=> (\E v \in VPages \ D : g = as.map[v]))
      BY <1>2, <1>3
    <2> TAKE g
    <2>3. CASE g = 0
      BY <2>1, <2>3
    <2>4. CASE g # 0
      <3>1. g \in SpacePages(new) <=> g = as.root \/ g \in as.tables \/ \E v \in VPages : g = new.map[v]
        BY <1>1, <2>1, <2>4
      <3>2. (\E v \in VPages : g = new.map[v]) <=> (\E v \in VPages \ D : g = as.map[v])
        BY <2>2, <2>4
      <3> HIDE <2>1, <2>2
      <3> QED
        BY <2>4, <3>1, <3>2
    <2> QED
      BY <2>3, <2>4
  <1>7. \A g : g \in SpacePages(as) <=>
          g # 0 /\ (g = as.root \/ g \in as.tables \/ \E v \in VPages : g = as.map[v])
    BY DEF SpacePages
  <1>8. \A g : g \in SpacePages(as) <=> g \in SpacePages(new) \/ g \in Above(as, D)
    BY <1>5, <1>6, <1>7
  <1>9. \A g : ~(g \in SpacePages(new) /\ g \in Above(as, D))
    <2>1. SUFFICES ASSUME NEW g, g \in SpacePages(new), g \in Above(as, D) PROVE FALSE
      BY Zenon
    <2>2. PICK v \in D : g # 0 /\ g = as.map[v]
      BY <1>5, <2>1
    <2>3. g # as.root /\ g \notin as.tables
      BY <2>2 DEF SpaceOK
    <2>4. PICK w \in VPages \ D : g = as.map[w]
      BY <1>6, <2>1, <2>3
    <2>5. v = w
      BY <2>2, <2>4 DEF SpaceOK
    <2> QED
      BY <2>2, <2>4, <2>5
  <1>10. Mapped(new) = Mapped(as) \ D
    <2>1. \A v \in VPages : new.map[v] # 0 <=> as.map[v] # 0 /\ v \notin D
      BY <1>2, <1>3
    <2> QED
      BY <2>1 DEF Mapped
  <1> QED
    <2>1. SpacePages(as) = SpacePages(new) \cup Above(as, D)
      BY <1>8, Zenon
    <2>2. SpacePages(new) \cap Above(as, D) = {}
      BY <1>9, Zenon
    <2> QED
      BY <1>4, <1>10, <2>1, <2>2 DEF Parted

\* Of a set of virtual pages, those before page k are the ones not from k on.
LEMMA FromIs ==
  ASSUME NEW M \in SUBSET VPages, NEW k \in Nat
  PROVE  From(k) \subseteq VPages /\ M \ From(k) = {v \in M : v < k}
  <1>1. \A v \in M : v \in Nat
    BY BelowSize DEF VPages
  <1>2. \A v \in M : v \notin From(k) <=> v < k
    BY <1>1 DEF From
  <1> QED
    BY <1>2 DEF From

\* Address spaces of any size.
AnySpace == [root : 0 .. NPAGE, tables : SUBSET Pages, map : [VPages -> 0 .. NPAGE],
             low : 0 .. NPAGE, holes : SUBSET VPages, sz : Nat]

\* What uvmdealloc leaves.
LEMMA ShrunkIs ==
  ASSUME NEW as \in AnySpace, NEW sz \in 0 .. MaxSz
  PROVE  /\ Shrunk(as, sz) \in SpaceType /\ Cut(as, From(Up(sz)), Shrunk(as, sz))
         /\ Shrunk(as, sz).sz = sz /\ Shrunk(as, sz).holes = as.holes
  <1>1. NPAGE \in Nat /\ 0 \in 0 .. NPAGE /\ as.map \in [VPages -> 0 .. NPAGE]
    <2>1. NPAGE \in Nat
      BY MemoryAssumption
    <2>2. as.map \in [VPages -> 0 .. NPAGE]
      BY DEF AnySpace
    <2>3. 0 \in 0 .. NPAGE
      BY <2>1
    <2> QED
      BY <2>1, <2>2, <2>3
  <1>2. PICK f : f = [v \in VPages |-> IF v >= Up(sz) THEN 0 ELSE as.map[v]]
    OBVIOUS
  <1>3. f \in [VPages -> 0 .. NPAGE]
    BY <1>1, <1>2
  <1>4. PICK new : new = [[as EXCEPT !.sz = sz] EXCEPT !.map = f]
    OBVIOUS
  <1>5. Shrunk(as, sz) = new
    BY <1>2, <1>4 DEF Shrunk, AnySpace
  <1>6. /\ new \in SpaceType /\ new.root = as.root /\ new.tables = as.tables /\ new.map = f
        /\ new.holes = as.holes /\ new.sz = sz
    BY <1>3, <1>4 DEF AnySpace, SpaceType
  <1>7. Cut(as, From(Up(sz)), new)
    <2>1. Up(sz) \in Nat /\ VPages \subseteq Nat
      BY BelowSize DEF VPages
    <2>2. \A v \in VPages : v \in From(Up(sz)) <=> v >= Up(sz)
      BY <2>1 DEF From
    <2>3. \A v \in VPages : new.map[v] = IF v \in From(Up(sz)) THEN 0 ELSE as.map[v]
      <3> TAKE v \in VPages
      <3>1. new.map[v] = IF v >= Up(sz) THEN 0 ELSE as.map[v]
        BY <1>2, <1>6
      <3>2. v \in From(Up(sz)) <=> v >= Up(sz)
        BY <2>2
      <3> QED
        BY <3>1, <3>2, Zenon
    <2> QED
      BY <1>6, <2>3 DEF Cut
  <1> QED
    BY <1>5, <1>6, <1>7

\* What uvmdealloc frees, where nothing is mapped beyond the size.
LEMMA UnmappedIs ==
  ASSUME NEW as, NEW sz, \A u \in VPages : as.map[u] # 0 => u < Up(as.sz)
  PROVE  Unmapped(as, sz) = Above(as, From(Up(sz)))
  <1>1. \A g : g \in Unmapped(as, sz) <=> g # 0 /\ \E u \in VPages : Up(sz) <= u /\ u < Up(as.sz) /\ g = as.map[u]
    BY DEF Unmapped
  <1>2. \A g : g \in Above(as, From(Up(sz))) <=> g # 0 /\ \E u \in VPages : Up(sz) <= u /\ g = as.map[u]
    BY DEF Above, From
  <1>3. \A g : g \in Unmapped(as, sz) <=> g \in Above(as, From(Up(sz)))
    BY <1>1, <1>2
  <1> QED
    BY <1>3

\* sbrk fails: uvmalloc gives back the pages it has mapped, and keeps those of tables.
LEMMA GrowFailStep ==
  ASSUME Serial, MemInv, NEW p \in Procs, GrowFail(p)
  PROVE  MemInv'
  <1>1. loc[p].job = "grow" /\ loc[p].pg = None /\ Done(p) /\ Undisturbed(p)
    BY DEF GrowFail, Failed, Kfree
  <1>2. /\ MemTypes /\ Progress(p) /\ loc[p].as \in SpaceType /\ SlotOK(p) /\ mem[p].as \in SpaceType
        /\ HandOK(loc[p], mem[p].as) /\ None # 0 /\ None \notin Pages
        /\ loc[p].hold # 0 => loc[p].hold \in Pages
    BY CallIs
  <1>3. /\ SpacePages(loc[p].as) = SpacePages(mem[p].as) \cup Fresh(loc[p], mem[p].as)
        /\ \A u \in VPages : loc[p].as.map[u] # 0 => u < loc[p].v
        /\ Up(mem[p].as.sz) \in Nat /\ loc[p].v \in Nat /\ VPages \subseteq Nat
        /\ loc[p].as.holes = mem[p].as.holes /\ status[p] = "used" /\ loc[p].tmp = {}
    BY <1>1, GrowIs
  <1>4. PICK H : H = {loc[p].hold} \ {0}
    OBVIOUS
  <1>5. Hand(loc[p], mem[p].as) = H \cup Fresh(loc[p], mem[p].as) /\ H \subseteq Pages
    <2>1. {loc[p].hold, loc[p].pg} \ {0, None} = H
      BY <1>1, <1>2, <1>4
    <2> QED
      BY <1>2, <1>3, <1>4, <2>1 DEF Hand
  <1>6. /\ free \subseteq Pages /\ lost \subseteq Pages
        /\ free \cap MemPages(mem[p]) = {} /\ free \cap Hand(loc[p], mem[p].as) = {}
        /\ MemPages(mem[p]) \cap Hand(loc[p], mem[p].as) = {}
        /\ mem[p] \in Mems /\ MemOK(mem[p])
    BY SlotApart
  <1>7. mem[p].as.sz \in 0 .. MaxSz /\ mem[p].as.holes \subseteq VPages
    BY <1>2 DEF SpaceType
  <1>8. Up(loc[p].v * PGSIZE) = loc[p].v /\ loc[p].v * PGSIZE \in Nat
    BY <1>3, UpWhole
  <1>9. PICK full : full = [loc[p].as EXCEPT !.sz = loc[p].v * PGSIZE]
    OBVIOUS
  <1>10. /\ full \in AnySpace /\ full.root = loc[p].as.root /\ full.tables = loc[p].as.tables
         /\ full.map = loc[p].as.map /\ full.holes = loc[p].as.holes /\ full.sz = loc[p].v * PGSIZE
    BY <1>2, <1>8, <1>9 DEF SpaceType, AnySpace
  <1>11. PICK as : as = Shrunk(full, mem[p].as.sz)
    OBVIOUS
  <1>12. PICK m : m = [mem[p] EXCEPT !.as = as]
    OBVIOUS
  <1>13. /\ free' = free \cup H \cup Unmapped(full, mem[p].as.sz) /\ lost' = lost
         /\ mem' = [mem EXCEPT ![p] = m] /\ status' = [status EXCEPT ![p] = "used"]
    BY <1>2, <1>3, <1>4, <1>9, <1>11, <1>12 DEF GrowFail, Kfree, MemTypes
  <1> HIDE <1>9
  <1>14. as \in SpaceType /\ Cut(full, From(Up(mem[p].as.sz)), as) /\ as.sz = mem[p].as.sz /\ as.holes = mem[p].as.holes
    BY <1>3, <1>7, <1>10, <1>11, ShrunkIs
  <1>15. /\ SpaceOK(full) /\ SpacePages(full) = SpacePages(loc[p].as) /\ Mapped(full) = Mapped(loc[p].as)
    BY <1>2, <1>10 DEF HandOK, SpaceOK, SpacePages, Mapped
  <1>16. /\ Parted(full, From(Up(mem[p].as.sz)), as)
         /\ Mapped(full) \ From(Up(mem[p].as.sz)) = {v \in Mapped(full) : v < Up(mem[p].as.sz)}
    <2>1. Mapped(full) \in SUBSET VPages
      BY DEF Mapped
    <2>2. /\ From(Up(mem[p].as.sz)) \subseteq VPages
          /\ Mapped(full) \ From(Up(mem[p].as.sz)) = {v \in Mapped(full) : v < Up(mem[p].as.sz)}
      BY <1>3, <2>1, FromIs
    <2> QED
      BY <1>14, <1>15, <2>2, CutIs
  <1>17. PICK U : U = Above(full, From(Up(mem[p].as.sz)))
    OBVIOUS
  <1>18. Unmapped(full, mem[p].as.sz) = U
    <2>1. \A u \in VPages : full.map[u] # 0 => u < Up(full.sz)
      BY <1>3, <1>8, <1>10
    <2> QED
      BY <1>17, <2>1, UnmappedIs
  <1>19. /\ SpaceOK(as) /\ SpacePages(loc[p].as) = SpacePages(as) \cup U
         /\ SpacePages(as) \cap U = {} /\ Mapped(as) = {v \in Mapped(loc[p].as) : v < Up(mem[p].as.sz)}
    BY <1>15, <1>16, <1>17 DEF Parted
  <1>20. PICK T : T = {mem[p].tf, mem[p].kstack} \ {0}
    OBVIOUS
  <1>21. T \cap SpacePages(loc[p].as) = {} /\ T \subseteq MemPages(mem[p])
    <2>1. T \subseteq MemPages(mem[p]) /\ T \cap SpacePages(mem[p].as) = {}
      BY <1>6, <1>20 DEF MemOK, MemPages
    <2> QED
      BY <1>3, <1>5, <1>6, <2>1
  <1>22. m \in Mems /\ MemOK(m) /\ m.as = as /\ MemPages(m) = T \cup SpacePages(as)
         /\ MemPages(mem[p]) = T \cup SpacePages(mem[p].as)
    <2>1. 0 \notin SpacePages(as)
      BY DEF SpacePages
    <2>2. mem[p].tf \notin SpacePages(as) /\ mem[p].kstack \notin SpacePages(as)
      BY <1>19, <1>20, <1>21, <2>1
    <2>3. HasSpace(mem[p], as, [mem[p] EXCEPT !.as = as])
      BY <1>6, <1>14, <1>19, <2>2, SpaceSet
    <2>4. HasSpace(mem[p], as, m)
      BY <1>12, <2>3
    <2> QED
      BY <1>20, <2>4 DEF HasSpace
  <1> HIDE <1>12
  <1>23. mem'[p] = m /\ status'[p] = "used" /\ pc'[p] = "idle" => SlotOK(p)'
    <2>1. /\ Mapped(loc[p].as) = {u \in VPages : u < loc[p].v} \ loc[p].as.holes
          /\ Up(mem[p].as.sz) <= loc[p].v
      BY <1>1, <1>2 DEF Progress
    <2>2. ASSUME NEW u \in VPages, u < Up(mem[p].as.sz)
          PROVE  u < loc[p].v
      <3>1. u \in Nat /\ Up(mem[p].as.sz) \in Nat /\ loc[p].v \in Nat /\ Up(mem[p].as.sz) <= loc[p].v
        BY <1>3, <2>1
      <3> QED
        BY <2>2, <3>1
    <2>3. Mapped(as) = {u \in VPages : u < Up(as.sz)} \ as.holes
      BY <1>3, <1>14, <1>19, <2>1, <2>2
    <2>4. \A v \in as.holes : v < Up(as.sz)
      BY <1>2, <1>3, <1>14 DEF SlotOK
    <2> QED
      BY <1>22, <2>3, <2>4 DEF SlotOK
  <1>24. U \subseteq Pages
    BY <1>2, <1>19, SpaceIs
  <1>25. Sets(p, p, NoLocals, "idle", m, "used")
    BY <1>1, <1>5, <1>6, <1>13, <1>18, <1>24 DEF Sets, Done
  <1>26. /\ free' \cup MemPages(m) \subseteq free \cup MemPages(mem[p]) \cup Hand(loc[p], mem[p].as)
         /\ free \cup MemPages(mem[p]) \cup Hand(loc[p], mem[p].as) \subseteq free' \cup MemPages(m) \cup lost'
         /\ lost \subseteq lost'
    BY <1>3, <1>5, <1>13, <1>18, <1>19, <1>22
  <1>27. H \cap SpacePages(loc[p].as) = {}
    <2>1. H \cap Fresh(loc[p], mem[p].as) = {}
      BY <1>2, <1>4 DEF HandOK
    <2> QED
      BY <1>3, <1>5, <1>6, <1>22, <2>1
  <1>28. free' \cap MemPages(m) = {}
    BY <1>3, <1>5, <1>6, <1>13, <1>18, <1>19, <1>21, <1>22, <1>27
  <1>29. Alone(p, p)
    BY <1>3, UsedIsAlone
  <1> QED
    BY <1>1, <1>22, <1>23, <1>25, <1>26, <1>28, <1>29, EndStep

\* sbrk shrinks the process.
LEMMA ShrinkStep ==
  ASSUME Serial, MemInv, NEW p \in Procs, NEW n \in Nat, Shrink(p, n)
  PROVE  MemInv'
  <1>1. Enter(p) /\ Undisturbed(p) /\ n <= mem[p].as.sz
    BY DEF Shrink, Kfree
  <1>2. /\ status[p] = "used" /\ pc[p] = "idle" /\ loc[p] = NoLocals /\ Hand(loc[p], mem[p].as) = {}
    BY <1>1, EnterIs
  <1>3. MemTypes /\ SlotOK(p) /\ mem[p].as \in SpaceType
    BY CallIs
  <1>4. /\ free \subseteq Pages /\ lost \subseteq Pages /\ free \cap MemPages(mem[p]) = {}
        /\ mem[p] \in Mems /\ MemOK(mem[p]) /\ MemPages(mem[p]) \subseteq Pages
    BY SlotApart
  <1>5. mem[p].as.sz \in 0 .. MaxSz /\ mem[p].as.holes \subseteq VPages /\ MaxSz \in Nat
    BY <1>3, MemoryAssumption DEF SpaceType
  <1>6. PICK sz : sz = mem[p].as.sz - n
    OBVIOUS
  <1>7. sz \in 0 .. MaxSz /\ sz <= mem[p].as.sz
    BY <1>1, <1>5, <1>6
  <1>8. Up(sz) \in Nat /\ Up(mem[p].as.sz) \in Nat /\ VPages \subseteq Nat /\ Up(sz) <= Up(mem[p].as.sz)
        /\ \A v \in Nat : v < Up(mem[p].as.sz) => v \in VPages
    <2>1. Up(sz) \in Nat /\ Up(mem[p].as.sz) \in Nat /\ VPages \subseteq Nat
      BY <1>5, <1>7, BelowSize DEF VPages
    <2>2. \A v \in Nat : v < Up(mem[p].as.sz) => v \in VPages
      BY <1>5, BelowSize
    <2>3. sz \in Nat /\ mem[p].as.sz \in Nat
      BY <1>5, <1>7
    <2> QED
      BY <1>7, <2>1, <2>2, <2>3, UpMono
  <1>9. PICK as : as = Shrunk(mem[p].as, sz)
    OBVIOUS
  <1>10. PICK m : m = [mem[p] EXCEPT !.as = as]
    OBVIOUS
  <1>11. /\ free' = free \cup Unmapped(mem[p].as, sz) /\ lost' = lost /\ pc' = pc /\ loc' = loc
         /\ mem' = [mem EXCEPT ![p] = m] /\ status' = [status EXCEPT ![p] = "used"]
    BY <1>2, <1>3, <1>6, <1>9, <1>10 DEF Shrink, Kfree, MemTypes
  <1>12. \A v \in VPages : Up(sz) <= v /\ v < Up(mem[p].as.sz) => mem[p].as.map[v] # 0
    BY <1>6 DEF Shrink, Gaps
  <1>13. Done(p)
    BY <1>2, <1>3, <1>11 DEF Done, Goto, MemTypes
  <1>14. /\ Mapped(mem[p].as) = {v \in VPages : v < Up(mem[p].as.sz)} \ mem[p].as.holes
         /\ \A v \in mem[p].as.holes : v < Up(mem[p].as.sz)
    BY <1>2, <1>3 DEF SlotOK
  <1>15. as \in SpaceType /\ Cut(mem[p].as, From(Up(sz)), as) /\ as.sz = sz /\ as.holes = mem[p].as.holes
    <2>1. mem[p].as \in AnySpace
      BY <1>3, MemoryAssumption DEF SpaceType, AnySpace
    <2> QED
      BY <1>7, <1>9, <2>1, ShrunkIs
  <1>16. /\ Parted(mem[p].as, From(Up(sz)), as)
         /\ Mapped(mem[p].as) \ From(Up(sz)) = {v \in Mapped(mem[p].as) : v < Up(sz)}
    <2>1. Mapped(mem[p].as) \in SUBSET VPages
      BY DEF Mapped
    <2>2. /\ From(Up(sz)) \subseteq VPages
          /\ Mapped(mem[p].as) \ From(Up(sz)) = {v \in Mapped(mem[p].as) : v < Up(sz)}
      BY <1>8, <2>1, FromIs
    <2>3. SpaceOK(mem[p].as)
      BY <1>4 DEF MemOK
    <2> QED
      BY <1>15, <2>2, <2>3, CutIs
  <1>17. PICK U : U = Above(mem[p].as, From(Up(sz)))
    OBVIOUS
  <1>18. Unmapped(mem[p].as, sz) = U
    <2>1. \A u \in VPages : mem[p].as.map[u] # 0 => u < Up(mem[p].as.sz)
      BY <1>3, <1>14, SpaceIs
    <2> QED
      BY <1>17, <2>1, UnmappedIs
  <1>19. /\ SpaceOK(as) /\ SpacePages(mem[p].as) = SpacePages(as) \cup U
         /\ SpacePages(as) \cap U = {} /\ Mapped(as) = {v \in Mapped(mem[p].as) : v < Up(sz)}
    BY <1>16, <1>17 DEF Parted
  <1>20. PICK T : T = {mem[p].tf, mem[p].kstack} \ {0}
    OBVIOUS
  <1>21. T \cap SpacePages(mem[p].as) = {}
    BY <1>4, <1>20 DEF MemOK
  <1>22. m \in Mems /\ MemOK(m) /\ m.as = as /\ MemPages(m) = T \cup SpacePages(as)
         /\ MemPages(mem[p]) = T \cup SpacePages(mem[p].as)
    <2>1. 0 \notin SpacePages(as)
      BY DEF SpacePages
    <2>2. mem[p].tf \notin SpacePages(as) /\ mem[p].kstack \notin SpacePages(as)
      BY <1>19, <1>20, <1>21, <2>1
    <2>3. HasSpace(mem[p], as, [mem[p] EXCEPT !.as = as])
      BY <1>4, <1>15, <1>19, <2>2, SpaceSet
    <2>4. HasSpace(mem[p], as, m)
      BY <1>10, <2>3
    <2> QED
      BY <1>20, <2>4 DEF HasSpace
  <1> HIDE <1>10
  <1>23. mem'[p] = m /\ status'[p] = "used" /\ pc'[p] = "idle" => SlotOK(p)'
    <2>1. \A u \in VPages : u < Up(sz) => u < Up(mem[p].as.sz)
      BY <1>8
    <2>2. Mapped(as) = {u \in VPages : u < Up(as.sz)} \ as.holes
      BY <1>14, <1>15, <1>19, <2>1
    <2>3. ASSUME NEW v \in as.holes
          PROVE  v < Up(as.sz)
      <3>1. v \in VPages /\ v \in mem[p].as.holes /\ v < Up(mem[p].as.sz)
        BY <1>5, <1>14, <1>15
      <3>2. v \notin Mapped(mem[p].as)
        BY <1>14, <3>1
      <3>3. mem[p].as.map[v] = 0
        BY <3>1, <3>2 DEF Mapped
      <3>4. ~(Up(sz) <= v)
        BY <1>12, <3>1, <3>3
      <3> QED
        <4>1. v \in Nat /\ Up(sz) \in Nat /\ as.sz = sz
          BY <1>8, <1>15, <3>1
        <4> QED
          BY <3>4, <4>1
    <2> QED
      BY <1>22, <2>2, <2>3 DEF SlotOK
  <1>24. Sets(p, p, NoLocals, "idle", m, "used")
    BY <1>4, <1>11, <1>13, <1>18, <1>19, <1>22 DEF Sets, Done
  <1>25. /\ free' \cup MemPages(m) \subseteq free \cup MemPages(mem[p]) \cup Hand(loc[p], mem[p].as)
         /\ free \cup MemPages(mem[p]) \cup Hand(loc[p], mem[p].as) \subseteq free' \cup MemPages(m) \cup lost'
         /\ lost \subseteq lost'
    BY <1>2, <1>11, <1>18, <1>19, <1>22
  <1>26. free' \cap MemPages(m) = {}
    BY <1>4, <1>11, <1>18, <1>19, <1>21, <1>22
  <1>27. Alone(p, p)
    BY <1>2, UsedIsAlone
  <1> QED
    BY <1>1, <1>2, <1>13, <1>22, <1>23, <1>24, <1>25, <1>26, <1>27, EndStep

\* uvmunmap panics at a page that is not mapped, which is a hole of the image; what it has
\* unmapped before is free.
LEMMA ShrinkPanicStep ==
  ASSUME Serial, MemInv, NEW p \in Procs, NEW n \in Nat, ShrinkPanic(p, n)
  PROVE  MemInv'
  <1>1. /\ status[p] = "used" /\ pc[p] = "idle" /\ loc[p] = NoLocals /\ Hand(loc[p], mem[p].as) = {}
    BY EnterIs DEF ShrinkPanic
  <1>2. MemTypes /\ SlotOK(p) /\ mem[p].as \in SpaceType
    BY CallIs
  <1>3. /\ free \subseteq Pages /\ lost \subseteq Pages /\ free \cap MemPages(mem[p]) = {}
        /\ mem[p] \in Mems /\ MemOK(mem[p]) /\ MemPages(mem[p]) \subseteq Pages
    BY SlotApart
  <1>4. PICK h, D, f :
          /\ h \in Gaps(mem[p].as, mem[p].as.sz - n)
          /\ D \subseteq VPages /\ \A v \in D : mem[p].as.map[v] # 0
          /\ f = [v \in VPages |-> IF v \in D THEN 0 ELSE mem[p].as.map[v]]
          /\ Undisturbed(p) /\ free' = free \cup {mem[p].as.map[v] : v \in D}
          /\ mem' = [mem EXCEPT ![p].as.map = f]
    BY DEF ShrinkPanic, Kfree
  <1>5. Goto(p, "panic") /\ status' = status /\ loc' = loc /\ lost' = lost
    BY DEF ShrinkPanic
  <1>6. PICK as : as = [mem[p].as EXCEPT !.map = f]
    OBVIOUS
  <1>7. PICK m : m = [mem[p] EXCEPT !.as = as]
    OBVIOUS
  <1>8. mem' = [mem EXCEPT ![p] = m]
    BY <1>4, <1>6, <1>7
  <1>9. /\ as \in SpaceType /\ as.root = mem[p].as.root /\ as.tables = mem[p].as.tables /\ as.map = f
        /\ as.holes = mem[p].as.holes /\ as.sz = mem[p].as.sz
    <2>1. 0 \in 0 .. NPAGE /\ mem[p].as.map \in [VPages -> 0 .. NPAGE]
      BY <1>2, MemoryAssumption DEF SpaceType
    <2>2. f \in [VPages -> 0 .. NPAGE]
      BY <1>4, <2>1
    <2> QED
      BY <1>2, <1>6, <2>2 DEF SpaceType
  <1>10. PICK U : U = Above(mem[p].as, D)
    OBVIOUS
  <1>11. free' = free \cup U
    BY <1>4, <1>10 DEF Above
  <1>12. /\ SpaceOK(as) /\ SpacePages(mem[p].as) = SpacePages(as) \cup U
         /\ SpacePages(as) \cap U = {}
    <2>1. Cut(mem[p].as, D, as)
      BY <1>4, <1>9 DEF Cut
    <2>2. SpaceOK(mem[p].as)
      BY <1>3 DEF MemOK
    <2> QED
      BY <1>4, <1>9, <1>10, <2>1, <2>2, CutIs DEF Parted
  <1>13. PICK T : T = {mem[p].tf, mem[p].kstack} \ {0}
    OBVIOUS
  <1>14. T \cap SpacePages(mem[p].as) = {}
    BY <1>3, <1>13 DEF MemOK
  <1>15. m \in Mems /\ MemOK(m) /\ m.as = as /\ MemPages(m) = T \cup SpacePages(as)
         /\ MemPages(mem[p]) = T \cup SpacePages(mem[p].as)
    <2>1. 0 \notin SpacePages(as)
      BY DEF SpacePages
    <2>2. mem[p].tf \notin SpacePages(as) /\ mem[p].kstack \notin SpacePages(as)
      BY <1>12, <1>13, <1>14, <2>1
    <2>3. HasSpace(mem[p], as, [mem[p] EXCEPT !.as = as])
      BY <1>3, <1>9, <1>12, <2>2, SpaceSet
    <2>4. HasSpace(mem[p], as, m)
      BY <1>7, <2>3
    <2> QED
      BY <1>13, <2>4 DEF HasSpace
  <1> HIDE <1>6, <1>7
  <1>16. mem' \in [Procs -> Mems] /\ mem'[p] = m /\ \A q \in Procs : q # p => mem'[q] = mem[q]
    BY <1>2, <1>8, <1>15 DEF MemTypes
  <1>17. /\ pc' \in [Procs -> Asking \cup {"idle", "next", "panic"}] /\ pc'[p] = "panic"
         /\ \A q \in Procs : q # p => pc'[q] = pc[q]
    <2>1. "panic" \in Asking \cup {"idle", "next", "panic"}
      OBVIOUS
    <2> QED
      BY <1>2, <1>5, <2>1, SetPc
  <1>18. Changed(p, p)
    BY <1>2, <1>3, <1>5, <1>11, <1>12, <1>15, <1>16, <1>17 DEF Changed, MemTypes
  <1>19. loc'[p] = NoLocals /\ \A sp : Hand(NoLocals, sp) = {} /\ HandOK(NoLocals, sp)
    BY <1>1, <1>5, NothingIs
  <1>20. Moves(p, p)
    <2>1. Hand(loc'[p], mem'[p].as) = {}
      BY <1>19
    <2>2. free' \cap MemPages(m) = {}
      BY <1>3, <1>11, <1>12, <1>14, <1>15
    <2>3. /\ free' \cup MemPages(m) \subseteq free \cup MemPages(mem[p])
          /\ free \cup MemPages(mem[p]) \subseteq free' \cup MemPages(m)
      BY <1>11, <1>12, <1>15
    <2> QED
      BY <1>1, <1>5, <1>16, <2>1, <2>2, <2>3 DEF Moves
  <1>21. SlotOK(p)'
    <2>1. /\ Mapped(mem[p].as) = {v \in VPages : v < Up(mem[p].as.sz)} \ mem[p].as.holes
          /\ \A v \in mem[p].as.holes : v < Up(mem[p].as.sz)
      BY <1>1, <1>2 DEF SlotOK
    <2>2. h \in VPages /\ h < Up(mem[p].as.sz) /\ mem[p].as.map[h] = 0
      BY <1>4 DEF Gaps
    <2>3. h \notin Mapped(mem[p].as)
      BY <2>2 DEF Mapped
    <2>4. h \in mem[p].as.holes
      BY <2>1, <2>2, <2>3
    <2>5. status'[p] = "used" /\ mem'[p].as = as
      BY <1>1, <1>5, <1>15, <1>16
    <2> QED
      BY <1>9, <1>17, <2>1, <2>4, <2>5 DEF SlotOK
  <1>22. CallOK(p)' /\ Progress(p)'
    <2>1. /\ NoLocals.job = "none" /\ NoLocals.tmp = {} /\ NoLocals.hold = 0 /\ NoLocals.pg = 0
          /\ NoLocals.res = 0
      BY DEF NoLocals
    <2>2. status'[p] = "used"
      BY <1>1, <1>5
    <2> QED
      BY <1>17, <1>19, <2>1, <2>2 DEF CallOK, Progress, Asking
  <1>23. /\ MemOK(mem'[p]) /\ HandOK(loc'[p], mem'[p].as)
         /\ loc'[p].job = "none" /\ loc'[p].res = 0 /\ \A q \in Procs : q # p => loc[q].res = 0
    <2>1. \A q \in Procs : q # p => loc[q].res = 0
      BY <1>4, Quietly
    <2>2. loc'[p].job = "none" /\ loc'[p].res = 0
      BY <1>19 DEF NoLocals
    <2>3. MemOK(mem'[p]) /\ HandOK(loc'[p], mem'[p].as)
      BY <1>15, <1>16, <1>19
    <2> QED
      BY <2>1, <2>2, <2>3
  <1>24. Alone(p, p)
    BY <1>1, UsedIsAlone
  <1> QED
    BY <1>18, <1>20, <1>21, <1>22, <1>23, <1>24, StepKeeps

-----------------------------------------------------------------------------
(* exit and wait. *)

\* A process that exits keeps its pages.
LEMMA ExitStep ==
  ASSUME Serial, MemInv, NEW p \in Procs, Exit(p)
  PROVE  MemInv'
  <1>1. /\ status[p] = "used" /\ pc[p] = "idle" /\ loc[p] = NoLocals /\ Hand(loc[p], mem[p].as) = {}
    BY EnterIs DEF Exit
  <1>2. MemTypes
    BY CallIs
  <1>3. /\ free \subseteq Pages /\ lost \subseteq Pages /\ free \cap MemPages(mem[p]) = {}
        /\ mem[p] \in Mems /\ MemOK(mem[p])
    BY SlotApart
  <1>4. /\ free' = free /\ lost' = lost /\ pc' = pc /\ loc' = loc /\ mem' = [mem EXCEPT ![p] = mem[p]]
        /\ status' = [status EXCEPT ![p] = "zombie"]
    BY <1>2 DEF Exit, MemTypes
  <1>5. Done(p)
    BY <1>1, <1>2, <1>4 DEF Done, Goto, MemTypes
  <1>6. Sets(p, p, NoLocals, "idle", mem[p], "zombie")
    BY <1>3, <1>4, <1>5 DEF Sets, Done
  <1>7. mem'[p] = mem[p] /\ status'[p] = "zombie" => SlotOK(p)'
    BY DEF SlotOK
  <1>8. Alone(p, p)
    BY <1>1, UsedIsAlone
  <1> QED
    BY <1>1, <1>3, <1>4, <1>5, <1>6, <1>7, <1>8, EndStep

\* wait frees the slot of a zombie and none of its pages.
LEMMA WaitStep ==
  ASSUME Serial, MemInv, NEW p \in Procs, Wait(p)
  PROVE  MemInv'
  <1>1. /\ status[p] = "used" /\ pc[p] = "idle" /\ loc[p] = NoLocals /\ Hand(loc[p], mem[p].as) = {}
    BY EnterIs DEF Wait
  <1>2. MemTypes
    BY CallIs
  <1>3. PICK a \in Procs :
          /\ status[a] = "zombie" /\ status' = [status EXCEPT ![a] = "free"]
          /\ lost' = lost \cup MemPages(mem[a]) /\ mem' = [mem EXCEPT ![a] = NoMem]
    BY DEF Wait
  <1>4. free' = free /\ pc' = pc /\ loc' = loc
    BY DEF Wait
  <1>5. /\ free \subseteq Pages /\ lost \subseteq Pages /\ MemPages(mem[a]) \subseteq Pages
    BY SlotApart
  <1>6. Done(p)
    BY <1>1, <1>2, <1>4 DEF Done, Goto, MemTypes
  <1>7. Sets(p, a, NoLocals, "idle", NoMem, "free")
    BY <1>3, <1>4, <1>5, <1>6 DEF Sets, Done
  <1>8. mem'[a] = NoMem /\ status'[a] = "free" => SlotOK(a)'
    BY DEF SlotOK
  <1>9. NoMem \in Mems /\ MemOK(NoMem) /\ MemPages(NoMem) = {}
    BY NothingIs
  <1>10. Alone(p, a)
    <2>1. /\ pc[a] = "idle" /\ \A q \in Procs : loc[q].job = "fork" => loc[q].np # a
      BY <1>3 DEF MemInv, CallOK
    <2> QED
      BY <2>1 DEF Alone
  <1>11. /\ free' \cup MemPages(NoMem) \subseteq free \cup MemPages(mem[a]) \cup Hand(loc[p], mem[p].as)
         /\ free \cup MemPages(mem[a]) \cup Hand(loc[p], mem[p].as) \subseteq free' \cup MemPages(NoMem) \cup lost'
         /\ lost \subseteq lost' /\ free' \cap MemPages(NoMem) = {}
    BY <1>1, <1>3, <1>4, <1>9
  <1> QED
    BY <1>1, <1>4, <1>6, <1>7, <1>8, <1>9, <1>10, <1>11, EndStep

-----------------------------------------------------------------------------
(* The invariant. *)

\* The first process has eight pages, all different, and the rest is free.
LEMMA MemInit ==
  ASSUME Init
  PROVE  MemInv
  <1> DEFINE f == [v \in VPages |-> CASE v = 0 -> 7 [] v = 1 -> 8 [] OTHER -> 0]
             as == [root |-> 3, tables |-> {4, 5, 6}, low |-> 6, holes |-> {}, sz |-> 2 * PGSIZE, map |-> f]
             m == [tf |-> 1, kstack |-> 2, as |-> as]
  <1>1. /\ NPROC \in Nat \ {0} /\ NPAGE \in Nat /\ NPAGE >= 8 /\ 1 \in Procs /\ Procs \subseteq Nat
        /\ Up(2 * PGSIZE) = 2 /\ 2 * PGSIZE \in 0 .. MaxSz
    BY MemoryAssumption, BelowSize DEF Procs
  <1>2. 0 \in VPages /\ 1 \in VPages /\ VPages \subseteq Nat
    <2>1. \A v \in Nat : v < Up(2 * PGSIZE) => v \in VPages
      BY <1>1, BelowSize
    <2> QED
      BY <1>1, <2>1, BelowSize DEF VPages
  <1>3. /\ free = 9 .. NPAGE /\ lost = {}
        /\ status = [p \in Procs |-> IF p = 1 THEN "used" ELSE "free"]
        /\ mem = [p \in Procs |-> IF p # 1 THEN NoMem ELSE m]
        /\ pc = [p \in Procs |-> "idle"] /\ loc = [p \in Procs |-> NoLocals]
    BY DEF Init
  <1>4. f \in [VPages -> 0 .. NPAGE] /\ f[0] = 7 /\ f[1] = 8 /\ \A v \in VPages : v \notin {0, 1} => f[v] = 0
    BY <1>1, <1>2
  <1>5. as \in SpaceType /\ as.root = 3 /\ as.tables = {4, 5, 6} /\ as.map = f /\ as.holes = {} /\ as.sz = 2 * PGSIZE
    BY <1>1, <1>4 DEF SpaceType, Pages
  <1>6. m \in Mems /\ m.tf = 1 /\ m.kstack = 2 /\ m.as = as
    BY <1>1, <1>5 DEF Mems
  <1> HIDE DEF m, as, f
  <1>7. SpacePages(as) = {3, 4, 5, 6, 7, 8}
    <2>1. \A g : g \in SpacePages(as) <=>
            g # 0 /\ (g = as.root \/ g \in as.tables \/ \E v \in VPages : g = as.map[v])
      BY <1>5, SpaceIs
    <2>2. \A g : g # 0 => ((\E v \in VPages : g = f[v]) <=> g = 7 \/ g = 8)
      BY <1>2, <1>4
    <2>3. ASSUME NEW g PROVE g \in SpacePages(as) <=> g \in {3, 4, 5, 6, 7, 8}
      <3>1. CASE g = 0
        <4>1. g \notin SpacePages(as)
          BY <2>1, <3>1
        <4>2. g \notin {3, 4, 5, 6, 7, 8}
          BY <3>1
        <4> QED
          BY <4>1, <4>2
      <3>2. CASE g # 0
        <4>1. (\E v \in VPages : g = as.map[v]) <=> g = 7 \/ g = 8
          BY <1>5, <2>2, <3>2
        <4>2. g \in SpacePages(as) <=> g = 3 \/ g \in {4, 5, 6} \/ g = 7 \/ g = 8
          BY <1>5, <2>1, <3>2, <4>1
        <4> QED
          BY <4>2
      <3> QED
        BY <3>1, <3>2
    <2> QED
      BY <2>3
  <1>8. MemPages(m) = {1, 2, 3, 4, 5, 6, 7, 8}
    BY <1>6, <1>7 DEF MemPages
  <1>9. SpaceOK(as) /\ Mapped(as) = {0, 1}
    <2>1. \A v \in VPages : as.map[v] # 0 <=> v \in {0, 1}
      BY <1>4, <1>5
    <2>2. Mapped(as) = {0, 1}
      BY <1>2, <2>1 DEF Mapped
    <2>3. \A v \in VPages : as.map[v] # 0 => (v = 0 /\ as.map[v] = 7) \/ (v = 1 /\ as.map[v] = 8)
      BY <1>4, <1>5, <2>1
    <2>4. SpaceOK(as)
      BY <1>5, <2>3 DEF SpaceOK
    <2> QED
      BY <2>2, <2>4
  <1>10. MemOK(m)
    BY <1>6, <1>7, <1>9 DEF MemOK
  <1>11. /\ NoMem \in Mems /\ NoLocals \in Locals /\ MemPages(NoMem) = {} /\ MemOK(NoMem)
         /\ \A sp : Hand(NoLocals, sp) = {} /\ HandOK(NoLocals, sp)
    BY NothingIs
  <1>12. /\ NoLocals.job = "none" /\ NoLocals.res = 0 /\ NoLocals.hold = 0 /\ NoLocals.pg = 0
         /\ NoLocals.tmp = {}
    BY DEF NoLocals
  <1>13. MemTypes
    <2>1. free \subseteq Pages /\ lost \subseteq Pages
      BY <1>1, <1>3 DEF Pages
    <2>2. mem \in [Procs -> Mems] /\ loc \in [Procs -> Locals]
      BY <1>3, <1>6, <1>11
    <2> QED
      BY <1>3, <2>1, <2>2 DEF MemTypes
  <1>14. \A p \in Procs : mem[p] = (IF p # 1 THEN NoMem ELSE m) /\ loc[p] = NoLocals /\ pc[p] = "idle"
                       /\ status[p] = (IF p = 1 THEN "used" ELSE "free")
    BY <1>3
  <1>15. Inside
    BY <1>10, <1>11, <1>14 DEF Inside
  <1>16. ChildrenDiffer /\ OneInKalloc
    BY <1>12, <1>14 DEF ChildrenDiffer, OneInKalloc
  <1>17. \A p \in Procs : LocalPages(p) = {}
    BY <1>11, <1>14 DEF LocalPages, Hand, Fresh
  <1>18. Apart
    <2>1. free \cap MemPages(m) = {}
      BY <1>1, <1>3, <1>8
    <2> QED
      BY <1>11, <1>14, <1>17, <2>1 DEF Apart
  <1>19. NoOtherLeak
    <2>1. Pages = free \cup MemPages(m)
      BY <1>1, <1>3, <1>8 DEF Pages
    <2>2. UNION {MemPages(mem[p]) \cup LocalPages(p) : p \in Procs} = MemPages(m)
      BY <1>1, <1>11, <1>14, <1>17
    <2> QED
      BY <1>3, <2>1, <2>2 DEF NoOtherLeak
  <1>20. ASSUME NEW p \in Procs
         PROVE  CallOK(p) /\ Progress(p) /\ SlotOK(p)
    <2>1. CallOK(p) /\ Progress(p)
      BY <1>12, <1>14 DEF CallOK, Progress, Asking
    <2>2. SlotOK(p)
      <3>1. CASE p = 1
        <4>1. Mapped(as) = {v \in VPages : v < Up(as.sz)} \ as.holes
          <5>1. \A v \in VPages : v < 2 <=> v \in {0, 1}
            BY <1>2
          <5>2. {0, 1} = {v \in VPages : v < 2}
            BY <1>2, <5>1
          <5> QED
            BY <1>1, <1>5, <1>9, <5>2
        <4> QED
          BY <1>5, <1>6, <1>14, <3>1, <4>1 DEF SlotOK
      <3>2. CASE p # 1
        BY <1>14, <3>2 DEF SlotOK
      <3> QED
        BY <3>1, <3>2
    <2> QED
      BY <2>1, <2>2
  <1> QED
    BY <1>13, <1>15, <1>16, <1>18, <1>19, <1>20 DEF MemInv

\* Every step keeps the invariant.
LEMMA MemNext ==
  ASSUME Serial, MemInv, [Next]_vars
  PROVE  MemInv'
  <1>1. CASE UNCHANGED vars
    <2>1. UNCHANGED <<free, status, mem, pc, loc, calls, lost>>
      BY <1>1 DEF vars
    <2>2. MemTypes' /\ Inside' /\ ChildrenDiffer' /\ OneInKalloc' /\ Apart' /\ NoOtherLeak'
      <3>1. MemTypes' /\ Inside' /\ ChildrenDiffer'
        BY <2>1 DEF MemInv, MemTypes, Inside, ChildrenDiffer
      <3>2. OneInKalloc'
        BY <2>1 DEF MemInv, OneInKalloc, Head
      <3>3. \A p \in Procs : LocalPages(p)' = LocalPages(p)
        BY <2>1 DEF LocalPages
      <3>4. Apart' /\ NoOtherLeak'
        BY <2>1, <3>3 DEF MemInv, Apart, NoOtherLeak
      <3> QED
        BY <3>1, <3>2, <3>4
    <2>3. \A p \in Procs : CallOK(p)' /\ Progress(p)' /\ SlotOK(p)'
      BY <2>1 DEF MemInv, CallOK, Progress, SlotOK
    <2> QED
      BY <2>2, <2>3 DEF MemInv
  <1>2. CASE Next
    <2>1. PICK p \in Procs : Call(p) \/ Step(p)
      BY <1>2 DEF Next
    <2>2. CASE Call(p)
      <3>1. CASE Fork(p)
        BY <3>1, ForkStep
      <3>2. CASE Exit(p)
        BY <3>2, ExitStep
      <3>3. CASE Wait(p)
        BY <3>3, WaitStep
      <3>4. CASE \E holes \in SUBSET (0 .. ImagePages - 2) : Exec(p, holes)
        BY <3>4, ExecStep
      <3>5. CASE \E n \in {1, PGSIZE + 1} : Grow(p, n) \/ Shrink(p, n) \/ ShrinkPanic(p, n)
        <4>1. PICK n \in {1, PGSIZE + 1} : Grow(p, n) \/ Shrink(p, n) \/ ShrinkPanic(p, n)
          BY <3>5
        <4>2. n \in Nat
          BY <4>1, MemoryAssumption
        <4> QED
          BY <4>1, <4>2, GrowStep, ShrinkStep, ShrinkPanicStep
      <3> QED
        BY <2>2, <3>1, <3>2, <3>3, <3>4, <3>5 DEF Call
    <2>3. CASE Step(p)
      <3>1. CASE KallocRead(p) \/ KallocTake(p)
        BY <3>1, KallocReadStep, KallocTakeStep
      <3>2. CASE ForkTrapframe(p) \/ ForkKstack(p)
        BY <3>2, ForkPageStep
      <3>3. CASE ForkFail(p) \/ UvmcopyFail(p) \/ ForkDone(p)
        BY <3>3, ForkFailStep, UvmcopyFailStep, ForkDoneStep
      <3>4. CASE Root(p) \/ High(p) \/ Trap(p) \/ NextPage(p)
        BY <3>4, RootStep, HighStep, NextPageStep
      <3>5. CASE Page(p) \/ Low(p)
        BY <3>5, PageStep, LowStep
      <3>6. CASE ExecArg(p) \/ ExecFail(p) \/ ExecDone(p)
        BY <3>6, ExecArgStep, ExecFailStep, ExecDoneStep
      <3>7. CASE GrowDone(p) \/ GrowFail(p)
        BY <3>7, GrowDoneStep, GrowFailStep
      <3> QED
        BY <2>3, <3>1, <3>2, <3>3, <3>4, <3>5, <3>6, <3>7 DEF Step
    <2> QED
      BY <2>1, <2>2, <2>3
  <1> QED
    BY <1>1, <1>2

\* Where kalloc is not preempted, the invariant holds for every number of processes and
\* pages, every page size and every sequence of fork, exec, sbrk, exit and wait, failing or not.
THEOREM MemInvariant ==
  ASSUME Serial
  PROVE  Spec => []MemInv
  <1>1. Init => MemInv
    BY MemInit
  <1>2. MemInv /\ [Next]_vars => MemInv'
    BY MemNext
  <1> QED
    BY <1>1, <1>2, PTL DEF Spec

\* Where kalloc is not preempted, no page is lost but with a child that wait reaps, in a
\* proc_pagetable that fails and, below 0x80100000, with a page table that exec frees: every
\* other one is on the free list or somebody has it.
THEOREM MemNoLeak ==
  ASSUME Serial
  PROVE  Spec => []NoOtherLeak
  <1>1. MemInv => NoOtherLeak
    BY DEF MemInv
  <1> QED
    BY <1>1, MemInvariant, PTL

\* Where kalloc is not preempted, a process outside system calls has mapped the pages up to
\* its size but the holes its image came with, and uvmunmap panics only for a process whose
\* image has a hole.
THEOREM MemSizes ==
  ASSUME Serial
  PROVE  Spec => []SizeIsMapped
  <1>1. MemInv => SizeIsMapped
    <2> SUFFICES ASSUME MemInv, NEW p \in Procs
                 PROVE  /\ Idle(p) => Mapped(mem[p].as) =
                                        {v \in VPages : v < Up(mem[p].as.sz)} \ mem[p].as.holes
                        /\ At(p, "panic") => mem[p].as.holes # {}
      BY DEF SizeIsMapped
    <2>1. SlotOK(p) /\ CallOK(p)
      BY CallIs
    <2>2. At(p, "panic") => status[p] = "used"
      BY <2>1 DEF CallOK, At
    <2> QED
      BY <2>1, <2>2 DEF SlotOK, Idle, At
  <1> QED
    BY <1>1, MemInvariant, PTL

\* Sets without a common element have as many elements together as one by one.
LEMMA AddCard ==
  ASSUME NEW S, NEW T, IsFiniteSet(S), IsFiniteSet(T), S \cap T = {}
  PROVE  IsFiniteSet(S \cup T) /\ Cardinality(S \cup T) = Cardinality(S) + Cardinality(T)
  <1>1. /\ IsFiniteSet(S \cup T)
        /\ Cardinality(S \cup T) = Cardinality(S) + Cardinality(T) - Cardinality(S \cap T)
    BY FS_Union
  <1>2. Cardinality(S \cap T) = 0 /\ Cardinality(S) \in Nat /\ Cardinality(T) \in Nat
    BY FS_EmptySet, FS_CardinalityType
  <1> QED
    BY <1>1, <1>2

\* An address space has as many pages for the user as virtual pages it maps.
LEMMA MappedCount ==
  ASSUME NEW as \in SpaceType, SpaceOK(as)
  PROVE  Cardinality({as.map[v] : v \in VPages} \ {0}) = Cardinality(Mapped(as))
  <1> DEFINE T == {as.map[v] : v \in VPages} \ {0}
             f == [v \in Mapped(as) |-> as.map[v]]
  <1>1. IsFiniteSet(Mapped(as))
    <2>1. Up(MaxSz) \in Int /\ Up(MaxSz) - 1 \in Int
      BY BelowSize
    <2>2. IsFiniteSet(VPages)
      BY <2>1, FS_Interval DEF VPages
    <2> QED
      BY <2>2, SpaceIs, FS_Subset
  <1>2. f \in [Mapped(as) -> T]
    BY DEF Mapped
  <1>3. \A v, w \in Mapped(as) : f[v] = f[w] => v = w
    BY DEF Mapped, SpaceOK
  <1>4. \A t \in T : \E v \in Mapped(as) : f[v] = t
    BY DEF Mapped
  <1>5. ExistsBijection(Mapped(as), T)
    <2>1. f \in Injection(Mapped(as), T)
      BY <1>2, <1>3 DEF Injection, IsInjective
    <2>2. f \in Surjection(Mapped(as), T)
      BY <1>2, <1>4 DEF Surjection
    <2> QED
      BY <2>1, <2>2 DEF ExistsBijection, Bijection
  <1> QED
    BY <1>1, <1>5, FS_Bijection

\* A slot has as many pages as it has places for them that are not empty.
LEMMA MemCount ==
  ASSUME NEW m \in Mems, MemOK(m)
  PROVE  Cardinality(MemPages(m)) =
           Cardinality({m.tf} \ {0}) + Cardinality({m.kstack} \ {0})
           + Cardinality({m.as.root} \ {0}) + Cardinality(m.as.tables)
           + Cardinality(Mapped(m.as))
  <1> DEFINE A == {m.tf} \ {0}
             B == {m.kstack} \ {0}
             C == {m.as.root} \ {0}
             D == m.as.tables
             E == {m.as.map[v] : v \in VPages} \ {0}
  <1>1. m.as \in SpaceType /\ SpaceOK(m.as) /\ D \subseteq Pages /\ 0 \notin Pages
    BY MemoryAssumption DEF Mems, MemOK, SpaceType, Pages
  <1>2. Cardinality(E) = Cardinality(Mapped(m.as))
    BY <1>1, MappedCount
  <1>3. IsFiniteSet(A) /\ IsFiniteSet(B) /\ IsFiniteSet(C) /\ IsFiniteSet(D) /\ IsFiniteSet(E)
    <2>1. IsFiniteSet(Pages)
      BY MemoryAssumption, FS_Interval DEF Pages
    <2>2. E \subseteq Pages /\ D \subseteq Pages
      BY <1>1, SpaceIs
    <2>3. IsFiniteSet({m.tf}) /\ IsFiniteSet({m.kstack}) /\ IsFiniteSet({m.as.root})
      BY FS_Singleton
    <2> QED
      BY <2>1, <2>2, <2>3, FS_Subset
  <1>4. SpacePages(m.as) = C \cup D \cup E /\ C \cap D = {} /\ C \cap E = {} /\ D \cap E = {}
    <2>1. SpacePages(m.as) = C \cup D \cup E
      BY <1>1 DEF SpacePages
    <2> QED
      BY <1>1, <2>1 DEF SpaceOK
  <1>5. MemPages(m) = A \cup B \cup SpacePages(m.as)
    BY DEF MemPages
  <1>6. A \cap B = {} /\ A \cap SpacePages(m.as) = {} /\ B \cap SpacePages(m.as) = {}
    BY DEF MemOK
  <1> HIDE DEF A, B, C, D, E
  <1>7. IsFiniteSet(C \cup D) /\ Cardinality(C \cup D) = Cardinality(C) + Cardinality(D)
    BY <1>3, <1>4, AddCard
  <1>8. /\ IsFiniteSet(SpacePages(m.as))
        /\ Cardinality(SpacePages(m.as)) = Cardinality(C \cup D) + Cardinality(E)
    <2>1. (C \cup D) \cap E = {}
      BY <1>4
    <2> QED
      BY <1>3, <1>4, <1>7, <2>1, AddCard
  <1>9. IsFiniteSet(A \cup B) /\ Cardinality(A \cup B) = Cardinality(A) + Cardinality(B)
    BY <1>3, <1>6, AddCard
  <1>10. Cardinality(MemPages(m)) = Cardinality(A \cup B) + Cardinality(SpacePages(m.as))
    <2>1. (A \cup B) \cap SpacePages(m.as) = {}
      BY <1>6
    <2> QED
      BY <1>5, <1>8, <1>9, <2>1, AddCard
  <1>11. /\ Cardinality(A) \in Nat /\ Cardinality(B) \in Nat /\ Cardinality(C) \in Nat
         /\ Cardinality(D) \in Nat /\ Cardinality(E) \in Nat
    BY <1>3, FS_CardinalityType
  <1>12. Cardinality(MemPages(m)) =
           Cardinality(A) + Cardinality(B) + Cardinality(C) + Cardinality(D) + Cardinality(E)
    BY <1>7, <1>8, <1>9, <1>10, <1>11
  <1> QED
    BY <1>2, <1>12 DEF A, B, C, D

\* Where kalloc is not preempted, no page is in two hands: not on the free list and in use,
\* not in two processes, calls or page tables, nor twice in one.
THEOREM MemOwners ==
  ASSUME Serial
  PROVE  Spec => []PagesHaveOneOwner
  <1>1. MemInv => PagesHaveOneOwner
    <2> SUFFICES ASSUME MemInv, NEW p \in Procs
                 PROVE  /\ free \cap (MemPages(mem[p]) \cup LocalPages(p)) = {}
                        /\ \A q \in Procs :
                             /\ MemPages(mem[p]) \cap LocalPages(q) = {}
                             /\ p # q => /\ MemPages(mem[p]) \cap MemPages(mem[q]) = {}
                                         /\ LocalPages(p) \cap LocalPages(q) = {}
                        /\ Cardinality(MemPages(mem[p])) =
                             Cardinality({mem[p].tf} \ {0}) + Cardinality({mem[p].kstack} \ {0})
                             + Cardinality({mem[p].as.root} \ {0}) + Cardinality(mem[p].as.tables)
                             + Cardinality(Mapped(mem[p].as))
      BY DEF PagesHaveOneOwner
    <2>1. free \cap (MemPages(mem[p]) \cup LocalPages(p)) = {}
      BY DEF MemInv, Apart
    <2>2. \A q \in Procs :
            /\ MemPages(mem[p]) \cap LocalPages(q) = {}
            /\ p # q => /\ MemPages(mem[p]) \cap MemPages(mem[q]) = {}
                        /\ LocalPages(p) \cap LocalPages(q) = {}
      BY DEF MemInv, Apart
    <2>3. mem[p] \in Mems /\ MemOK(mem[p])
      BY CallIs
    <2>4. Cardinality(MemPages(mem[p])) =
            Cardinality({mem[p].tf} \ {0}) + Cardinality({mem[p].kstack} \ {0})
            + Cardinality({mem[p].as.root} \ {0}) + Cardinality(mem[p].as.tables)
            + Cardinality(Mapped(mem[p].as))
      BY <2>3, MemCount
    <2> QED
      BY <2>1, <2>2, <2>4
  <1> QED
    BY <1>1, MemInvariant, PTL

=============================================================================
