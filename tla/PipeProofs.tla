----------------------------- MODULE PipeProofs -----------------------------
(***************************************************************************)
(* Proofs about module Pipe, for every number of writers and readers, size *)
(* of the ring, width of the counters and length of the calls: what goes   *)
(* into the ring comes out of it in order, through the wrap-around of the  *)
(* counters; no sleeper is forgotten; the page is not freed under a call;  *)
(* and the pipe implements the bounded channel of module Channel.          *)
(***************************************************************************)
EXTENDS Pipe, SequenceTheorems, TLAPS

\* An end is open as long as a descriptor refers to it, the page is freed with the second
\* end, and a call under way has a descriptor and something to do.
EndsAgree ==
  /\ readopen <=> rfd # {}
  /\ writeopen <=> wfd # {}
  /\ freed <=> ~readopen /\ ~writeopen
  /\ \A p \in Procs : call[p] = "write" => p \in wfd
  /\ \A p \in Procs : call[p] = "read" => p \in rfd /\ want[p] >= 1

\* The history of the ring is made of bytes.
HistoryOK == sent \in Seq(Bytes) /\ rcvd \in Seq(Bytes)

\* The inductive invariant.  A read that faults takes bytes without waking the writers, so
\* that sleepers are awaited only where user pages are mapped.
PipeInv ==
  /\ TypeOK /\ EndsAgree /\ HistoryOK /\ RingIsFifo
  /\ ~Faults => NoLostWakeup

-----------------------------------------------------------------------------
(* Unsigned arithmetic. *)

\* Two remainders that differ by a multiple of the modulus are equal.
LEMMA OneRemainder ==
  ASSUME NEW m \in Nat \ {0}, NEW r \in 0 .. m - 1, NEW s \in 0 .. m - 1, NEW t \in Int, r = s + m * t
  PROVE  r = s
<1>1. t >= 1 => m * t >= m
  OBVIOUS
<1>2. t <= -1 => m * t <= -m
  OBVIOUS
<1>3. t = 0
  BY <1>1, <1>2
<1>4. m * t = 0
  BY <1>3
<1>5. QED BY <1>4

\* What the remainder is.
LEMMA DivMod ==
  ASSUME NEW m \in Nat \ {0}, NEW x \in Int
  PROVE  x % m \in 0 .. m - 1 /\ \E d \in Int : x = m * d + (x % m)
<1>1. x % m \in 0 .. m - 1
  OBVIOUS
<1>2. (x \div m) \in Int
  OBVIOUS
<1>3. x = m * (x \div m) + (x % m)
  OBVIOUS
<1>4. QED BY <1>1, <1>2, <1>3

\* A multiple of the modulus does not change the remainder.
LEMMA ModPeriod ==
  ASSUME NEW m \in Nat \ {0}, NEW x \in Int, NEW c \in Int
  PROVE  (x + m * c) % m = x % m
<1>2. x + m * c \in Int
  OBVIOUS
<1>3. PICK r \in 0 .. m - 1 : r = x % m
  BY DivMod
<1>4. PICK s \in 0 .. m - 1 : s = (x + m * c) % m
  BY <1>2, DivMod
<1>5. PICK d \in Int : x = m * d + r
  BY <1>3, DivMod
<1>6. PICK e \in Int : x + m * c = m * e + s
  BY <1>2, <1>4, DivMod
<1>7. d + c - e \in Int /\ s = r + m * (d + c - e)
  BY <1>5, <1>6
<1>8. s = r
  BY <1>7, OneRemainder
<1>9. QED BY <1>3, <1>4, <1>8

\* A number below the modulus is its own remainder.
LEMMA ModSmall ==
  ASSUME NEW m \in Nat \ {0}, NEW x \in 0 .. m - 1
  PROVE  x % m = x
<1>0. x \in Int
  OBVIOUS
<1>1. PICK d \in Int : x = m * d + (x % m)
  BY <1>0, DivMod
<1>2. x % m \in 0 .. m - 1
  BY <1>0, DivMod
<1>3. QED BY <1>1, <1>2, OneRemainder

\* One turn.
LEMMA ModTurn ==
  ASSUME NEW m \in Nat \ {0}, NEW x \in Int
  PROVE  (x + m) % m = x % m
<1>1. PICK c \in Int : c = 1
  OBVIOUS
<1>2. (x + m * c) % m = x % m
  BY ModPeriod
<1>3. x + m * c = x + m
  BY <1>1
<1>4. QED BY <1>2, <1>3

\* The counters wrap around without disturbing the slots: PIPESIZE divides W.
LEMMA RingPeriod ==
  ASSUME NEW x \in Int, NEW c \in Int
  PROVE  (x + W * c) % PIPESIZE = x % PIPESIZE
<1>1. PIPESIZE \in Nat \ {0} /\ W \in Int /\ W % PIPESIZE = 0
  BY PipeAssumption
<1>2. PICK d \in Int : W = PIPESIZE * d + (W % PIPESIZE)
  BY <1>1, DivMod
<1>3. W * c = PIPESIZE * (d * c) /\ d * c \in Int
  BY <1>1, <1>2
<1>4. PICK e \in Int : e = d * c
  BY <1>3
<1>5. (x + PIPESIZE * e) % PIPESIZE = x % PIPESIZE
  BY <1>1, ModPeriod
<1>6. QED BY <1>3, <1>4, <1>5

\* Adding k to a counter: it wraps around at most once.
LEMMA PlusIs ==
  ASSUME NEW n \in 0 .. W - 1, NEW k \in 0 .. W - 1
  PROVE  Plus(n, k) \in 0 .. W - 1 /\ \E e \in {0, -1} : Plus(n, k) = n + k + W * e
<1>1. W \in Nat \ {0}
  BY PipeAssumption
<1>2. CASE n + k < W
  <2>1. n + k \in 0 .. W - 1
    BY <1>1, <1>2
  <2>2. Plus(n, k) = n + k
    BY <1>1, <2>1, ModSmall DEF Plus
  <2>3. n + k = n + k + W * 0
    BY <1>1
  <2>4. QED BY <2>1, <2>2, <2>3
<1>3. CASE n + k >= W
  <2>1. n + k - W \in 0 .. W - 1 /\ n + k - W \in Int
    BY <1>1, <1>3
  <2>2. ((n + k - W) + W) % W = (n + k - W) % W
    BY <1>1, <2>1, ModTurn
  <2>3. (n + k - W) + W = n + k
    BY <1>1
  <2>4. Plus(n, k) = n + k - W
    BY <1>1, <2>1, <2>2, <2>3, ModSmall DEF Plus
  <2>5. n + k - W = n + k + W * (-1)
    BY <1>1
  <2>6. QED BY <2>1, <2>4, <2>5
<1>4. QED BY <1>1, <1>2, <1>3

\* The number of bytes in the ring does not depend on how often the counters wrapped.
LEMMA CountIs ==
  ASSUME NEW n \in 0 .. W - 1, NEW c \in 0 .. W - 1, NEW e \in Int, NEW m \in Int, m = n + c + W * e
  PROVE  (m - n) % W = c
<1>1. W \in Nat \ {0}
  BY PipeAssumption
<1>2. m - n = c + W * e /\ c \in Int
  BY <1>1
<1>3. (c + W * e) % W = c % W
  BY <1>1, <1>2, ModPeriod
<1>4. QED BY <1>1, <1>2, <1>3, ModSmall

\* And nwrite is nread and that number, up to one turn.
LEMMA CountOf ==
  ASSUME nread \in 0 .. W - 1, nwrite \in 0 .. W - 1
  PROVE  Count \in 0 .. W - 1 /\ \E e \in Int : nwrite = nread + Count + W * e
<1>1. W \in Nat \ {0}
  BY PipeAssumption
<1>2. nwrite - nread \in Int
  BY <1>1
<1>3. PICK d \in Int : nwrite - nread = W * d + ((nwrite - nread) % W)
  BY <1>1, <1>2, DivMod
<1>4. (nwrite - nread) % W \in 0 .. W - 1
  BY <1>1, <1>2, DivMod
<1>5. PICK c \in 0 .. W - 1 : c = (nwrite - nread) % W
  BY <1>4
<1>6. nwrite = nread + c + W * d
  BY <1>1, <1>3, <1>5
<1>7. QED BY <1>5, <1>6 DEF Count

\* The place of byte i of the ring.
Slot(i) == (nread + i - 1) % PIPESIZE

\* How far slot i lies behind the place where the next byte is written.
LEMMA SlotOffset ==
  ASSUME nread \in 0 .. W - 1, nwrite \in 0 .. W - 1, Count <= PIPESIZE, NEW i \in 1 .. PIPESIZE
  PROVE  /\ Slot(i) \in 0 .. PIPESIZE - 1
         /\ i <= Count => (Slot(i) - nwrite) % PIPESIZE = i - 1 - Count + PIPESIZE
         /\ i > Count => (Slot(i) - nwrite) % PIPESIZE = i - 1 - Count
<1>1. PIPESIZE \in Nat \ {0} /\ W \in Nat \ {0} /\ nread + i - 1 \in Int
  BY PipeAssumption
<1>2. Slot(i) \in 0 .. PIPESIZE - 1
  BY <1>1, DivMod DEF Slot
<1>3. PICK s \in 0 .. PIPESIZE - 1 : s = Slot(i)
  BY <1>2
<1>4. PICK d \in Int : nread + i - 1 = PIPESIZE * d + s
  BY <1>1, <1>3, DivMod DEF Slot
<1>5. PICK c \in 0 .. W - 1 : c = Count
  BY CountOf
<1>6. PICK e \in Int : nwrite = nread + c + W * e
  BY <1>5, CountOf
<1>7. s - nwrite = ((i - 1 - c) + PIPESIZE * (-d)) + W * (-e)
  BY <1>1, <1>4, <1>6
<1>8. (s - nwrite) % PIPESIZE = (i - 1 - c) % PIPESIZE
  <2>1. i - 1 - c \in Int /\ (i - 1 - c) + PIPESIZE * (-d) \in Int /\ -d \in Int /\ -e \in Int
    BY <1>1
  <2>2. (((i - 1 - c) + PIPESIZE * (-d)) + W * (-e)) % PIPESIZE = ((i - 1 - c) + PIPESIZE * (-d)) % PIPESIZE
    BY <2>1, RingPeriod
  <2>3. ((i - 1 - c) + PIPESIZE * (-d)) % PIPESIZE = (i - 1 - c) % PIPESIZE
    BY <1>1, <2>1, ModPeriod
  <2>4. QED BY <1>7, <2>2, <2>3
<1>9. ASSUME i > c PROVE (i - 1 - c) % PIPESIZE = i - 1 - c
  <2>1. i - 1 - c \in 0 .. PIPESIZE - 1
    BY <1>1, <1>9
  <2>2. QED BY <1>1, <2>1, ModSmall
<1>10. ASSUME i <= c PROVE (i - 1 - c) % PIPESIZE = i - 1 - c + PIPESIZE
  <2>1. i - 1 - c + PIPESIZE \in 0 .. PIPESIZE - 1 /\ i - 1 - c \in Int
    BY <1>1, <1>5, <1>10
  <2>2. ((i - 1 - c) + PIPESIZE) % PIPESIZE = (i - 1 - c) % PIPESIZE
    BY <1>1, <2>1, ModTurn
  <2>3. QED BY <1>1, <2>1, <2>2, ModSmall
<1>11. QED BY <1>2, <1>3, <1>5, <1>8, <1>9, <1>10

-----------------------------------------------------------------------------
(* The ring. *)

\* k bytes are put into the ring behind the ones that are there.
LEMMA PutInRing ==
  ASSUME PipeInv, NEW b \in Seq(Bytes), NEW k \in 0 .. Len(b), k <= PIPESIZE - Count,
         data' = Filled(b, k), nwrite' = Plus(nwrite, k), sent' = sent \o SubSeq(b, 1, k),
         UNCHANGED <<nread, rcvd>>
  PROVE  /\ data' \in [0 .. PIPESIZE - 1 -> Bytes] /\ nwrite' \in 0 .. W - 1
         /\ Count' = Count + k
         /\ HistoryOK' /\ RingIsFifo'
         /\ Window' = Window \o SubSeq(b, 1, k)
<1>0. /\ PIPESIZE \in Nat \ {0} /\ W \in Nat \ {0} /\ W > PIPESIZE
      /\ nread \in 0 .. W - 1 /\ nwrite \in 0 .. W - 1 /\ nread' = nread
      /\ data \in [0 .. PIPESIZE - 1 -> Bytes]
      /\ sent \in Seq(Bytes) /\ rcvd \in Seq(Bytes) /\ rcvd' = rcvd
  BY PipeAssumption DEF PipeInv, TypeOK, HistoryOK
<1>1. PICK c \in 0 .. W - 1 : c = Count
  BY <1>0, CountOf
<1>2. c <= PIPESIZE /\ k <= PIPESIZE - c /\ Len(b) \in Nat /\ k \in Nat
  BY <1>1 DEF PipeInv, RingIsFifo
<1>3. c + k \in 0 .. W - 1 /\ k \in 0 .. W - 1
  BY <1>0, <1>2
<1>4. nwrite' \in 0 .. W - 1
  BY <1>0, <1>3, PlusIs
<1>5. Count' = c + k
  <2>1. PICK e \in Int : nwrite = nread + c + W * e
    BY <1>0, <1>1, CountOf
  <2>2. PICK f \in {0, -1} : nwrite' = nwrite + k + W * f
    BY <1>0, <1>3, PlusIs
  <2>a. PICK g \in Int, h \in 0 .. W - 1 : g = e + f /\ h = c + k
    BY <1>3
  <2>3. nwrite' = nread + h + W * g /\ nwrite' \in Int
    BY <1>0, <1>2, <1>4, <2>1, <2>2, <2>a
  <2>4. (nwrite' - nread) % W = h
    BY <1>0, <2>3, CountIs
  <2>5. QED BY <1>0, <2>4, <2>a DEF Count
<1>6. \A j \in 1 .. Len(b) : b[j] \in Bytes
  BY ElementOfSeq
<1>7. \A i \in 0 .. PIPESIZE - 1 :
        /\ (i - nwrite) % PIPESIZE \in 0 .. PIPESIZE - 1
        /\ data'[i] = IF (i - nwrite) % PIPESIZE < k THEN b[((i - nwrite) % PIPESIZE) + 1] ELSE data[i]
  <2>1. \A i \in 0 .. PIPESIZE - 1 : i - nwrite \in Int
    BY <1>0
  <2>2. \A i \in 0 .. PIPESIZE - 1 : (i - nwrite) % PIPESIZE \in 0 .. PIPESIZE - 1
    BY <1>0, <2>1, DivMod
  <2>3. QED BY <2>2 DEF Filled
<1>8. data' \in [0 .. PIPESIZE - 1 -> Bytes]
  <2>1. \A i \in 0 .. PIPESIZE - 1 : data'[i] \in Bytes
    <3> SUFFICES ASSUME NEW i \in 0 .. PIPESIZE - 1 PROVE data'[i] \in Bytes
      OBVIOUS
    <3>1. PICK j \in 0 .. PIPESIZE - 1 : j = (i - nwrite) % PIPESIZE
      BY <1>7
    <3>2. data'[i] = IF j < k THEN b[j + 1] ELSE data[i]
      BY <3>1, <1>7
    <3>3. j < k => j + 1 \in 1 .. Len(b)
      BY <1>0, <1>2, <3>1
    <3>4. QED BY <3>2, <3>3, <1>0, <1>6
  <2>2. data' = [i \in 0 .. PIPESIZE - 1 |-> data'[i]]
    BY DEF Filled
  <2>3. QED BY <2>1, <2>2
<1>9. \A i \in 1 .. c + k : data'[Slot(i)] = IF i <= c THEN data[Slot(i)] ELSE b[i - c]
  <2> SUFFICES ASSUME NEW i \in 1 .. c + k
               PROVE  data'[Slot(i)] = IF i <= c THEN data[Slot(i)] ELSE b[i - c]
    OBVIOUS
  <2>1. i \in 1 .. PIPESIZE
    BY <1>0, <1>2
  <2>2. /\ Slot(i) \in 0 .. PIPESIZE - 1
        /\ i <= c => (Slot(i) - nwrite) % PIPESIZE = i - 1 - c + PIPESIZE
        /\ i > c => (Slot(i) - nwrite) % PIPESIZE = i - 1 - c
    BY <1>0, <1>1, <1>2, <2>1, SlotOffset
  <2>3. PICK s \in 0 .. PIPESIZE - 1 : s = Slot(i)
    BY <2>2
  <2>4. PICK j \in 0 .. PIPESIZE - 1 : j = (s - nwrite) % PIPESIZE
    BY <1>7
  <2>5. data'[s] = IF j < k THEN b[j + 1] ELSE data[s]
    BY <2>4, <1>7
  <2>6. CASE i <= c
    <3>1. j = i - 1 - c + PIPESIZE
      BY <2>2, <2>3, <2>4, <2>6
    <3>2. ~(j < k)
      BY <3>1, <1>0, <1>2
    <3>3. QED BY <2>3, <2>5, <2>6, <3>2
  <2>7. CASE i > c
    <3>1. j = i - 1 - c
      BY <2>2, <2>3, <2>4, <2>7
    <3>2. j < k /\ j + 1 = i - c /\ ~(i <= c)
      BY <3>1, <1>0, <1>2, <2>7
    <3>3. QED BY <2>3, <2>5, <3>2
  <2>8. QED BY <1>0, <2>6, <2>7
<1>10. /\ SubSeq(b, 1, k) \in Seq(Bytes) /\ Len(SubSeq(b, 1, k)) = k
       /\ \A j \in 1 .. k : SubSeq(b, 1, k)[j] = b[j]
  <2>1. \A i \in 1 .. k : b[i] \in Bytes
    BY <1>2, <1>6
  <2>2. QED BY <1>2, <2>1
<1>11. PICK u \in Seq(Bytes) : u = SubSeq(b, 1, k) /\ Len(u) = k /\ \A j \in 1 .. k : u[j] = b[j]
  BY <1>10
<1>12. /\ sent' \in Seq(Bytes) /\ Len(sent') = Len(sent) + k
       /\ \A j \in 1 .. Len(sent) : sent'[j] = sent[j]
       /\ \A j \in 1 .. k : sent'[Len(sent) + j] = b[j]
  <2>1. sent' = sent \o u /\ sent \in Seq(Bytes)
    BY <1>0, <1>2, <1>11
  <2>2. QED BY <2>1, <1>2, <1>11
<1>13. /\ Len(sent) = Len(rcvd) + c /\ Len(sent) \in Nat /\ Len(rcvd) \in Nat
       /\ \A i \in 1 .. Len(rcvd) : rcvd[i] = sent[i]
       /\ \A i \in 1 .. c : data[Slot(i)] = sent[Len(rcvd) + i]
  BY <1>0, <1>1 DEF PipeInv, RingIsFifo, Slot
<1>14. \A i \in 1 .. c + k : data'[Slot(i)] = sent'[Len(rcvd) + i]
  <2> SUFFICES ASSUME NEW i \in 1 .. c + k PROVE data'[Slot(i)] = sent'[Len(rcvd) + i]
    OBVIOUS
  <2>1. CASE i <= c
    <3>1. i \in 1 .. c /\ Len(rcvd) + i \in 1 .. Len(sent)
      BY <2>1, <1>13
    <3>2. QED BY <2>1, <3>1, <1>9, <1>12, <1>13
  <2>2. CASE i > c
    <3>1. i - c \in 1 .. k /\ Len(rcvd) + i = Len(sent) + (i - c) /\ ~(i <= c)
      BY <2>2, <1>2, <1>13
    <3>2. QED BY <3>1, <1>9, <1>12
  <2>3. i <= c \/ i > c
    BY <1>0, <1>2
  <2>4. QED BY <2>1, <2>2, <2>3
<1>15. RingIsFifo'
  <2>1. \A i \in 1 .. Len(rcvd) : rcvd[i] = sent'[i]
    <3>1. \A i \in 1 .. Len(rcvd) : i \in 1 .. Len(sent)
      BY <1>13
    <3>2. QED BY <3>1, <1>12, <1>13
  <2>2. Len(sent') = Len(rcvd) + (c + k) /\ c + k <= PIPESIZE
    BY <1>0, <1>2, <1>12, <1>13
  <2>3. QED BY <1>0, <1>5, <1>14, <2>1, <2>2 DEF RingIsFifo, Slot
<1>16. Window' = Window \o SubSeq(b, 1, k)
  <2>1. Window = [i \in 1 .. c |-> data[Slot(i)]] /\ Window' = [i \in 1 .. c + k |-> data'[Slot(i)]]
    BY <1>0, <1>1, <1>5 DEF Window, Slot
  <2>2. PICK w : w = Window
    OBVIOUS
  <2>3. \A i \in 1 .. c : data[Slot(i)] \in Bytes
    BY <1>0, <1>2, SlotOffset, <1>1
  <2>4. w \in Seq(Bytes) /\ Len(w) = c /\ \A i \in 1 .. c : w[i] = data[Slot(i)]
    BY <2>1, <2>2, <2>3, <1>0, <1>2
  <2>5. PICK x \in Seq(Bytes) : x = w \o u
    BY <2>4, ConcatProperties
  <2>6. Len(x) = c + k /\ \A i \in 1 .. c + k : x[i] = IF i <= c THEN w[i] ELSE u[i - c]
    <3>1. /\ Len(w \o u) = Len(w) + Len(u)
          /\ \A i \in 1 .. Len(w) + Len(u) : (w \o u)[i] = IF i <= Len(w) THEN w[i] ELSE u[i - Len(w)]
      BY <2>4, ConcatProperties
    <3>2. QED BY <3>1, <2>4, <2>5, <1>11
  <2>7. \A i \in 1 .. c + k : x[i] = data'[Slot(i)]
    <3> SUFFICES ASSUME NEW i \in 1 .. c + k PROVE x[i] = data'[Slot(i)]
      OBVIOUS
    <3>1. CASE i <= c
      <4>1. i \in 1 .. c
        BY <3>1, <1>0, <1>2
      <4>2. x[i] = data[Slot(i)]
        BY <3>1, <4>1, <2>4, <2>6
      <4>3. QED BY <3>1, <4>2, <1>9
    <3>2. CASE ~(i <= c)
      <4>1. i - c \in 1 .. k
        BY <3>2, <1>0, <1>2
      <4>2. x[i] = b[i - c]
        BY <3>2, <4>1, <2>6, <1>11
      <4>3. QED BY <3>2, <4>2, <1>9
    <3>3. QED BY <3>1, <3>2
  <2>8. x = [i \in 1 .. c + k |-> data'[Slot(i)]]
    <3>1. x = [i \in 1 .. Len(x) |-> x[i]]
      BY LenProperties
    <3>2. QED BY <3>1, <2>6, <2>7
  <2>9. QED BY <2>1, <2>2, <2>5, <2>8, <1>11
<1>17. QED BY <1>1, <1>4, <1>5, <1>8, <1>0, <1>12, <1>15, <1>16 DEF HistoryOK

\* k bytes are taken out of the ring, from its front.
LEMMA TakeFromRing ==
  ASSUME PipeInv, NEW k \in 0 .. Count, Take(k), UNCHANGED <<data, nwrite, sent>>
  PROVE  /\ nread' \in 0 .. W - 1
         /\ Count' = Count - k
         /\ HistoryOK' /\ RingIsFifo'
         /\ Window' = SubSeq(Window, k + 1, Count)
<1>0. /\ PIPESIZE \in Nat \ {0} /\ W \in Nat \ {0} /\ W > PIPESIZE
      /\ nread \in 0 .. W - 1 /\ nwrite \in 0 .. W - 1 /\ nwrite' = nwrite
      /\ data \in [0 .. PIPESIZE - 1 -> Bytes] /\ data' = data
      /\ sent \in Seq(Bytes) /\ rcvd \in Seq(Bytes) /\ sent' = sent
  BY PipeAssumption DEF PipeInv, TypeOK, HistoryOK
<1>1. PICK c \in 0 .. W - 1 : c = Count
  BY <1>0, CountOf
<1>2. c <= PIPESIZE /\ k \in 0 .. c /\ k \in 0 .. W - 1
  BY <1>0, <1>1 DEF PipeInv, RingIsFifo
<1>3. nread' \in 0 .. W - 1 /\ \E f \in {0, -1} : nread' = nread + k + W * f
  BY <1>0, <1>2, PlusIs DEF Take
<1>4. PICK f \in {0, -1} : nread' = nread + k + W * f
  BY <1>3
<1>5. Count' = c - k
  <2>1. PICK e \in Int : nwrite = nread + c + W * e
    BY <1>0, <1>1, CountOf
  <2>2. PICK g \in Int, h \in 0 .. W - 1 : g = e - f /\ h = c - k
    BY <1>0, <1>2
  <2>3. nwrite = nread' + h + W * g /\ nwrite \in Int
    BY <1>0, <1>2, <1>4, <2>1, <2>2
  <2>4. (nwrite - nread') % W = h
    BY <1>0, <1>3, <2>3, CountIs
  <2>5. QED BY <1>0, <2>2, <2>4 DEF Count
<1>6. \A i \in 1 .. c - k : Slot(i)' = Slot(k + i)
  <2> SUFFICES ASSUME NEW i \in 1 .. c - k PROVE Slot(i)' = Slot(k + i)
    OBVIOUS
  <2>1. nread' + i - 1 = (nread + (k + i) - 1) + W * f /\ nread + (k + i) - 1 \in Int /\ f \in Int
    BY <1>0, <1>2, <1>4
  <2>2. QED BY <2>1, RingPeriod DEF Slot
<1>7. /\ Len(sent) = Len(rcvd) + c /\ Len(sent) \in Nat /\ Len(rcvd) \in Nat
      /\ \A i \in 1 .. Len(rcvd) : rcvd[i] = sent[i]
      /\ \A i \in 1 .. c : data[Slot(i)] = sent[Len(rcvd) + i]
  BY <1>0, <1>1 DEF PipeInv, RingIsFifo, Slot
<1>8. \A i \in 1 .. c : data[Slot(i)] \in Bytes
  BY <1>0, <1>1, <1>2, SlotOffset
<1>9. PICK u \in Seq(Bytes) : /\ u = [i \in 1 .. k |-> data[Slot(i)]]
                              /\ Len(u) = k /\ \A i \in 1 .. k : u[i] = data[Slot(i)]
  <2>1. \A i \in 1 .. k : data[Slot(i)] \in Bytes
    BY <1>2, <1>8
  <2>2. [i \in 1 .. k |-> data[Slot(i)]] \in Seq(Bytes)
    BY <2>1, <1>2
  <2>3. PICK u : u = [i \in 1 .. k |-> data[Slot(i)]]
    OBVIOUS
  <2>4. u \in Seq(Bytes) /\ Len(u) = k /\ \A i \in 1 .. k : u[i] = data[Slot(i)]
    BY <2>2, <2>3, <1>2
  <2>5. QED BY <2>3, <2>4
<1>10. rcvd' = rcvd \o u
  BY <1>9 DEF Take, Slot
<1>11. /\ rcvd' \in Seq(Bytes) /\ Len(rcvd') = Len(rcvd) + k
       /\ \A i \in 1 .. Len(rcvd) : rcvd'[i] = rcvd[i]
       /\ \A i \in 1 .. k : rcvd'[Len(rcvd) + i] = data[Slot(i)]
  BY <1>0, <1>2, <1>9, <1>10
<1>12. \A i \in 1 .. Len(rcvd') : rcvd'[i] = sent[i]
  <2> SUFFICES ASSUME NEW i \in 1 .. Len(rcvd) + k PROVE rcvd'[i] = sent[i]
    BY <1>11
  <2>1. CASE i <= Len(rcvd)
    BY <2>1, <1>7, <1>11
  <2>2. CASE i > Len(rcvd)
    <3>1. PICK j \in 1 .. k : i = Len(rcvd) + j
      <4>1. i - Len(rcvd) \in 1 .. k /\ i = Len(rcvd) + (i - Len(rcvd))
        BY <2>2, <1>2, <1>7
      <4>2. QED BY <4>1
    <3>2. j \in 1 .. c
      BY <1>2
    <3>3. QED BY <3>1, <3>2, <1>7, <1>11
  <2>3. QED BY <2>1, <2>2, <1>7
<1>13. \A i \in 1 .. c - k : data[Slot(i)'] = sent[Len(rcvd') + i]
  <2> SUFFICES ASSUME NEW i \in 1 .. c - k PROVE data[Slot(i)'] = sent[Len(rcvd') + i]
    OBVIOUS
  <2>1. k + i \in 1 .. c /\ Len(rcvd) + (k + i) = Len(rcvd') + i
    BY <1>2, <1>7, <1>11
  <2>2. QED BY <2>1, <1>6, <1>7
<1>14. RingIsFifo'
  <2>1. Len(sent) = Len(rcvd') + (c - k) /\ c - k <= PIPESIZE
    BY <1>0, <1>2, <1>7, <1>11
  <2>2. QED BY <1>0, <1>5, <1>12, <1>13, <2>1 DEF RingIsFifo, Slot
<1>15. Window' = SubSeq(Window, k + 1, Count)
  <2>1. Window = [i \in 1 .. c |-> data[Slot(i)]] /\ Window' = [i \in 1 .. c - k |-> data[Slot(i)']]
    BY <1>0, <1>1, <1>5 DEF Window, Slot
  <2>2. Window \in Seq(Bytes) /\ Len(Window) = c
    BY <2>1, <1>8, <1>0, <1>2
  <2>3. SubSeq(Window, k + 1, c) = [i \in 1 .. c - k |-> Window[k + i]]
    BY <2>2, <1>2
  <2>4. \A i \in 1 .. c - k : Window[k + i] = data[Slot(i)']
    BY <2>1, <1>2, <1>6
  <2>5. QED BY <2>1, <2>3, <2>4, <1>1
<1>16. QED BY <1>0, <1>1, <1>3, <1>5, <1>11, <1>14, <1>15 DEF HistoryOK

-----------------------------------------------------------------------------
(* The steps. *)

\* What a call was given to write, and what is left of it, is a string of bytes.
LEMMA BuffersAre ==
  /\ \A b \in Buffers \cup {<< >>} : b \in Seq(Bytes)
  /\ \A b \in Buffers \cup {<< >>} : \A k \in 0 .. Len(b) - 1 : SubSeq(b, k + 1, Len(b)) \in Buffers
<1>1. \A b \in Buffers : b \in Seq(Bytes) /\ \E n \in 1 .. MaxLen : b \in [1 .. n -> Bytes] /\ Len(b) = n
  <2> SUFFICES ASSUME NEW n \in 1 .. MaxLen, NEW b \in [1 .. n -> Bytes]
               PROVE  b \in Seq(Bytes) /\ Len(b) = n
    BY DEF Buffers
  <2>1. n \in Nat
    BY PipeAssumption
  <2>2. QED BY <2>1
<1>2. \A b \in Buffers \cup {<< >>} : b \in Seq(Bytes)
  BY <1>1, EmptySeq
<1>3. ASSUME NEW b \in Buffers \cup {<< >>}, NEW k \in 0 .. Len(b) - 1
      PROVE  SubSeq(b, k + 1, Len(b)) \in Buffers
  <2>1. b \in Buffers
    BY <1>3
  <2>2. PICK n \in 1 .. MaxLen : b \in [1 .. n -> Bytes] /\ Len(b) = n
    BY <1>1, <2>1
  <2>3. k \in 0 .. n - 1 /\ n \in Nat /\ MaxLen \in Nat
    BY <2>2, PipeAssumption
  <2>4. n - k \in 1 .. MaxLen
    BY <2>3
  <2>5. SubSeq(b, k + 1, n) \in [1 .. n - k -> Bytes]
    <3>1. \A i \in k + 1 .. n : b[i] \in Bytes
      BY <2>2, <2>3
    <3>2. SubSeq(b, k + 1, n) \in Seq(Bytes) /\ Len(SubSeq(b, k + 1, n)) = n - k
      <4>1. k + 1 \in Int /\ n \in Int /\ n - (k + 1) + 1 = n - k /\ k + 1 <= n
        BY <2>3
      <4>2. QED BY <3>1, <4>1, SubSeqProperties
    <3>3. QED BY <3>2, LenProperties
  <2>6. QED BY <2>2, <2>4, <2>5 DEF Buffers
<1>4. QED BY <1>2, <1>3

\* A call that returns leaves the types and the calls of others.
LEMMA ReturnKeeps ==
  ASSUME PipeInv, NEW p \in Procs, NEW r \in {"wrote", "got", "eof", "error"}, Return(p, r)
  PROVE  /\ call' \in [Procs -> {"none", "write", "read"}]
         /\ DOMAIN rest' = Procs /\ \A q \in Procs : rest'[q] \in Buffers \cup {<< >>}
         /\ want' \in [Procs -> 0 .. MaxLen]
         /\ slept' \in [Procs -> BOOLEAN]
         /\ ret' \in {<< >>} \cup (Procs \X {"wrote", "got", "eof", "error"})
         /\ call'[p] = "none"
         /\ \A q \in Procs : q # p => call'[q] = call[q] /\ want'[q] = want[q]
<1>1. call' \in [Procs -> {"none", "write", "read"}] /\ call'[p] = "none"
  BY DEF PipeInv, TypeOK, Return
<1>2. DOMAIN rest' = Procs /\ \A q \in Procs : rest'[q] = IF q = p THEN << >> ELSE rest[q]
  BY DEF PipeInv, TypeOK, Return
<1>3. want' \in [Procs -> 0 .. MaxLen]
  <2>1. 0 \in 0 .. MaxLen
    BY PipeAssumption
  <2>2. QED BY <2>1 DEF PipeInv, TypeOK, Return
<1>4. slept' \in [Procs -> BOOLEAN]
  BY DEF PipeInv, TypeOK, Return
<1>5. ret' \in Procs \X {"wrote", "got", "eof", "error"}
  BY DEF Return
<1>6. \A q \in Procs : q # p => call'[q] = call[q] /\ want'[q] = want[q]
  BY DEF PipeInv, TypeOK, Return
<1>7. \A q \in Procs : rest'[q] \in Buffers \cup {<< >>}
  BY <1>2 DEF PipeInv, TypeOK
<1>8. QED BY <1>1, <1>2, <1>3, <1>4, <1>5, <1>6, <1>7

\* wakeup followed by sleep.
LEMMA WakeupKeeps ==
  ASSUME PipeInv, NEW p \in Procs, NEW c \in {"nread", "nwrite"}, NEW d \in {"none", "nread", "nwrite"},
         WakeupThenSleep(c, p, d)
  PROVE  /\ chan' \in [Procs -> {"none", "nread", "nwrite"}]
         /\ chan'[p] = d
         /\ \A q \in Procs : q # p => chan'[q] # c
         /\ \A q \in Procs : q # p => chan'[q] \in {"none", chan[q]}
<1>1. \A q \in Procs : chan[q] \in {"none", "nread", "nwrite"}
  BY DEF PipeInv, TypeOK
<1>2. \A q \in Procs : chan'[q] = IF q = p THEN d ELSE IF chan[q] = c THEN "none" ELSE chan[q]
  BY DEF WakeupThenSleep
<1>3. chan' \in [Procs -> {"none", "nread", "nwrite"}]
  BY <1>1 DEF WakeupThenSleep
<1>4. QED BY <1>1, <1>2, <1>3

\* write and read are called.
LEMMA CallKeeps ==
  ASSUME PipeInv, NEW p \in Procs,
         (\E b \in Buffers : WriteCall(p, b)) \/ (\E n \in 1 .. MaxLen : ReadCall(p, n))
  PROVE  PipeInv'
<1>1. ASSUME NEW b \in Buffers, WriteCall(p, b) PROVE PipeInv'
  <2>1. Len(b) \in Nat
    BY BuffersAre, LenProperties
  <2>2. asked' \in 0 .. MaxBytes
    BY <1>1, <2>1, PipeAssumption DEF WriteCall, PipeInv, TypeOK
  <2>3. /\ call' \in [Procs -> {"none", "write", "read"}]
        /\ \A q \in Procs : call'[q] = IF q = p THEN "write" ELSE call[q]
        /\ DOMAIN rest' = Procs /\ \A q \in Procs : rest'[q] = IF q = p THEN b ELSE rest[q]
    BY <1>1 DEF WriteCall, PipeInv, TypeOK
  <2>4. p \in wfd /\ UNCHANGED <<data, nread, nwrite, readopen, writeopen, freed, want, slept,
                                chan, killed, rfd, wfd, ret, sent, rcvd>>
    BY <1>1 DEF WriteCall, pipe
  <2>5. TypeOK'
    BY <2>2, <2>3, <2>4 DEF PipeInv, TypeOK
  <2>6. EndsAgree'
    BY <2>3, <2>4 DEF PipeInv, EndsAgree
  <2>7. HistoryOK' /\ RingIsFifo' /\ (NoLostWakeup => NoLostWakeup')
    BY <2>4 DEF PipeInv, HistoryOK, RingIsFifo, NoLostWakeup, Count
  <2>8. QED BY <2>5, <2>6, <2>7 DEF PipeInv
<1>2. ASSUME NEW n \in 1 .. MaxLen, ReadCall(p, n) PROVE PipeInv'
  <2>1. n \in 0 .. MaxLen /\ n >= 1
    BY PipeAssumption
  <2>2. /\ call' \in [Procs -> {"none", "write", "read"}]
        /\ \A q \in Procs : call'[q] = IF q = p THEN "read" ELSE call[q]
        /\ want' \in [Procs -> 0 .. MaxLen]
        /\ \A q \in Procs : want'[q] = IF q = p THEN n ELSE want[q]
    BY <1>2, <2>1 DEF ReadCall, PipeInv, TypeOK
  <2>3. p \in rfd /\ UNCHANGED <<data, nread, nwrite, readopen, writeopen, freed, rest, slept,
                                chan, killed, rfd, wfd, ret, asked, sent, rcvd>>
    BY <1>2 DEF ReadCall, pipe
  <2>4. TypeOK'
    BY <2>2, <2>3 DEF PipeInv, TypeOK
  <2>5. EndsAgree'
    BY <2>1, <2>2, <2>3 DEF PipeInv, EndsAgree
  <2>6. HistoryOK' /\ RingIsFifo' /\ (NoLostWakeup => NoLostWakeup')
    BY <2>3 DEF PipeInv, HistoryOK, RingIsFifo, NoLostWakeup, Count
  <2>7. QED BY <2>4, <2>5, <2>6 DEF PipeInv
<1>3. QED BY <1>1, <1>2

\* A call returns without touching the ring: an error, or the end of the file.
LEMMA EmptyReturnKeeps ==
  ASSUME PipeInv, NEW p \in Procs, PipeWriteFails(p) \/ PipeReadEof(p) \/ PipeReadFails(p)
  PROVE  PipeInv'
<1>1. PICK r \in {"wrote", "got", "eof", "error"} : Return(p, r)
  BY DEF PipeWriteFails, PipeReadEof, PipeReadFails
<1>2. UNCHANGED <<data, nread, nwrite, readopen, writeopen, freed, chan, killed, rfd, wfd, asked, sent, rcvd>>
  BY DEF PipeWriteFails, PipeReadEof, PipeReadFails, pipe
<1>3. TypeOK'
  BY <1>1, <1>2, ReturnKeeps DEF PipeInv, TypeOK
<1>4. EndsAgree'
  BY <1>1, <1>2, ReturnKeeps DEF PipeInv, EndsAgree
<1>5. HistoryOK' /\ RingIsFifo' /\ (NoLostWakeup => NoLostWakeup')
  BY <1>2 DEF PipeInv, HistoryOK, RingIsFifo, NoLostWakeup, Count
<1>6. QED BY <1>3, <1>4, <1>5 DEF PipeInv

\* The number of bytes in the ring.
LEMMA CountType ==
  ASSUME PipeInv
  PROVE  Count \in Nat /\ Count <= PIPESIZE /\ PIPESIZE \in Nat
<1>1. Count \in 0 .. W - 1
  BY CountOf DEF PipeInv, TypeOK
<1>2. QED BY <1>1, PipeAssumption DEF PipeInv, RingIsFifo

\* What one turn of pipewrite puts into the ring.
LEMMA WriteFits ==
  ASSUME PipeInv, NEW p \in Procs, PipeWrite(p)
  PROVE  \E k \in 0 .. Len(rest[p]) :
           /\ rest[p] \in Seq(Bytes) /\ k <= PIPESIZE - Count
           /\ data' = Filled(rest[p], k) /\ nwrite' = Plus(nwrite, k)
           /\ sent' = sent \o SubSeq(rest[p], 1, k)
           /\ \/ /\ k < Len(rest[p]) /\ k = PIPESIZE - Count
                 /\ rest' = [rest EXCEPT ![p] = SubSeq(rest[p], k + 1, Len(rest[p]))]
                 /\ WakeupThenSleep("nread", p, "nwrite")
                 /\ UNCHANGED <<call, want, slept, ret>>
              \/ k = Len(rest[p]) /\ WakeupThenSleep("nread", p, "none") /\ Return(p, "wrote")
<1> DEFINE room == PIPESIZE - Count
           k == IF Len(rest[p]) <= room THEN Len(rest[p]) ELSE room
<1>1. rest[p] \in Seq(Bytes) /\ Len(rest[p]) \in Nat
  BY BuffersAre, LenProperties DEF PipeInv, TypeOK
<1>2. k \in 0 .. Len(rest[p]) /\ k <= PIPESIZE - Count /\ (k < Len(rest[p]) => k = PIPESIZE - Count)
  BY <1>1, CountType
<1>3. /\ data' = Filled(rest[p], k) /\ nwrite' = Plus(nwrite, k)
      /\ sent' = sent \o SubSeq(rest[p], 1, k)
      /\ \/ /\ k < Len(rest[p])
            /\ rest' = [rest EXCEPT ![p] = SubSeq(rest[p], k + 1, Len(rest[p]))]
            /\ WakeupThenSleep("nread", p, "nwrite")
            /\ UNCHANGED <<call, want, slept, ret>>
         \/ k = Len(rest[p]) /\ WakeupThenSleep("nread", p, "none") /\ Return(p, "wrote")
  BY DEF PipeWrite
<1> HIDE DEF k
<1>4. QED BY <1>1, <1>2, <1>3

\* pipewrite between two places where the lock is free.
LEMMA PipeWriteKeeps ==
  ASSUME PipeInv, NEW p \in Procs, PipeWrite(p)
  PROVE  PipeInv'
<1>1. PICK k \in 0 .. Len(rest[p]) :
        /\ rest[p] \in Seq(Bytes) /\ k <= PIPESIZE - Count
        /\ data' = Filled(rest[p], k) /\ nwrite' = Plus(nwrite, k)
        /\ sent' = sent \o SubSeq(rest[p], 1, k)
        /\ \/ /\ k < Len(rest[p]) /\ k = PIPESIZE - Count
              /\ rest' = [rest EXCEPT ![p] = SubSeq(rest[p], k + 1, Len(rest[p]))]
              /\ WakeupThenSleep("nread", p, "nwrite")
              /\ UNCHANGED <<call, want, slept, ret>>
           \/ WakeupThenSleep("nread", p, "none") /\ Return(p, "wrote")
  BY WriteFits
<1>2. UNCHANGED <<nread, readopen, writeopen, freed, killed, rfd, wfd, asked, rcvd>> /\ readopen
  BY DEF PipeWrite
<1>3. PICK b \in Seq(Bytes) : b = rest[p]
  BY <1>1
<1>4. /\ data' \in [0 .. PIPESIZE - 1 -> Bytes] /\ nwrite' \in 0 .. W - 1
      /\ Count' = Count + k /\ HistoryOK' /\ RingIsFifo'
  BY <1>1, <1>2, <1>3, PutInRing
<1>5. k \in Nat /\ Count \in Nat /\ PIPESIZE \in Nat /\ Len(rest[p]) \in Nat
  BY <1>1, <1>3, CountType, LenProperties
<1>6. CASE /\ k < Len(rest[p]) /\ k = PIPESIZE - Count
           /\ rest' = [rest EXCEPT ![p] = SubSeq(rest[p], k + 1, Len(rest[p]))]
           /\ WakeupThenSleep("nread", p, "nwrite")
           /\ UNCHANGED <<call, want, slept, ret>>
  <2>1. SubSeq(rest[p], k + 1, Len(rest[p])) \in Buffers
    <3>1. k \in 0 .. Len(rest[p]) - 1 /\ rest[p] \in Buffers \cup {<< >>}
      BY <1>5, <1>6 DEF PipeInv, TypeOK
    <3>2. QED BY <3>1, BuffersAre
  <2>2. DOMAIN rest' = Procs /\ \A q \in Procs : rest'[q] \in Buffers \cup {<< >>}
    BY <1>6, <2>1 DEF PipeInv, TypeOK
  <2>3. /\ chan' \in [Procs -> {"none", "nread", "nwrite"}] /\ chan'[p] = "nwrite"
        /\ \A q \in Procs : q # p => chan'[q] # "nread" /\ chan'[q] \in {"none", chan[q]}
    BY <1>6, WakeupKeeps
  <2>4. TypeOK'
    BY <1>2, <1>4, <1>6, <2>2, <2>3 DEF PipeInv, TypeOK
  <2>5. EndsAgree'
    BY <1>2, <1>6 DEF PipeInv, EndsAgree
  <2>6. Count' = PIPESIZE
    BY <1>4, <1>5, <1>6
  <2>7. NoLostWakeup'
    BY <1>2, <2>3, <2>6 DEF NoLostWakeup
  <2>8. QED BY <1>4, <2>4, <2>5, <2>7 DEF PipeInv
<1>7. CASE WakeupThenSleep("nread", p, "none") /\ Return(p, "wrote")
  <2>1. /\ chan' \in [Procs -> {"none", "nread", "nwrite"}] /\ chan'[p] = "none"
        /\ \A q \in Procs : q # p => chan'[q] # "nread" /\ chan'[q] \in {"none", chan[q]}
    BY <1>7, WakeupKeeps
  <2>2. TypeOK'
    BY <1>2, <1>4, <1>7, <2>1, ReturnKeeps DEF PipeInv, TypeOK
  <2>3. EndsAgree'
    BY <1>2, <1>7, ReturnKeeps DEF PipeInv, EndsAgree
  <2>4. ASSUME NoLostWakeup PROVE NoLostWakeup'
    <3>1. SUFFICES ASSUME NEW q \in Procs, chan'[q] = "nwrite" PROVE Count' = PIPESIZE /\ readopen'
      BY <2>1 DEF NoLostWakeup
    <3>2. Count = PIPESIZE
      BY <2>1, <2>4, <3>1 DEF NoLostWakeup
    <3>3. k = 0
      BY <1>1, <1>5, <3>2
    <3>4. QED BY <1>2, <1>4, <1>5, <3>2, <3>3
  <2>5. QED BY <1>4, <2>2, <2>3, <2>4 DEF PipeInv
<1>8. QED BY <1>1, <1>6, <1>7

\* What piperead takes: something, and no more than there is.
LEMMA ReadFits ==
  ASSUME PipeInv, NEW p \in Procs, call[p] = "read", Count > 0
  PROVE  (IF want[p] <= Count THEN want[p] ELSE Count) \in 1 .. Count
  BY CountType, PipeAssumption DEF PipeInv, EndsAgree, TypeOK

\* piperead returns with data.
LEMMA PipeReadKeeps ==
  ASSUME PipeInv, NEW p \in Procs, PipeRead(p)
  PROVE  PipeInv'
<1>1. PICK k \in 1 .. Count : Take(k)
  BY ReadFits DEF PipeRead
<1>2. /\ WakeupThenSleep("nwrite", p, "none") /\ Return(p, "got") /\ Count > 0
      /\ UNCHANGED <<data, nwrite, readopen, writeopen, freed, killed, rfd, wfd, asked, sent>>
  BY DEF PipeRead
<1>3. k \in 0 .. Count
  BY CountType
<1>4. nread' \in 0 .. W - 1 /\ HistoryOK' /\ RingIsFifo'
  BY <1>1, <1>2, <1>3, TakeFromRing
<1>5. /\ chan' \in [Procs -> {"none", "nread", "nwrite"}] /\ chan'[p] = "none"
      /\ \A q \in Procs : q # p => chan'[q] # "nwrite" /\ chan'[q] \in {"none", chan[q]}
  BY <1>2, WakeupKeeps
<1>6. TypeOK'
  BY <1>2, <1>4, <1>5, ReturnKeeps DEF PipeInv, TypeOK
<1>7. EndsAgree'
  BY <1>2, ReturnKeeps DEF PipeInv, EndsAgree
<1>8. ASSUME NoLostWakeup PROVE NoLostWakeup'
  <2>1. \A q \in Procs : chan[q] # "nread"
    BY <1>2, <1>8, CountType DEF NoLostWakeup
  <2>2. \A q \in Procs : chan'[q] = "none"
    BY <1>5, <2>1
  <2>3. QED BY <2>2 DEF NoLostWakeup
<1>9. QED BY <1>4, <1>6, <1>7, <1>8 DEF PipeInv

\* piperead meets an unmapped page.
LEMMA PipeReadFaultsKeeps ==
  ASSUME PipeInv, NEW p \in Procs, PipeReadFaults(p)
  PROVE  PipeInv'
<1>1. PICK k \in 0 .. Count : Take(k)
  <2>1. PICK n \in 1 .. Count : \E k \in 0 .. n - 1 : Take(k)
    BY ReadFits DEF PipeReadFaults
  <2>2. 0 .. n - 1 \subseteq 0 .. Count
    BY CountType
  <2>3. QED BY <2>1, <2>2
<1>2. /\ Return(p, "error") /\ Faults
      /\ UNCHANGED <<data, nwrite, readopen, writeopen, freed, chan, killed, rfd, wfd, asked, sent>>
  BY DEF PipeReadFaults
<1>3. nread' \in 0 .. W - 1 /\ HistoryOK' /\ RingIsFifo'
  BY <1>1, <1>2, TakeFromRing
<1>4. TypeOK'
  BY <1>2, <1>3, ReturnKeeps DEF PipeInv, TypeOK
<1>5. EndsAgree'
  BY <1>2, ReturnKeeps DEF PipeInv, EndsAgree
<1>6. QED BY <1>2, <1>3, <1>4, <1>5 DEF PipeInv

\* piperead goes to sleep.
LEMMA PipeReadSleepsKeeps ==
  ASSUME PipeInv, NEW p \in Procs, PipeReadSleeps(p)
  PROVE  PipeInv'
<1>1. /\ Count = 0 /\ writeopen /\ WakeupThenSleep("nwrite", p, "nread")
      /\ UNCHANGED <<data, nread, nwrite, readopen, writeopen, freed, call, rest, want, killed,
                     rfd, wfd, ret, asked, sent, rcvd>>
  BY DEF PipeReadSleeps, pipe
<1>2. slept' \in [Procs -> BOOLEAN]
  BY DEF PipeReadSleeps, PipeInv, TypeOK
<1>3. /\ chan' \in [Procs -> {"none", "nread", "nwrite"}] /\ chan'[p] = "nread"
      /\ \A q \in Procs : q # p => chan'[q] # "nwrite" /\ chan'[q] \in {"none", chan[q]}
  BY <1>1, WakeupKeeps
<1>4. TypeOK'
  BY <1>1, <1>2, <1>3 DEF PipeInv, TypeOK
<1>5. EndsAgree' /\ HistoryOK' /\ RingIsFifo' /\ Count' = Count
  BY <1>1 DEF PipeInv, EndsAgree, HistoryOK, RingIsFifo, Count
<1>6. NoLostWakeup'
  BY <1>1, <1>3, <1>5 DEF NoLostWakeup
<1>7. QED BY <1>4, <1>5, <1>6 DEF PipeInv

\* A descriptor is closed.
LEMMA CloseKeeps ==
  ASSUME PipeInv, NEW p \in Procs, Close(p)
  PROVE  PipeInv'
<1>0. \A q \in Procs : chan[q] \in {"none", "nread", "nwrite"}
  BY DEF PipeInv, TypeOK
<1>1. CASE CloseWrite(p)
  <2>1. /\ wfd' = wfd \ {p} /\ (writeopen' <=> wfd' # {}) /\ (freed' <=> wfd' = {} /\ ~readopen)
        /\ writeopen' \in BOOLEAN /\ freed' \in BOOLEAN
        /\ chan' \in [Procs -> {"none", "nread", "nwrite"}]
        /\ \A q \in Procs : chan'[q] = IF wfd' = {} /\ chan[q] = "nread" THEN "none" ELSE chan[q]
        /\ call[p] = "none"
        /\ UNCHANGED <<data, nread, nwrite, readopen, call, rest, want, slept, killed, rfd,
                       ret, asked, sent, rcvd>>
    BY <1>0, <1>1 DEF CloseWrite, Idle
  <2>2. TypeOK'
    BY <2>1 DEF PipeInv, TypeOK
  <2>3. EndsAgree'
    BY <2>1 DEF PipeInv, EndsAgree
  <2>4. HistoryOK' /\ RingIsFifo' /\ Count' = Count
    BY <2>1 DEF PipeInv, HistoryOK, RingIsFifo, Count
  <2>5. NoLostWakeup => NoLostWakeup'
    BY <2>1, <2>4 DEF NoLostWakeup
  <2>6. QED BY <2>2, <2>3, <2>4, <2>5 DEF PipeInv
<1>2. CASE CloseRead(p)
  <2>1. /\ rfd' = rfd \ {p} /\ (readopen' <=> rfd' # {}) /\ (freed' <=> rfd' = {} /\ ~writeopen)
        /\ readopen' \in BOOLEAN /\ freed' \in BOOLEAN
        /\ chan' \in [Procs -> {"none", "nread", "nwrite"}]
        /\ \A q \in Procs : chan'[q] = IF rfd' = {} /\ chan[q] = "nwrite" THEN "none" ELSE chan[q]
        /\ call[p] = "none"
        /\ UNCHANGED <<data, nread, nwrite, writeopen, call, rest, want, slept, killed, wfd,
                       ret, asked, sent, rcvd>>
    BY <1>0, <1>2 DEF CloseRead, Idle
  <2>2. TypeOK'
    BY <2>1 DEF PipeInv, TypeOK
  <2>3. EndsAgree'
    BY <2>1 DEF PipeInv, EndsAgree
  <2>4. HistoryOK' /\ RingIsFifo' /\ Count' = Count
    BY <2>1 DEF PipeInv, HistoryOK, RingIsFifo, Count
  <2>5. NoLostWakeup => NoLostWakeup'
    BY <2>1, <2>4 DEF NoLostWakeup
  <2>6. QED BY <2>2, <2>3, <2>4, <2>5 DEF PipeInv
<1>3. QED BY <1>1, <1>2 DEF Close

\* Ctrl-C.
LEMMA CtrlCKeeps ==
  ASSUME PipeInv, NEW p \in Procs, CtrlC(p)
  PROVE  PipeInv'
<1>1. /\ killed' \in [Procs -> BOOLEAN] /\ chan' \in [Procs -> {"none", "nread", "nwrite"}]
      /\ \A q \in Procs : chan'[q] \in {"none", chan[q]}
      /\ UNCHANGED <<data, nread, nwrite, readopen, writeopen, freed, call, rest, want, slept, rfd,
                     wfd, ret, asked, sent, rcvd>>
  BY DEF CtrlC, pipe, PipeInv, TypeOK
<1>2. TypeOK'
  BY <1>1 DEF PipeInv, TypeOK
<1>3. EndsAgree' /\ HistoryOK' /\ RingIsFifo' /\ Count' = Count
  BY <1>1 DEF PipeInv, EndsAgree, HistoryOK, RingIsFifo, Count
<1>4. NoLostWakeup => NoLostWakeup'
  BY <1>1, <1>3 DEF NoLostWakeup
<1>5. QED BY <1>2, <1>3, <1>4 DEF PipeInv

\* A new pipe: both ends open, the ring empty.
LEMMA PipeInitInv == Init => PipeInv
<1> SUFFICES ASSUME Init PROVE PipeInv
  OBVIOUS
<1>0. PIPESIZE \in Nat \ {0} /\ W \in Nat \ {0} /\ 0 \in 0 .. W - 1 /\ 0 \in 0 .. MaxLen /\ 0 \in 0 .. MaxBytes
  BY PipeAssumption
<1>1. Count = 0
  <2>1. 0 - 0 = 0 /\ 0 % W = 0
    BY <1>0, ModSmall
  <2>2. QED BY <2>1 DEF Init, Count
<1>2. TypeOK
  <2>1. data \in [0 .. PIPESIZE - 1 -> Bytes]
    BY PipeAssumption DEF Init
  <2>2. slept \in [Procs -> BOOLEAN] /\ killed \in [Procs -> BOOLEAN]
    BY DEF Init
  <2>3. readopen \in BOOLEAN /\ writeopen \in BOOLEAN /\ freed \in BOOLEAN
    BY DEF Init
  <2>4. QED BY <1>0, <2>1, <2>2, <2>3 DEF Init, TypeOK
<1>3. EndsAgree
  BY PipeAssumption DEF Init, EndsAgree
<1>4. HistoryOK /\ RingIsFifo
  <2>1. sent = << >> /\ rcvd = << >> /\ sent \in Seq(Bytes) /\ rcvd \in Seq(Bytes) /\ Len(sent) = 0 /\ Len(rcvd) = 0
    BY EmptySeq DEF Init
  <2>2. QED BY <1>0, <1>1, <2>1 DEF HistoryOK, RingIsFifo
<1>5. NoLostWakeup
  BY DEF Init, NoLostWakeup
<1>6. QED BY <1>2, <1>3, <1>4, <1>5 DEF PipeInv

\* Every step keeps the invariant.
LEMMA PipeNextInv == PipeInv /\ [Next]_vars => PipeInv'
<1> SUFFICES ASSUME PipeInv, [Next]_vars PROVE PipeInv'
  OBVIOUS
<1>1. ASSUME NEW p \in Procs,
             (\E b \in Buffers : WriteCall(p, b)) \/ (\E n \in 1 .. MaxLen : ReadCall(p, n))
      PROVE  PipeInv'
  BY <1>1, CallKeeps
<1>2. ASSUME NEW p \in Procs, PipeStep(p) PROVE PipeInv'
  BY <1>2, PipeWriteKeeps, EmptyReturnKeeps, PipeReadKeeps, PipeReadFaultsKeeps,
     PipeReadSleepsKeeps DEF PipeStep
<1>3. ASSUME NEW p \in Procs, Close(p) \/ CtrlC(p) PROVE PipeInv'
  BY <1>3, CloseKeeps, CtrlCKeeps
<1>4. CASE UNCHANGED vars
  BY <1>4 DEF vars, pipe, PipeInv, TypeOK, EndsAgree, HistoryOK, RingIsFifo, NoLostWakeup, Count
<1>5. QED BY <1>1, <1>2, <1>3, <1>4 DEF Next

\* The inductive invariant of the pipe holds in every reachable state.
THEOREM PipeInvariant == Spec => []PipeInv
  BY PipeInitInv, PipeNextInv, PTL DEF Spec

\* The ring of a pipe is a queue: piperead returns the bytes of pipewrite in their order,
\* none lost, doubled or overwritten, also where nread and nwrite wrap around.
THEOREM PipeFifo == Spec => []RingIsFifo
<1>1. PipeInv => RingIsFifo
  BY DEF PipeInv
<1>2. QED BY <1>1, PipeInvariant, PTL

\* As long as no read faults, nobody sleeps in pipewrite or piperead although it could go on.
THEOREM PipeWakeups == ASSUME ~Faults PROVE Spec => []NoLostWakeup
<1>1. PipeInv => NoLostWakeup
  BY DEF PipeInv
<1>2. QED BY <1>1, PipeInvariant, PTL

\* pipeclose frees the page only when no call and no descriptor can reach it.
THEOREM PipePage == Spec => []NoUseAfterFree
<1>1. PipeInv => NoUseAfterFree
  <2> SUFFICES ASSUME PipeInv, freed PROVE rfd = {} /\ wfd = {} /\ \A p \in Procs : call[p] = "none"
    BY DEF NoUseAfterFree
  <2>1. rfd = {} /\ wfd = {}
    BY DEF PipeInv, EndsAgree
  <2>2. \A p \in Procs : call[p] \in {"none", "write", "read"}
    BY DEF PipeInv, TypeOK
  <2>3. QED BY <2>1, <2>2 DEF PipeInv, EndsAgree
<1>2. QED BY <1>1, PipeInvariant, PTL

-----------------------------------------------------------------------------
(* The pipe implements the channel.  The bytes under way are the window of *)
(* the ring; what a call does between two places where the lock is free is *)
(* one step of the channel.                                                *)

\* The window is a string of at most PIPESIZE bytes.
LEMMA WindowIs ==
  ASSUME PipeInv
  PROVE  Window \in Seq(Bytes) /\ Len(Window) = Count /\ Count \in Nat /\ Count <= PIPESIZE
<1>1. Count \in Nat /\ Count <= PIPESIZE /\ PIPESIZE \in Nat
  BY CountType
<1>2. nread \in 0 .. W - 1 /\ nwrite \in 0 .. W - 1 /\ data \in [0 .. PIPESIZE - 1 -> Bytes]
  BY DEF PipeInv, TypeOK
<1>3. PICK c \in Nat : c = Count /\ c <= PIPESIZE
  BY <1>1
<1>4. \A i \in 1 .. c : data[Slot(i)] \in Bytes
  <2>1. \A i \in 1 .. c : i \in 1 .. PIPESIZE
    BY <1>1, <1>3
  <2>2. QED BY <1>2, <1>3, <2>1, SlotOffset
<1>5. Window = [i \in 1 .. c |-> data[Slot(i)]]
  BY <1>3 DEF Window, Slot
<1>6. QED BY <1>1, <1>3, <1>4, <1>5

\* Steps that the programs at the ends do not see.
LEMMA WindowSame ==
  ASSUME UNCHANGED <<data, nread, nwrite>>
  PROVE  Window' = Window
  BY DEF Window, Count

\* The programs see a call by what is left of it.
LocalsAgree ==
  /\ rest = [p \in Procs |-> rest[p]]
  /\ \A p \in Procs : (call[p] = "write" <=> rest[p] # << >>) /\ (call[p] = "read" <=> want[p] # 0)

\* What a write is given is not empty, and no longer than a call allows.
LEMMA BuffersLen ==
  \A b \in Buffers : b # << >> /\ b \in Seq(Bytes) /\ Len(b) \in 1 .. MaxLen
<1> SUFFICES ASSUME NEW n \in 1 .. MaxLen, NEW b \in [1 .. n -> Bytes]
             PROVE  b # << >> /\ b \in Seq(Bytes) /\ Len(b) \in 1 .. MaxLen
  BY DEF Buffers
<1>1. n \in Nat /\ n > 0
  BY PipeAssumption
<1>2. b \in Seq(Bytes) /\ Len(b) = n
  BY <1>1
<1>3. QED BY <1>1, <1>2, EmptySeq

\* A call that returns has no locals, and the others keep theirs.
LEMMA ReturnLocals ==
  ASSUME PipeInv, LocalsAgree, NEW p \in Procs, NEW r, Return(p, r)
  PROVE  LocalsAgree'
<1>1. \A q \in Procs : /\ call'[q] = IF q = p THEN "none" ELSE call[q]
                       /\ rest'[q] = IF q = p THEN << >> ELSE rest[q]
                       /\ want'[q] = IF q = p THEN 0 ELSE want[q]
  BY DEF Return, PipeInv, TypeOK
<1>2. rest' = [q \in Procs |-> rest'[q]]
  BY DEF Return, LocalsAgree
<1>3. QED BY <1>1, <1>2 DEF LocalsAgree

\* What is left of a call agrees with the call, at every step.
LEMMA LocalsKept ==
  ASSUME PipeInv, LocalsAgree, [Next]_vars
  PROVE  LocalsAgree'
<1>1. CASE UNCHANGED vars
  BY <1>1 DEF vars, LocalsAgree
<1>2. ASSUME NEW p \in Procs, NEW b \in Buffers, WriteCall(p, b) PROVE LocalsAgree'
  <2>1. b # << >>
    BY BuffersLen
  <2>2. /\ UNCHANGED want /\ call[p] = "none" /\ rest' = [q \in Procs |-> rest'[q]]
        /\ \A q \in Procs : /\ call'[q] = IF q = p THEN "write" ELSE call[q]
                            /\ rest'[q] = IF q = p THEN b ELSE rest[q]
    BY <1>2 DEF WriteCall, Idle, PipeInv, TypeOK, LocalsAgree
  <2>3. QED BY <2>1, <2>2 DEF LocalsAgree
<1>3. ASSUME NEW p \in Procs, NEW n \in 1 .. MaxLen, ReadCall(p, n) PROVE LocalsAgree'
  <2>1. n # 0
    BY PipeAssumption
  <2>2. /\ UNCHANGED rest /\ call[p] = "none"
        /\ \A q \in Procs : /\ call'[q] = IF q = p THEN "read" ELSE call[q]
                            /\ want'[q] = IF q = p THEN n ELSE want[q]
    BY <1>3 DEF ReadCall, Idle, PipeInv, TypeOK
  <2>3. QED BY <2>1, <2>2 DEF LocalsAgree
<1>4. ASSUME NEW p \in Procs, PipeWrite(p) PROVE LocalsAgree'
  <2>1. PICK k \in 0 .. Len(rest[p]) :
          \/ /\ k < Len(rest[p])
             /\ rest' = [rest EXCEPT ![p] = SubSeq(rest[p], k + 1, Len(rest[p]))]
             /\ UNCHANGED <<call, want, slept, ret>>
          \/ Return(p, "wrote")
    BY <1>4, WriteFits
  <2>2. CASE Return(p, "wrote")
    BY <2>2, ReturnLocals
  <2>3. CASE /\ k < Len(rest[p])
             /\ rest' = [rest EXCEPT ![p] = SubSeq(rest[p], k + 1, Len(rest[p]))]
             /\ UNCHANGED <<call, want, slept, ret>>
    <3>1. rest[p] \in Buffers \cup {<< >>} /\ Len(rest[p]) \in Nat
      BY BuffersAre, LenProperties DEF PipeInv, TypeOK
    <3>2. SubSeq(rest[p], k + 1, Len(rest[p])) # << >>
      <4>1. k \in 0 .. Len(rest[p]) - 1
        BY <2>3, <3>1
      <4>2. SubSeq(rest[p], k + 1, Len(rest[p])) \in Buffers
        BY <3>1, <4>1, BuffersAre
      <4>3. QED BY <4>2, BuffersLen
    <3>3. \A q \in Procs : rest'[q] # << >> <=> rest[q] # << >>
      <4>1. \A q \in Procs : rest'[q] = IF q = p THEN SubSeq(rest[p], k + 1, Len(rest[p])) ELSE rest[q]
        BY <2>3 DEF PipeInv, TypeOK
      <4>2. rest[p] # << >>
        BY <1>4 DEF PipeWrite, LocalsAgree
      <4>3. QED BY <3>2, <4>1, <4>2
    <3>4. rest' = [q \in Procs |-> rest'[q]]
      BY <2>3 DEF LocalsAgree
    <3>5. QED BY <2>3, <3>3, <3>4 DEF LocalsAgree
  <2>4. QED BY <2>1, <2>2, <2>3
<1>5. ASSUME NEW p \in Procs, NEW r, Return(p, r) PROVE LocalsAgree'
  BY <1>5, ReturnLocals
<1>6. ASSUME NEW p \in Procs, PipeReadSleeps(p) \/ Close(p) \/ CtrlC(p) PROVE LocalsAgree'
  BY <1>6 DEF PipeReadSleeps, Close, CloseWrite, CloseRead, CtrlC, LocalsAgree
<1>7. QED
  BY <1>1, <1>2, <1>3, <1>4, <1>5, <1>6
  DEF Next, PipeStep, PipeWriteFails, PipeRead, PipeReadFaults, PipeReadEof, PipeReadFails

\* Bytes of a write enter the queue, and the write returns with the last of them.
LEMMA PipeWritePuts ==
  ASSUME PipeInv, LocalsAgree, NEW p \in Procs, PipeWrite(p)
  PROVE  \E k \in 0 .. MaxLen : Ch!Put(p, k)
<1>1. PICK k \in 0 .. Len(rest[p]) :
        /\ rest[p] \in Seq(Bytes) /\ k <= PIPESIZE - Count
        /\ data' = Filled(rest[p], k) /\ nwrite' = Plus(nwrite, k)
        /\ sent' = sent \o SubSeq(rest[p], 1, k)
        /\ \/ /\ k < Len(rest[p])
              /\ rest' = [rest EXCEPT ![p] = SubSeq(rest[p], k + 1, Len(rest[p]))]
              /\ UNCHANGED <<call, want, slept, ret>>
           \/ k = Len(rest[p]) /\ Return(p, "wrote")
  BY WriteFits
<1>2. UNCHANGED <<nread, readopen, writeopen, rcvd>> /\ readopen /\ writeopen
  BY DEF PipeWrite, PipeInv, EndsAgree
<1>3. PICK b \in Seq(Bytes) : b = rest[p]
  BY <1>1
<1>4. Window' = Window \o SubSeq(b, 1, k)
  BY <1>1, <1>2, <1>3, PutInRing
<1>5. b # << >> /\ Len(b) \in 1 .. MaxLen /\ call[p] = "write"
  <2>1. call[p] = "write" /\ b # << >>
    BY <1>3 DEF PipeWrite, LocalsAgree
  <2>2. b \in Buffers
    BY <1>3, <2>1 DEF PipeInv, TypeOK
  <2>3. QED BY <2>1, <2>2, BuffersLen
<1>6. k \in 0 .. MaxLen /\ k <= Len(b) /\ k \in Nat
  <2>1. k \in 0 .. Len(b)
    BY <1>1, <1>3
  <2>2. QED BY <1>5, <2>1, PipeAssumption
<1>7. Len(Window) + k <= PIPESIZE
  <2>1. PICK c \in Nat : c = Count
    BY CountType
  <2>2. k + c <= PIPESIZE
    BY <1>1, <1>6, <2>1, CountType
  <2>3. Len(Window) = c
    BY <2>1, WindowIs
  <2>4. QED BY <1>6, <2>2, <2>3
<1>8. CASE /\ k < Len(rest[p])
           /\ rest' = [rest EXCEPT ![p] = SubSeq(rest[p], k + 1, Len(rest[p]))]
           /\ UNCHANGED <<call, want, slept, ret>>
  <2>1. k # Len(rest[p])
    BY <1>3, <1>5, <1>6, <1>8
  <2>2. Ch!Put(p, k)
    BY <1>2, <1>3, <1>4, <1>5, <1>6, <1>7, <1>8, <2>1 DEF Ch!Put
  <2>3. QED BY <1>6, <2>2
<1>9. CASE k = Len(rest[p]) /\ Return(p, "wrote")
  <2>1. SubSeq(b, k + 1, Len(b)) = << >>
    BY <1>3, <1>5, <1>9
  <2>2. rest' = [rest EXCEPT ![p] = SubSeq(rest[p], k + 1, Len(rest[p]))]
    BY <1>3, <1>9, <2>1 DEF Return
  <2>3. want' = want
    <3>1. want[p] = 0
      BY <1>5 DEF LocalsAgree
    <3>2. want' = [want EXCEPT ![p] = 0] /\ want \in [Procs -> 0 .. MaxLen]
      BY <1>9 DEF Return, PipeInv, TypeOK
    <3>3. QED BY <3>1, <3>2
  <2>4. ret' = <<p, "wrote">>
    BY <1>9 DEF Return
  <2>5. Ch!Put(p, k)
    BY <1>2, <1>3, <1>4, <1>5, <1>6, <1>7, <1>9, <2>2, <2>3, <2>4 DEF Ch!Put
  <2>6. QED BY <1>6, <2>5
<1>10. QED BY <1>1, <1>8, <1>9

\* A read returns with the bytes at the front of the queue, as many as it asked for and as there are.
LEMMA PipeReadGets ==
  ASSUME PipeInv, LocalsAgree, NEW p \in Procs, PipeRead(p)
  PROVE  Ch!Get(p)
<1>1. PICK k \in 1 .. Count : Take(k) /\ k = IF want[p] <= Count THEN want[p] ELSE Count
  BY ReadFits DEF PipeRead
<1>2. Return(p, "got") /\ UNCHANGED <<data, nwrite, readopen, writeopen, sent>> /\ readopen
  BY DEF PipeRead, PipeInv, EndsAgree
<1>3. k \in 0 .. Count /\ k > 0
  BY CountType
<1>4. Window' = SubSeq(Window, k + 1, Count)
  BY <1>1, <1>2, <1>3, TakeFromRing
<1>5. Len(Window) = Count
  BY WindowIs
<1>6. rest' = rest
  <2>1. rest[p] = << >>
    BY DEF PipeRead, LocalsAgree
  <2>2. rest' = [rest EXCEPT ![p] = << >>] /\ rest = [q \in Procs |-> rest[q]]
    BY <1>2 DEF Return, LocalsAgree
  <2>3. QED BY <2>1, <2>2
<1>7. want' = [want EXCEPT ![p] = 0] /\ ret' = <<p, "got">>
  BY <1>2 DEF Return
<1>8. QED BY <1>1, <1>2, <1>3, <1>4, <1>5, <1>6, <1>7 DEF Ch!Get

\* Every step of the pipe is a step of the channel, or changes nothing that it shows.
LEMMA PipeStepsRefine ==
  ASSUME ~Faults, PipeInv, LocalsAgree, [Next]_vars
  PROVE  [Ch!Next]_Ch!chanVars
<1>1. CASE UNCHANGED vars
  BY <1>1, WindowSame DEF vars, pipe, Ch!chanVars
<1>2. ASSUME NEW p \in Procs, PipeReadSleeps(p) \/ CtrlC(p) PROVE UNCHANGED Ch!chanVars
  BY <1>2, WindowSame DEF PipeReadSleeps, CtrlC, pipe, Ch!chanVars
<1>10. ASSUME NEW p \in Procs, call[p] = "none" PROVE Ch!NoCall(p)
  BY <1>10 DEF LocalsAgree, Ch!NoCall
<1>11. ASSUME NEW p \in Procs, NEW b \in Buffers, WriteCall(p, b) PROVE Ch!Next
  <2>1. Ch!Write(p, b)
    BY <1>10, <1>11, WindowSame DEF WriteCall, Idle, pipe, Ch!Write
  <2>2. QED BY <2>1 DEF Ch!Next, Ch!Requests, Buffers
<1>12. ASSUME NEW p \in Procs, NEW n \in 1 .. MaxLen, ReadCall(p, n) PROVE Ch!Next
  <2>1. Ch!Read(p, n)
    BY <1>10, <1>12, WindowSame DEF ReadCall, Idle, pipe, Ch!Read
  <2>2. QED BY <2>1 DEF Ch!Next
<1>3. ASSUME NEW p \in Procs, PipeWrite(p) PROVE Ch!Next
  BY <1>3, PipeWritePuts DEF Ch!Next
<1>4. ASSUME NEW p \in Procs, PipeRead(p) PROVE Ch!Next
  BY <1>4, PipeReadGets DEF Ch!Next
<1>5. ASSUME NEW p \in Procs, PipeWriteFails(p) \/ PipeReadFails(p) PROVE Ch!Next
  <2>1. ~Ch!NoCall(p)
    BY <1>5 DEF PipeWriteFails, PipeReadFails, LocalsAgree, Ch!NoCall
  <2>2. Ch!Fail(p)
    BY <1>5, <2>1, WindowSame DEF PipeWriteFails, PipeReadFails, Return, pipe, Ch!Fail
  <2>3. QED BY <2>2 DEF Ch!Next
<1>6. ASSUME NEW p \in Procs, PipeReadEof(p) PROVE Ch!Next
  <2>1. Window = << >>
    <3>1. Window \in Seq(Bytes) /\ Len(Window) = 0
      BY <1>6, WindowIs DEF PipeReadEof
    <3>2. QED BY <3>1, EmptySeq
  <2>2. want[p] > 0
    BY <1>6, PipeAssumption DEF PipeReadEof, PipeInv, TypeOK, EndsAgree
  <2>3. rest' = rest
    <3>1. rest[p] = << >>
      BY <1>6 DEF PipeReadEof, LocalsAgree
    <3>2. rest' = [rest EXCEPT ![p] = << >>] /\ rest = [q \in Procs |-> rest[q]]
      BY <1>6 DEF PipeReadEof, Return, LocalsAgree
    <3>3. QED BY <3>1, <3>2
  <2>4. Ch!Eof(p)
    BY <1>6, <2>1, <2>2, <2>3, WindowSame DEF PipeReadEof, Return, pipe, Ch!Eof
  <2>5. QED BY <2>4 DEF Ch!Next
<1>7. ASSUME NEW p \in Procs, Close(p) PROVE [Ch!Next]_Ch!chanVars
  <2>1. Window' = Window /\ UNCHANGED <<rest, want, ret>>
    BY <1>7, WindowSame DEF Close, CloseWrite, CloseRead
  <2>2. /\ readopen \in BOOLEAN /\ writeopen \in BOOLEAN
        /\ (readopen <=> rfd # {}) /\ (writeopen <=> wfd # {})
    BY DEF PipeInv, EndsAgree, TypeOK
  <2>3. \/ readopen' = readopen /\ writeopen' \in {writeopen, FALSE}
        \/ writeopen' = writeopen /\ readopen' \in {readopen, FALSE}
    BY <1>7, <2>2 DEF Close, CloseWrite, CloseRead
  <2>4. Ch!Shut \/ UNCHANGED Ch!chanVars
    BY <2>1, <2>3 DEF Ch!Shut, Ch!chanVars
  <2>5. QED BY <2>4 DEF Ch!Next
<1>8. \A p \in Procs : ~PipeReadFaults(p)
  BY DEF PipeReadFaults
<1>9. QED BY <1>1, <1>2, <1>3, <1>4, <1>5, <1>6, <1>7, <1>8, <1>11, <1>12 DEF Next, PipeStep

\* As long as no read faults, pipewrite, piperead and pipeclose implement a bounded queue of
\* bytes: a write returns its length only when the last byte it was called with is in it, a
\* read returns the next bytes, as many as it asked for and as there are, and the end of the
\* file is reported only when nothing can come any more.
THEOREM PipeRefines == ASSUME ~Faults PROVE Spec => ImplementsChannel
<1>1. Init => Ch!Init
  <2> SUFFICES ASSUME Init PROVE Ch!Init
    OBVIOUS
  <2>1. Window = << >>
    <3>1. PipeInv /\ sent = << >> /\ rcvd = << >>
      BY PipeInitInv DEF Init
    <3>2. Len(sent) = Len(rcvd) + Count /\ Count \in Nat
      BY <3>1, CountType DEF PipeInv, RingIsFifo
    <3>3. Count = 0
      BY <3>1, <3>2, EmptySeq
    <3>4. QED BY <3>1, <3>3, WindowIs, EmptySeq
  <2>2. QED BY <2>1 DEF Init, Ch!Init
<1>2. Init => LocalsAgree
  BY DEF Init, LocalsAgree
<1>3. PipeInv /\ LocalsAgree /\ [Next]_vars => LocalsAgree'
  BY LocalsKept
<1>4. PipeInv /\ LocalsAgree /\ [Next]_vars => [Ch!Next]_Ch!chanVars
  BY PipeStepsRefine
<1>5. QED BY <1>1, <1>2, <1>3, <1>4, PipeInvariant, PTL DEF Spec, ImplementsChannel, Ch!Spec

=============================================================================
