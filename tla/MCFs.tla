------------------------------- MODULE MCFs ---------------------------------
(* Fs for TLC: processes are alike, and so are the names that are no longer than  *)
(* an entry holds.  One name may be longer, and is cut to the name short.         *)
EXTENDS Fs, TLC

CONSTANTS long, short

MCCut == [n \in Names |-> IF n = long THEN short ELSE n]

Symmetry == Permutations(Procs) \cup Permutations(Names \ {long, short})

\* What is left in a slot that is not valid is read by nobody, nor its inode number when it
\* has no references: iget and ilock write these fields first.
Seen(c) == IF c.valid THEN c ELSE [NoSlot EXCEPT !.ref = c.ref, !.inum = IF c.ref = 0 THEN 0 ELSE c.inum]
View == <<disk, [s \in Slots |-> Seen(icache[s])], handle, opened, lost, pc, loc, crashes, torn>>
=============================================================================
