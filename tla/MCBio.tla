------------------------------- MODULE MCBio --------------------------------
(***************************************************************************)
(* Model checking of Bio.  Processes, buffers, blocks and block contents   *)
(* are interchangeable: the model tells them apart only by equality.       *)
(***************************************************************************)
EXTENDS Bio, TLC

Symmetry ==
  Permutations(Procs) \cup Permutations(Bufs) \cup Permutations(Blocks)
    \cup Permutations(Values)

=============================================================================
