------------------------------- MODULE MCPipe -------------------------------
(***************************************************************************)
(* Model checking of Pipe.  The writers are interchangeable, and so are    *)
(* the readers.                                                            *)
(***************************************************************************)
EXTENDS Pipe, TLC

Symmetry == Permutations(Writers) \cup Permutations(Readers)

=============================================================================
