------------------------- MODULE MCSQLiteContinuation -------------------------
(***************************************************************************)
(* SQLiteContinuation for TLC.                                             *)
(***************************************************************************)
EXTENDS SQLiteContinuation, TLC

Symmetry == Permutations(Process) \cup Permutations(Thread) \cup Permutations(Turn)
=============================================================================
