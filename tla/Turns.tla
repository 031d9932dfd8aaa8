--------------------------------- MODULE Turns ---------------------------------
(***************************************************************************)
(* The turns of an ACP session (continuation/models.py), as Continuation   *)
(* and SQLiteContinuation name them.  A turn id names a turn, its          *)
(* checkpoint and the checkpoint's digest: the digest is a hash over the   *)
(* turn id, which is a fresh UUID.                                         *)
(***************************************************************************)
EXTENDS Naturals

CONSTANTS
    Turn,    \* turn ids
    NoTurn,  \* the absence of a turn or of a checkpoint
    Unused   \* the data of a turn id that was not handed out

\* ContinuationTurn: the epoch and the parent checkpoint.
TurnData == [epoch : Nat, parent : Turn \cup {NoTurn}]

ASSUME TurnAssumption ==
    /\ NoTurn \notin Turn
    /\ Unused \notin [epoch : Nat, parent : Turn \cup {NoTurn}]

=============================================================================
