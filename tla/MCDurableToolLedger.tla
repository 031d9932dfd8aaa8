-------------------------- MODULE MCDurableToolLedger --------------------------
(***************************************************************************)
(* DurableToolLedger for TLC.                                              *)
(***************************************************************************)
EXTENDS DurableToolLedger, TLC

\* Every tool call may be presented for every operation.
AnyName == [c \in Call |-> Op]

\* Processes, calls and requests of a kind are interchangeable.
Symmetry ==
    Permutations(Process) \cup Permutations(Call) \cup Permutations(ExecRequest)
        \cup Permutations(McpRequest)
=============================================================================
