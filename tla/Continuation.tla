----------------------------- MODULE Continuation -----------------------------
(***************************************************************************)
(* What a ContinuationStore promises for one ACP session: the transitions  *)
(* of InMemoryContinuationStore (continuation/store.py), whose methods run *)
(* under one lock and are therefore atomic; a refused call changes nothing *)
(* and is not a step.  SQLiteContinuation is shown to implement this       *)
(* module, and its run checks the properties stated here.                  *)
(***************************************************************************)
EXTENDS Turns, Sequences

VARIABLES
    exists,  \* the session was created
    next,    \* next_epoch
    active,  \* active_turn_id
    ckpt,    \* latest_checkpoint
    acked,   \* latest_checkpoint_acknowledged
    turn,    \* ContinuationTurn by id: its epoch and parent checkpoint
    chain    \* history: the checkpoints in the order they were issued

vars == <<exists, next, active, ckpt, acked, turn, chain>>

Init ==
    /\ exists = FALSE
    /\ next = 0
    /\ active = NoTurn
    /\ ckpt = NoTurn
    /\ acked = TRUE
    /\ turn = [t \in Turn |-> Unused]
    /\ chain = <<>>

\* A durable store may create the session in a step before the first turn.
Open ==
    /\ ~exists
    /\ exists' = TRUE
    /\ UNCHANGED <<next, active, ckpt, acked, turn, chain>>

\* begin_turn: the client names the parent checkpoint it continues from.
Begin(t, parent) ==
    /\ turn[t] = Unused
    /\ exists \/ parent = NoTurn
    /\ active = NoTurn
    /\ ckpt # NoTurn => acked /\ parent = ckpt
    /\ exists' = TRUE
    /\ active' = t
    /\ turn' = [turn EXCEPT ![t] = [epoch |-> next, parent |-> ckpt]]
    /\ UNCHANGED <<next, ckpt, acked, chain>>

Complete(t) ==
    /\ active = t
    /\ active' = NoTurn
    /\ next' = turn[t].epoch + 1
    /\ ckpt' = t
    /\ acked' = FALSE
    /\ chain' = Append(chain, t)
    /\ UNCHANGED <<exists, turn>>

\* interrupt_turn; also what becomes of a turn whose process died.
Interrupt(t) ==
    /\ active = t
    /\ active' = NoTurn
    /\ UNCHANGED <<exists, next, ckpt, acked, turn, chain>>

Acknowledge(t) ==
    /\ ckpt = t
    /\ ~acked
    /\ acked' = TRUE
    /\ UNCHANGED <<exists, next, active, ckpt, turn, chain>>

Next ==
    \/ Open
    \/ \E t \in Turn :
        \/ \E parent \in Turn \cup {NoTurn} : Begin(t, parent)
        \/ Complete(t)
        \/ Interrupt(t)
        \/ Acknowledge(t)

Spec == Init /\ [][Next]_vars

-----------------------------------------------------------------------------

\* Every variable holds a value of its kind.
TypeOK ==
    /\ exists \in BOOLEAN
    /\ next \in Nat
    /\ active \in Turn \cup {NoTurn}
    /\ ckpt \in Turn \cup {NoTurn}
    /\ acked \in BOOLEAN
    /\ turn \in [Turn -> TurnData \cup {Unused}]
    /\ chain \in Seq(Turn)

\* The checkpoints form one chain: the i-th has epoch i-1 and names the one
\* before it as its parent, the latest is the session's, and next_epoch counts
\* them.  No epoch is skipped, repeated or forked (complete_turn).
CheckpointChain ==
    /\ next = Len(chain)
    /\ \A i \in 1 .. Len(chain) :
            turn[chain[i]] = [epoch |-> i - 1,
                              parent |-> IF i = 1 THEN NoTurn ELSE chain[i - 1]]
    /\ ckpt = IF chain = <<>> THEN NoTurn ELSE chain[Len(chain)]

\* The turn in flight continues from the latest checkpoint at the next epoch,
\* and its client has acknowledged that checkpoint (begin_turn's checks).
ActiveContinuesChain ==
    active # NoTurn =>
        /\ turn[active] = [epoch |-> next, parent |-> ckpt]
        /\ acked

\* A turn yields at most one checkpoint, and none once it was interrupted or
\* superseded: whatever is in the chain stays the only holder of its epoch.
ChainOnlyGrows ==
    [][\/ chain' = chain
       \/ /\ active \in Turn
          /\ chain' = Append(chain, active)
          /\ \A i \in 1 .. Len(chain) : chain[i] # active]_vars

=============================================================================
