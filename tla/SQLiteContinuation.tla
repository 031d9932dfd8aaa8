-------------------------- MODULE SQLiteContinuation --------------------------
(***************************************************************************)
(* SQLiteContinuationStore (continuation/sqlite.py) for one ACP session,   *)
(* driven by ProxyGateway.complete_turn and by acknowledgements: request   *)
(* threads of several gateway processes over one database.                 *)
(*                                                                         *)
(* Every database transaction is one step, and so is every access to the   *)
(* process's _turn_leases; what a thread loaded may be stale when it uses  *)
(* it.  A process crashes and restarts at any step; the lease expires at   *)
(* any step.  A process stands for the owner id of its current store       *)
(* object; the lease of a dead one belongs to NoProcess.                   *)
(***************************************************************************)
EXTENDS Turns, Sequences

CONSTANTS
    Process,       \* gateway processes
    NoProcess,     \* the owner id of a store object that no longer exists
    Thread,        \* request threads, each serving one request at a time
    NoRow,         \* no row in durable_sessions
    LeasesExpire,  \* whether a lease may outlive its time to live
    MaxToken       \* bound: fencing tokens that TLC considers

ASSUME ConstantsAssumption ==
    /\ NoProcess \notin Process
    /\ NoRow \notin [rev : Nat, next : Nat, active : Turn \cup {NoTurn},
                     ckpt : Turn \cup {NoTurn}, acked : BOOLEAN]
    /\ LeasesExpire \in BOOLEAN
    /\ MaxToken \in Nat

VARIABLES
    row,         \* durable_sessions
    lease,       \* durable_leases for `session:<id>`; token 0: no row
    turnLeases,  \* _turn_leases of each process: the turns it has in flight
    thread,      \* request threads
    turn,        \* ContinuationTurn by id: its epoch and parent checkpoint
    chain        \* history: the checkpoints in the order they were issued

vars == <<row, lease, turnLeases, thread, turn, chain>>

Owner == Process \cup {NoProcess}
Row == [rev : Nat, next : Nat, active : Turn \cup {NoTurn},
        ckpt : Turn \cup {NoTurn}, acked : BOOLEAN]
EmptyRow == [rev |-> 1, next |-> 0, active |-> NoTurn, ckpt |-> NoTurn, acked |-> TRUE]
Lease == [owner : Owner, token : Nat, live : BOOLEAN]
NoLease == [owner |-> NoProcess, token |-> 0, live |-> FALSE]

PC == {"idle", "load", "create", "check", "clear", "save", "retain", "live",
       "complete", "interrupt", "pop", "ackLoad", "ackSave", "release"}
ThreadState ==
    [pc : PC, proc : Owner, token : Nat,   \* where it is, and the lease it took
     arg : Turn \cup {NoTurn},             \* parent digest or acknowledged turn
     turn : Turn \cup {NoTurn},            \* the turn it runs
     seen : Row \cup {NoRow}]              \* the session as it was loaded
Idle ==
    [pc |-> "idle", proc |-> NoProcess, token |-> 0, arg |-> NoTurn,
     turn |-> NoTurn, seen |-> NoRow]

-----------------------------------------------------------------------------
(* The store.                                                              *)

LeaseAvailable(p) == lease.token = 0 \/ lease.owner = p \/ ~lease.live

\* acquire_lease: a new row, a renewal of one's own, or the takeover of an
\* expired one.
GrantedLease(p) ==
    IF lease.token = 0
    THEN [owner |-> p, token |-> 1, live |-> TRUE]
    ELSE IF lease.owner = p
         THEN [lease EXCEPT !.live = TRUE]
         ELSE [owner |-> p, token |-> lease.token + 1, live |-> TRUE]

\* release_lease deletes the row of this owner and token only.
ReleaseLease(x) ==
    lease' = IF lease.owner = thread[x].proc /\ lease.token = thread[x].token
             THEN NoLease ELSE lease

\* Mutated: the update is not conditional on the revision that was loaded.
CurrentAlways(x) == thread[x].seen # NoRow

\* save_session: compare-and-swap on the revision.
Current(x) == row.rev = thread[x].seen.rev

-----------------------------------------------------------------------------
(* A request thread.                                                       *)

Goto(x, pc) == thread' = [thread EXCEPT ![x] = [thread[x] EXCEPT !.pc = pc]]
Saw(x, pc, seen) ==
    thread' = [thread EXCEPT ![x] = [thread[x] EXCEPT !.pc = pc, !.seen = seen]]

\* _acquire_session; a refusal changes nothing.
Acquire(x, pc, arg) ==
    /\ thread[x].pc = "idle"
    /\ \E p \in Process :
        /\ LeaseAvailable(p)
        /\ GrantedLease(p).token <= MaxToken
        /\ lease' = GrantedLease(p)
        /\ thread' = [thread EXCEPT ![x] =
                        [pc |-> pc, proc |-> p, token |-> GrantedLease(p).token,
                         arg |-> arg, turn |-> NoTurn, seen |-> NoRow]]
    /\ UNCHANGED <<row, turnLeases, turn, chain>>

BeginAcquire(x) == \E parent \in Turn \cup {NoTurn} :
    /\ parent # NoTurn => \E i \in 1 .. Len(chain) : chain[i] = parent
    /\ Acquire(x, "load", parent)

\* _load_or_create; a new session cannot specify a parent.
BeginLoad(x) ==
    /\ thread[x].pc = "load"
    /\ IF row # NoRow
       THEN Saw(x, "check", row)
       ELSE Goto(x, IF thread[x].arg # NoTurn THEN "release" ELSE "create")
    /\ UNCHANGED <<row, lease, turnLeases, turn, chain>>

\* create_session; if another thread was faster, its row is loaded.
BeginCreate(x) ==
    /\ thread[x].pc = "create"
    /\ IF row = NoRow
       THEN row' = EmptyRow /\ Saw(x, "check", EmptyRow)
       ELSE row' = row /\ Goto(x, "load")
    /\ UNCHANGED <<lease, turnLeases, turn, chain>>

\* The checks on the loaded session.  An active turn of this process refuses
\* the request and keeps the lease; any other is taken for a crashed one.
BeginCheck(x) ==
    LET seen == thread[x].seen IN
    /\ thread[x].pc = "check"
    /\ IF seen.active # NoTurn
       THEN IF seen.active \in turnLeases[thread[x].proc]
            THEN thread' = [thread EXCEPT ![x] = Idle]
            ELSE Goto(x, "clear")
       ELSE Goto(x, IF seen.ckpt = NoTurn \/ (seen.acked /\ thread[x].arg = seen.ckpt)
                    THEN "save" ELSE "release")
    /\ UNCHANGED <<row, lease, turnLeases, turn, chain>>

BeginClear(x) ==
    LET saved == [thread[x].seen EXCEPT !.active = NoTurn, !.rev = @ + 1] IN
    /\ thread[x].pc = "clear"
    /\ IF Current(x)
       THEN row' = saved /\ Saw(x, "check", saved)
       ELSE row' = row /\ Goto(x, "release")
    /\ UNCHANGED <<lease, turnLeases, turn, chain>>

\* The turn becomes active under a fresh id.
BeginSave(x) ==
    LET seen == thread[x].seen IN
    /\ thread[x].pc = "save"
    /\ IF Current(x)
       THEN \E t \in Turn :
            /\ turn[t] = Unused
            /\ row' = [seen EXCEPT !.active = t, !.rev = @ + 1]
            /\ turn' = [turn EXCEPT ![t] = [epoch |-> seen.next, parent |-> seen.ckpt]]
            /\ thread' = [thread EXCEPT ![x] = [thread[x] EXCEPT !.pc = "retain", !.turn = t]]
       ELSE Goto(x, "release") /\ UNCHANGED <<row, turn>>
    /\ UNCHANGED <<lease, turnLeases, chain>>

BeginRetain(x) ==
    /\ thread[x].pc = "retain"
    /\ turnLeases' = [turnLeases EXCEPT ![thread[x].proc] = @ \cup {thread[x].turn}]
    /\ Goto(x, "live")
    /\ UNCHANGED <<row, lease, turn, chain>>

\* The model call returned or raised; _active_session loads the session.
End(x) ==
    /\ thread[x].pc = "live"
    /\ IF row.active = thread[x].turn
       THEN Saw(x, "complete", row) \/ Saw(x, "interrupt", row)
       ELSE Goto(x, "pop")
    /\ UNCHANGED <<row, lease, turnLeases, turn, chain>>

CompleteSave(x) ==
    LET t == thread[x].turn IN
    /\ thread[x].pc = "complete"
    /\ IF Current(x)
       THEN /\ row' = [thread[x].seen EXCEPT !.active = NoTurn, !.next = turn[t].epoch + 1,
                                             !.ckpt = t, !.acked = FALSE, !.rev = @ + 1]
            /\ chain' = Append(chain, t)
       ELSE UNCHANGED <<row, chain>>
    /\ Goto(x, "pop")
    /\ UNCHANGED <<lease, turnLeases, turn>>

InterruptSave(x) ==
    /\ thread[x].pc = "interrupt"
    /\ row' = IF Current(x)
              THEN [thread[x].seen EXCEPT !.active = NoTurn, !.rev = @ + 1] ELSE row
    /\ Goto(x, "pop")
    /\ UNCHANGED <<lease, turnLeases, turn, chain>>

Pop(x) ==
    /\ thread[x].pc = "pop"
    /\ turnLeases' = [turnLeases EXCEPT ![thread[x].proc] = @ \ {thread[x].turn}]
    /\ Goto(x, "release")
    /\ UNCHANGED <<row, lease, turn, chain>>

Release(x) ==
    /\ thread[x].pc = "release"
    /\ ReleaseLease(x)
    /\ thread' = [thread EXCEPT ![x] = Idle]
    /\ UNCHANGED <<row, turnLeases, turn, chain>>

\* acknowledge: clients send checkpoints they were given, old ones included.
AckAcquire(x) == \E i \in 1 .. Len(chain) : Acquire(x, "ackLoad", chain[i])

\* Mutated: the acknowledged checkpoint is not compared with the latest.
AckLoadAnyCheckpoint(x) ==
    /\ thread[x].pc = "ackLoad"
    /\ Saw(x, "ackSave", row)
    /\ UNCHANGED <<row, lease, turnLeases, turn, chain>>

AckLoad(x) ==
    /\ thread[x].pc = "ackLoad"
    /\ IF row.ckpt = thread[x].arg /\ ~row.acked
       THEN Saw(x, "ackSave", row)
       ELSE Goto(x, "release")
    /\ UNCHANGED <<row, lease, turnLeases, turn, chain>>

AckSave(x) ==
    /\ thread[x].pc = "ackSave"
    /\ row' = IF Current(x)
              THEN [thread[x].seen EXCEPT !.acked = TRUE, !.rev = @ + 1] ELSE row
    /\ Goto(x, "release")
    /\ UNCHANGED <<lease, turnLeases, turn, chain>>

-----------------------------------------------------------------------------
(* The environment.                                                        *)

LeaseExpires ==
    /\ LeasesExpire
    /\ lease.live
    /\ lease' = [lease EXCEPT !.live = FALSE]
    /\ UNCHANGED <<row, turnLeases, thread, turn, chain>>

\* The process dies and starts again with a new store object.
Crash(p) ==
    /\ thread' = [x \in Thread |-> IF thread[x].proc = p THEN Idle ELSE thread[x]]
    /\ turnLeases' = [turnLeases EXCEPT ![p] = {}]
    /\ lease' = IF lease.owner = p THEN [lease EXCEPT !.owner = NoProcess] ELSE lease
    /\ UNCHANGED <<row, turn, chain>>

Init ==
    /\ row = NoRow
    /\ lease = NoLease
    /\ turnLeases = [p \in Process |-> {}]
    /\ thread = [x \in Thread |-> Idle]
    /\ turn = [t \in Turn |-> Unused]
    /\ chain = <<>>

Step(x) ==
    \/ BeginAcquire(x)
    \/ BeginLoad(x)
    \/ BeginCreate(x)
    \/ BeginCheck(x)
    \/ BeginClear(x)
    \/ BeginSave(x)
    \/ BeginRetain(x)
    \/ End(x)
    \/ CompleteSave(x)
    \/ InterruptSave(x)
    \/ Pop(x)
    \/ Release(x)
    \/ AckAcquire(x)
    \/ AckLoad(x)
    \/ AckSave(x)

Next ==
    \/ \E x \in Thread : Step(x)
    \/ LeaseExpires
    \/ \E p \in Process : Crash(p)

Spec == Init /\ [][Next]_vars

-----------------------------------------------------------------------------
(* Properties.                                                             *)

\* Every variable holds a value of its kind.
TypeOK ==
    /\ row \in Row \cup {NoRow}
    /\ lease \in Lease
    /\ turnLeases \in [Process -> SUBSET Turn]
    /\ thread \in [Thread -> ThreadState]
    /\ turn \in [Turn -> TurnData \cup {Unused}]
    /\ chain \in Seq(Turn)

\* What a thread loaded is the session's present state whenever its revision
\* still is: the compare-and-swap never writes over a change it has not seen.
FreshIfCurrent ==
    \A x \in Thread :
        LET seen == thread[x].seen IN
        seen # NoRow => /\ row # NoRow
                        /\ seen.rev <= row.rev
                        /\ seen.rev = row.rev => seen = row

\* The contract's variables as this store keeps them.
Session == IF row = NoRow THEN EmptyRow ELSE row
Contract == INSTANCE Continuation WITH
    exists <- row # NoRow, next <- Session.next, active <- Session.active,
    ckpt <- Session.ckpt, acked <- Session.acked

\* "a durable implementation must preserve these transitions": every step of
\* every thread, crash and expiry is a step of Continuation or changes nothing.
ImplementsContract == Contract!Spec

\* The checkpoints in the database form one chain: no epoch is skipped, repeated
\* or forked by a crash or by a writer whose lease expired (complete_turn).
CheckpointChain == Contract!CheckpointChain

\* The active turn in the database continues the latest checkpoint, and its
\* client has acknowledged that one (begin_turn's checks).
ActiveContinuesChain == Contract!ActiveContinuesChain

\* A turn yields at most one checkpoint, and none once it was interrupted or
\* taken for a crashed one, however late its thread saves.
ChainOnlyGrows == Contract!ChainOnlyGrows

\* An acknowledgement is recorded for the checkpoint that the client named, and
\* for no later one, whatever completes between its load and its save.
AcknowledgesNamed ==
    [][\A x \in Thread :
        thread[x].pc = "ackSave" /\ row' # row /\ thread'[x].pc = "release" =>
            row.ckpt = thread[x].arg]_vars

\* A session has one turn in flight: no begin_turn returns while another
\* thread of a running gateway has an unfinished turn and its lease has not
\* expired (the comment at continuation/sqlite.py:45-48).
OneLiveTurn ==
    \A x, y \in Thread : thread[x].pc = "live" /\ thread[y].pc = "live" => x = y

=============================================================================
