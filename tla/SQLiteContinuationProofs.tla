----------------------- MODULE SQLiteContinuationProofs -----------------------
(***************************************************************************)
(* The SQLite session store implements the session contract, for any       *)
(* number of processes, threads and turns, with crashes and lease expiry   *)
(* at every step.  Nothing of the argument is about leases: what keeps the *)
(* session consistent is the compare-and-swap on the revision.             *)
(*                                                                         *)
(* StoreInv says of each thread what the checks it passed established      *)
(* about the session it loaded (Good), and that this is the session's      *)
(* present state if the revision is (Fresh).  A successful save therefore  *)
(* finds the checks to hold of the present state, which makes it a step of *)
(* the contract; every other step leaves the contract's variables alone.   *)
(***************************************************************************)
EXTENDS SQLiteContinuation, TLAPS

Fresh(s) ==
    s.seen # NoRow => /\ row # NoRow
                      /\ s.seen.rev <= row.rev
                      /\ s.seen.rev = row.rev => s.seen = row

GoodIn(s, r, d) ==
    /\ s.pc # "idle" => s.proc \in Process
    /\ s.pc \in {"check", "clear", "save", "complete", "interrupt", "ackSave"} => s.seen # NoRow
    /\ s.pc = "clear" => s.seen.active # NoTurn
    /\ s.pc = "save" => /\ s.seen.active = NoTurn
                        /\ s.seen.ckpt # NoTurn => s.seen.acked /\ s.arg = s.seen.ckpt
    /\ s.pc \in {"retain", "live", "complete", "interrupt", "pop"} =>
            s.turn \in Turn /\ d[s.turn] \in TurnData
    /\ s.pc \in {"complete", "interrupt"} => s.seen.active = s.turn
    /\ s.pc \in {"ackLoad", "ackSave"} => s.arg \in Turn
    /\ s.pc = "ackSave" => s.seen.ckpt = s.arg /\ s.seen.acked = FALSE
    /\ s.pc \in {"retain", "live", "ackLoad"} => r # NoRow

Good(s) == GoodIn(s, row, turn)

StoreInv ==
    /\ TypeOK
    /\ \A x \in Thread : Fresh(thread[x]) /\ Good(thread[x])
    /\ chain # <<>> => row # NoRow

-----------------------------------------------------------------------------
(* Records.                                                                *)

LEMMA MoveType ==
    ASSUME NEW s \in ThreadState, NEW pc \in PC
    PROVE  /\ [s EXCEPT !.pc = pc] \in ThreadState
           /\ [s EXCEPT !.pc = pc].pc = pc
           /\ [s EXCEPT !.pc = pc].proc = s.proc
           /\ [s EXCEPT !.pc = pc].arg = s.arg
           /\ [s EXCEPT !.pc = pc].turn = s.turn
           /\ [s EXCEPT !.pc = pc].seen = s.seen
  BY DEF ThreadState

LEMMA IdleType == Idle \in ThreadState /\ Idle.pc = "idle" /\ Idle.seen = NoRow
  BY DEF Idle, ThreadState, Owner, PC

LEMMA RowFields ==
    ASSUME NEW r \in Row
    PROVE  /\ r.rev \in Nat /\ r.next \in Nat /\ r.active \in Turn \cup {NoTurn}
           /\ r.ckpt \in Turn \cup {NoTurn} /\ r.acked \in BOOLEAN
           /\ r # NoRow
  BY ConstantsAssumption DEF Row

LEMMA EmptyRowType == EmptyRow \in Row /\ EmptyRow # NoRow
<1>1. 1 \in Nat /\ 0 \in Nat /\ NoTurn \in Turn \cup {NoTurn}
  OBVIOUS
<1>2. EmptyRow \in Row
  BY <1>1, Zenon DEF EmptyRow, Row
<1> QED BY <1>2, ConstantsAssumption DEF Row

LEMMA LeaseType ==
    ASSUME TypeOK
    PROVE  /\ \A p \in Process : GrantedLease(p) \in Lease
           /\ NoLease \in Lease
           /\ [lease EXCEPT !.live = FALSE] \in Lease
           /\ [lease EXCEPT !.owner = NoProcess] \in Lease
<1>1. \A p \in Process : p \in Owner /\ NoProcess \in Owner
  BY DEF Owner
<1>2. lease \in Lease
  BY DEF TypeOK
<1>3. ASSUME NEW p \in Process PROVE GrantedLease(p) \in Lease
  <2>1. [owner |-> p, token |-> 1, live |-> TRUE] \in Lease
    BY <1>1 DEF Lease
  <2>2. [lease EXCEPT !.live = TRUE] \in Lease
    BY <1>2, Zenon DEF Lease
  <2>3. lease.token + 1 \in Nat
    BY <1>2 DEF Lease
  <2>4. [owner |-> p, token |-> lease.token + 1, live |-> TRUE] \in Lease
    BY <1>1, <2>3 DEF Lease
  <2> QED BY <2>1, <2>2, <2>4 DEF GrantedLease
<1>4. NoLease \in Lease
  BY DEF NoLease, Lease, Owner
<1>5. [lease EXCEPT !.live = FALSE] \in Lease /\ [lease EXCEPT !.owner = NoProcess] \in Lease
  BY <1>2, Zenon DEF Lease, Owner
<1> QED BY <1>3, <1>4, <1>5

-----------------------------------------------------------------------------
(* The two kinds of step of a thread.                                      *)

\* A step that moves one thread and leaves the session as it is.
LEMMA ThreadStep ==
    ASSUME StoreInv, NEW x \in Thread, NEW n \in ThreadState,
           thread' = [thread EXCEPT ![x] = n],
           row' = row, turn' = turn, chain' = chain,
           lease' \in Lease, turnLeases' \in [Process -> SUBSET Turn],
           Fresh(n), Good(n)
    PROVE  StoreInv'
<1>1. TypeOK'
  BY DEF StoreInv, TypeOK
<1>2. ASSUME NEW y \in Thread PROVE (Fresh(thread[y]) /\ Good(thread[y]))'
  <2>1. thread'[y] = IF y = x THEN n ELSE thread[y]
    BY DEF StoreInv, TypeOK
  <2>2. Fresh(thread'[y]) /\ Good(thread'[y])
    BY <2>1 DEF StoreInv
  <2> QED BY <2>2 DEF Fresh, Good, GoodIn
<1> QED BY <1>1, <1>2 DEF StoreInv

\* A step that saves the session under a higher revision.
LEMMA RowStep ==
    ASSUME StoreInv, NEW x \in Thread, NEW n \in ThreadState, NEW r \in Row,
           thread' = [thread EXCEPT ![x] = n],
           row' = r, row # NoRow => row.rev < r.rev,
           turn' \in [Turn -> TurnData \cup {Unused}],
           \A t \in Turn : turn[t] \in TurnData => turn'[t] \in TurnData,
           chain' \in Seq(Turn),
           lease' = lease, turnLeases' = turnLeases,
           n.seen # NoRow => n.seen \in Row /\ n.seen.rev <= r.rev
                             /\ (n.seen.rev = r.rev => n.seen = r),
           GoodIn(n, r, turn')
    PROVE  StoreInv'
<1>0. r # NoRow /\ r.rev \in Nat
  BY RowFields
<1>1. TypeOK'
  BY DEF StoreInv, TypeOK
<1>2. ASSUME NEW y \in Thread PROVE (Fresh(thread[y]) /\ Good(thread[y]))'
  <2>1. CASE y = x
    <3>1. thread'[y] = n
      BY <2>1 DEF StoreInv, TypeOK
    <3> QED BY <3>1, <1>0 DEF Fresh, Good, GoodIn
  <2>2. CASE y # x
    <3>1. thread'[y] = thread[y] /\ thread[y] \in ThreadState
      BY <2>2 DEF StoreInv, TypeOK
    <3>2. Fresh(thread[y]) /\ Good(thread[y])
      BY DEF StoreInv
    <3>3. thread[y].seen # NoRow => thread[y].seen \in Row
      BY <3>1 DEF ThreadState
    <3>4. thread[y].seen # NoRow => row \in Row /\ thread[y].seen.rev <= row.rev
      BY <3>2 DEF Fresh, StoreInv, TypeOK
    <3>5. thread[y].seen # NoRow => thread[y].seen.rev < r.rev
      BY <3>3, <3>4, <1>0, RowFields DEF Fresh
    <3>6. Fresh(thread[y])'
      BY <3>1, <3>3, <3>5, <1>0, RowFields DEF Fresh
    <3>7. Good(thread[y])'
      BY <3>1, <3>2, <1>0 DEF Good, GoodIn
    <3> QED BY <3>6, <3>7
  <2> QED BY <2>1, <2>2
<1> QED BY <1>0, <1>1, <1>2 DEF StoreInv

-----------------------------------------------------------------------------
(* The contract's steps, in terms of the stored session.                   *)

LEMMA SessionIsRow == ASSUME row # NoRow PROVE Session = row
  BY DEF Session

LEMMA Stutter ==
    ASSUME row' = row, turn' = turn, chain' = chain
    PROVE  UNCHANGED Contract!vars
  BY DEF Contract!vars, Session

LEMMA ContractOpen ==
    ASSUME row = NoRow, row' = EmptyRow, turn' = turn, chain' = chain
    PROVE  Contract!Next
<1>1. Session = EmptyRow /\ Session' = EmptyRow
  BY DEF Session
<1>2. Contract!Open
  BY <1>1, EmptyRowType DEF Contract!Open
<1> QED BY <1>2 DEF Contract!Next

LEMMA ContractInterrupt ==
    ASSUME row \in Row, row' \in Row, row.active # NoTurn, row'.active = NoTurn,
           row'.next = row.next, row'.ckpt = row.ckpt, row'.acked = row.acked,
           turn' = turn, chain' = chain
    PROVE  Contract!Next
<1>1. row # NoRow /\ row' # NoRow /\ row.active \in Turn
  BY RowFields
<1>2. Session = row /\ Session' = row'
  BY <1>1 DEF Session
<1>3. Contract!Interrupt(row.active)
  BY <1>1, <1>2 DEF Contract!Interrupt
<1> QED BY <1>1, <1>3 DEF Contract!Next

LEMMA ContractBegin ==
    ASSUME row \in Row, row' \in Row, row.active = NoTurn,
           NEW t \in Turn, turn[t] = Unused, row'.active = t,
           NEW parent \in Turn \cup {NoTurn},
           row.ckpt # NoTurn => row.acked /\ parent = row.ckpt,
           row'.next = row.next, row'.ckpt = row.ckpt, row'.acked = row.acked,
           turn' = [turn EXCEPT ![t] = [epoch |-> row.next, parent |-> row.ckpt]],
           chain' = chain
    PROVE  Contract!Next
<1>1. row # NoRow /\ row' # NoRow
  BY RowFields
<1>2. Session = row /\ Session' = row'
  BY <1>1 DEF Session
<1>3. Contract!Begin(t, parent)
  BY <1>1, <1>2 DEF Contract!Begin
<1> QED BY <1>3 DEF Contract!Next

LEMMA ContractComplete ==
    ASSUME row \in Row, row' \in Row, NEW t \in Turn, row.active = t,
           row'.active = NoTurn, row'.next = turn[t].epoch + 1, row'.ckpt = t,
           row'.acked = FALSE, turn' = turn, chain' = Append(chain, t)
    PROVE  Contract!Next
<1>1. row # NoRow /\ row' # NoRow
  BY RowFields
<1>2. Session = row /\ Session' = row'
  BY <1>1 DEF Session
<1>3. Contract!Complete(t)
  BY <1>1, <1>2 DEF Contract!Complete
<1> QED BY <1>3 DEF Contract!Next

LEMMA ContractAcknowledge ==
    ASSUME row \in Row, row' \in Row, row.ckpt # NoTurn, row.acked = FALSE,
           row'.acked = TRUE, row'.active = row.active, row'.next = row.next,
           row'.ckpt = row.ckpt, turn' = turn, chain' = chain
    PROVE  Contract!Next
<1>1. row # NoRow /\ row' # NoRow /\ row.ckpt \in Turn
  BY RowFields
<1>2. Session = row /\ Session' = row'
  BY <1>1 DEF Session
<1>3. Contract!Acknowledge(row.ckpt)
  BY <1>1, <1>2 DEF Contract!Acknowledge
<1> QED BY <1>1, <1>3 DEF Contract!Next

-----------------------------------------------------------------------------
(* The actions that leave the session as it is.                            *)

\* A thread takes the lease for a request.
LEMMA AcquireStep ==
    ASSUME StoreInv, NEW x \in Thread, NEW pc \in {"load", "ackLoad"},
           NEW arg \in Turn \cup {NoTurn},
           pc = "ackLoad" => arg \in Turn /\ row # NoRow,
           Acquire(x, pc, arg)
    PROVE  StoreInv'
<1>1. PICK p \in Process :
        /\ lease' = GrantedLease(p)
        /\ thread' = [thread EXCEPT ![x] =
                        [pc |-> pc, proc |-> p, token |-> GrantedLease(p).token,
                         arg |-> arg, turn |-> NoTurn, seen |-> NoRow]]
  BY Zenon DEF Acquire
<1> DEFINE k == GrantedLease(p).token
           n == [pc |-> pc, proc |-> p, token |-> k,
                 arg |-> arg, turn |-> NoTurn, seen |-> NoRow]
<1>2. GrantedLease(p) \in Lease
  BY LeaseType DEF StoreInv
<1>3. k \in Nat
  BY <1>2 DEF Lease
<1> HIDE DEF k
<1>5. n \in ThreadState /\ n.pc = pc /\ n.proc = p /\ n.arg = arg /\ n.seen = NoRow
  BY <1>3 DEF ThreadState, Owner, PC
<1>6. thread' = [thread EXCEPT ![x] = n]
  BY <1>1 DEF k
<1> HIDE DEF n
<1>7. Fresh(n)
  BY <1>5 DEF Fresh
<1>8. Good(n)
  BY <1>5 DEF Good, GoodIn
<1>9. row' = row /\ turn' = turn /\ chain' = chain /\ turnLeases' = turnLeases
  BY DEF Acquire
<1>10. lease' \in Lease /\ turnLeases' \in [Process -> SUBSET Turn]
  BY <1>1, <1>2, <1>9 DEF StoreInv, TypeOK
<1> QED BY <1>5, <1>6, <1>7, <1>8, <1>9, <1>10, ThreadStep, Zenon

\* A thread goes on with what it has loaded.
LEMMA GotoStep ==
    ASSUME StoreInv, NEW x \in Thread, NEW pc \in PC, Goto(x, pc),
           row' = row, turn' = turn, chain' = chain, lease' = lease,
           turnLeases' \in [Process -> SUBSET Turn],
           Good([thread[x] EXCEPT !.pc = pc])
    PROVE  StoreInv'
<1> DEFINE n == [thread[x] EXCEPT !.pc = pc]
<1>1. thread[x] \in ThreadState /\ Fresh(thread[x])
  BY DEF StoreInv, TypeOK
<1>2. n \in ThreadState /\ n.seen = thread[x].seen
  BY <1>1, MoveType
<1>3. thread' = [thread EXCEPT ![x] = n] /\ Good(n)
  BY DEF Goto
<1>4. lease' \in Lease
  BY DEF StoreInv, TypeOK
<1> HIDE DEF n
<1>5. Fresh(n)
  BY <1>1, <1>2 DEF Fresh
<1> QED BY <1>2, <1>3, <1>4, <1>5, ThreadStep, Zenon

\* A thread goes on with the present session.
LEMMA SawStep ==
    ASSUME StoreInv, NEW x \in Thread, NEW pc \in PC, Saw(x, pc, row), row # NoRow,
           row' = row, turn' = turn, chain' = chain, lease' = lease,
           turnLeases' = turnLeases,
           Good([thread[x] EXCEPT !.pc = pc, !.seen = row])
    PROVE  StoreInv'
<1> DEFINE n == [thread[x] EXCEPT !.pc = pc, !.seen = row]
<1>1. thread[x] \in ThreadState /\ row \in Row
  BY DEF StoreInv, TypeOK
<1>2. n \in ThreadState /\ n.seen = row
  <2>1. ASSUME NEW s \in ThreadState, NEW seen \in Row \cup {NoRow}
        PROVE  /\ [s EXCEPT !.pc = pc, !.seen = seen] \in ThreadState
               /\ [s EXCEPT !.pc = pc, !.seen = seen].seen = seen
    BY Zenon DEF ThreadState
  <2> QED BY <1>1, <2>1, Zenon
<1>3. thread' = [thread EXCEPT ![x] = n] /\ Good(n)
  BY DEF Saw
<1>4. lease' \in Lease /\ turnLeases' \in [Process -> SUBSET Turn]
  BY DEF StoreInv, TypeOK
<1> HIDE DEF n
<1>5. Fresh(n)
  BY <1>1, <1>2, RowFields DEF Fresh
<1> QED BY <1>2, <1>3, <1>4, <1>5, ThreadStep, Zenon

\* A thread has answered its request.
LEMMA IdleStep ==
    ASSUME StoreInv, NEW x \in Thread, thread' = [thread EXCEPT ![x] = Idle],
           row' = row, turn' = turn, chain' = chain, lease' \in Lease,
           turnLeases' = turnLeases
    PROVE  StoreInv'
<1>1. Fresh(Idle) /\ Good(Idle)
  BY IdleType DEF Fresh, Good, GoodIn
<1>2. turnLeases' \in [Process -> SUBSET Turn]
  BY DEF StoreInv, TypeOK
<1> QED BY <1>1, <1>2, IdleType, ThreadStep, Zenon

-----------------------------------------------------------------------------
(* One lemma per action of a thread.                                       *)

SafeStep == StoreInv' /\ [Contract!Next]_(Contract!vars)

LEMMA BeginAcquireSafe == ASSUME StoreInv, NEW x \in Thread, BeginAcquire(x) PROVE SafeStep
<1>1. PICK parent \in Turn \cup {NoTurn} : Acquire(x, "load", parent)
  BY DEF BeginAcquire
<1>2. StoreInv'
  BY <1>1, AcquireStep
<1>3. row' = row /\ turn' = turn /\ chain' = chain
  BY <1>1 DEF Acquire
<1> QED BY <1>2, <1>3, Stutter DEF SafeStep

LEMMA AckAcquireSafe == ASSUME StoreInv, NEW x \in Thread, AckAcquire(x) PROVE SafeStep
<1>1. PICK i \in 1 .. Len(chain) : Acquire(x, "ackLoad", chain[i])
  BY DEF AckAcquire
<1>2. chain[i] \in Turn /\ chain # <<>>
  BY DEF StoreInv, TypeOK
<1>3. StoreInv'
  <2> DEFINE t == chain[i]
  <2>1. t \in Turn /\ t \in Turn \cup {NoTurn} /\ row # NoRow /\ Acquire(x, "ackLoad", t)
    BY <1>1, <1>2 DEF StoreInv
  <2> HIDE DEF t
  <2> QED BY <2>1, AcquireStep
<1>4. row' = row /\ turn' = turn /\ chain' = chain
  BY <1>1 DEF Acquire
<1> QED BY <1>3, <1>4, Stutter DEF SafeStep

LEMMA BeginLoadSafe == ASSUME StoreInv, NEW x \in Thread, BeginLoad(x) PROVE SafeStep
<1>1. thread[x] \in ThreadState /\ Good(thread[x]) /\ thread[x].pc = "load"
  BY DEF StoreInv, TypeOK, BeginLoad
<1>2. row' = row /\ turn' = turn /\ chain' = chain /\ lease' = lease /\ turnLeases' = turnLeases
  BY DEF BeginLoad
<1>3. turnLeases' \in [Process -> SUBSET Turn] /\ row \in Row \cup {NoRow}
  BY <1>2, SMTT(20) DEF StoreInv, TypeOK
<1>4. CASE row # NoRow
  <2>1. Saw(x, "check", row) /\ "check" \in PC
    BY <1>4 DEF BeginLoad, PC
  <2> DEFINE n == [thread[x] EXCEPT !.pc = "check", !.seen = row]
  <2>2. n.pc = "check" /\ n.proc = thread[x].proc /\ n.seen = row
    BY <1>1, <1>3, <2>1 DEF ThreadState
  <2>3. Good(n)
    <3> HIDE DEF n
    <3> QED BY <1>1, <1>4, <2>2 DEF Good, GoodIn
  <2> QED BY <1>2, <1>4, <2>1, <2>3, SawStep, Stutter, Zenon DEF SafeStep
<1>5. CASE row = NoRow
  <2>1. PICK pc \in {"release", "create"} : Goto(x, pc)
    BY <1>5 DEF BeginLoad
  <2>2. pc \in PC
    BY DEF PC
  <2> DEFINE n == [thread[x] EXCEPT !.pc = pc]
  <2>3. n.pc = pc /\ n.proc = thread[x].proc
    BY <1>1, <2>2, MoveType
  <2>4. Good(n)
    <3> HIDE DEF n
    <3> QED BY <1>1, <2>3 DEF Good, GoodIn
  <2> QED BY <1>2, <1>3, <2>1, <2>2, <2>4, GotoStep, Stutter DEF SafeStep
<1> QED BY <1>4, <1>5

LEMMA BeginCheckSafe == ASSUME StoreInv, NEW x \in Thread, BeginCheck(x) PROVE SafeStep
<1> DEFINE seen == thread[x].seen
<1>1. thread[x] \in ThreadState /\ Good(thread[x]) /\ thread[x].pc = "check"
  BY DEF StoreInv, TypeOK, BeginCheck
<1>2. row' = row /\ turn' = turn /\ chain' = chain /\ lease' = lease /\ turnLeases' = turnLeases
  BY DEF BeginCheck
<1>3. turnLeases' \in [Process -> SUBSET Turn] /\ lease' \in Lease
  BY <1>2 DEF StoreInv, TypeOK
<1>4. CASE thread' = [thread EXCEPT ![x] = Idle]
  BY <1>2, <1>3, <1>4, IdleStep, Stutter, Zenon DEF SafeStep
<1>5. ASSUME NEW pc \in {"clear", "save", "release"}, Goto(x, pc),
             pc = "clear" => seen.active # NoTurn,
             pc = "save" => /\ seen.active = NoTurn
                            /\ seen.ckpt # NoTurn => seen.acked /\ thread[x].arg = seen.ckpt
      PROVE  SafeStep
  <2>1. pc \in PC
    BY DEF PC
  <2> DEFINE n == [thread[x] EXCEPT !.pc = pc]
  <2>2. n.pc = pc /\ n.proc = thread[x].proc /\ n.seen = seen /\ n.arg = thread[x].arg
    BY <1>1, <2>1, MoveType
  <2>3. Good(n)
    <3> HIDE DEF n
    <3> QED BY <1>1, <1>5, <2>2 DEF Good, GoodIn
  <2> QED BY <1>2, <1>3, <1>5, <2>1, <2>3, GotoStep, Stutter DEF SafeStep
<1>6. CASE seen.active # NoTurn /\ Goto(x, "clear")
  BY <1>5, <1>6
<1>7. CASE /\ seen.active = NoTurn
           /\ seen.ckpt = NoTurn \/ (seen.acked /\ thread[x].arg = seen.ckpt)
           /\ Goto(x, "save")
  BY <1>5, <1>7
<1>8. CASE Goto(x, "release")
  BY <1>5, <1>8
<1> QED BY <1>4, <1>6, <1>7, <1>8 DEF BeginCheck

LEMMA BeginRetainSafe == ASSUME StoreInv, NEW x \in Thread, BeginRetain(x) PROVE SafeStep
<1>1. thread[x] \in ThreadState /\ Good(thread[x]) /\ thread[x].pc = "retain" /\ "live" \in PC
  BY DEF StoreInv, TypeOK, BeginRetain, PC
<1>2. row' = row /\ turn' = turn /\ chain' = chain /\ lease' = lease /\ Goto(x, "live")
  BY DEF BeginRetain
<1>3. turnLeases' \in [Process -> SUBSET Turn]
  BY <1>1 DEF StoreInv, TypeOK, BeginRetain, Good, GoodIn
<1> DEFINE n == [thread[x] EXCEPT !.pc = "live"]
<1>4. n.pc = "live" /\ n.proc = thread[x].proc /\ n.turn = thread[x].turn
  BY <1>1, MoveType
<1>5. Good(n)
  <2> HIDE DEF n
  <2> QED BY <1>1, <1>4 DEF Good, GoodIn
<1> QED BY <1>1, <1>2, <1>3, <1>5, GotoStep, Stutter DEF SafeStep

LEMMA EndSafe == ASSUME StoreInv, NEW x \in Thread, End(x) PROVE SafeStep
<1>1. thread[x] \in ThreadState /\ Good(thread[x]) /\ thread[x].pc = "live"
  BY DEF StoreInv, TypeOK, End
<1>2. row' = row /\ turn' = turn /\ chain' = chain /\ lease' = lease /\ turnLeases' = turnLeases
  BY DEF End
<1>3. turnLeases' \in [Process -> SUBSET Turn] /\ row \in Row \cup {NoRow} /\ row # NoRow
  BY <1>1, <1>2, SMTT(20) DEF StoreInv, TypeOK, Good, GoodIn
<1>4. ASSUME NEW pc \in {"complete", "interrupt"}, Saw(x, pc, row), row.active = thread[x].turn
      PROVE  SafeStep
  <2>1. pc \in PC
    BY DEF PC
  <2> DEFINE n == [thread[x] EXCEPT !.pc = pc, !.seen = row]
  <2>2. n.pc = pc /\ n.proc = thread[x].proc /\ n.seen = row /\ n.turn = thread[x].turn
    BY <1>1, <1>3, <2>1 DEF ThreadState
  <2>3. Good(n)
    <3> HIDE DEF n
    <3> QED BY <1>1, <1>3, <1>4, <2>2 DEF Good, GoodIn
  <2> QED BY <1>2, <1>3, <1>4, <2>1, <2>3, SawStep, Stutter, Zenon DEF SafeStep
<1>5. CASE Goto(x, "pop")
  <2>1. "pop" \in PC
    BY DEF PC
  <2> DEFINE n == [thread[x] EXCEPT !.pc = "pop"]
  <2>2. n.pc = "pop" /\ n.proc = thread[x].proc /\ n.turn = thread[x].turn
    BY <1>1, <2>1, MoveType
  <2>3. Good(n)
    <3> HIDE DEF n
    <3> QED BY <1>1, <2>2 DEF Good, GoodIn
  <2> QED BY <1>2, <1>3, <1>5, <2>1, <2>3, GotoStep, Stutter DEF SafeStep
<1> QED BY <1>4, <1>5 DEF End

LEMMA PopSafe == ASSUME StoreInv, NEW x \in Thread, Pop(x) PROVE SafeStep
<1>1. thread[x] \in ThreadState /\ Good(thread[x]) /\ thread[x].pc = "pop" /\ "release" \in PC
  BY DEF StoreInv, TypeOK, Pop, PC
<1>2. row' = row /\ turn' = turn /\ chain' = chain /\ lease' = lease /\ Goto(x, "release")
  BY DEF Pop
<1>3. turnLeases' \in [Process -> SUBSET Turn]
  BY <1>1, Zenon DEF StoreInv, TypeOK, Pop
<1> DEFINE n == [thread[x] EXCEPT !.pc = "release"]
<1>4. n.pc = "release" /\ n.proc = thread[x].proc
  BY <1>1, MoveType
<1>5. Good(n)
  <2> HIDE DEF n
  <2> QED BY <1>1, <1>4 DEF Good, GoodIn
<1> QED BY <1>1, <1>2, <1>3, <1>5, GotoStep, Stutter DEF SafeStep

LEMMA ReleaseSafe == ASSUME StoreInv, NEW x \in Thread, Release(x) PROVE SafeStep
<1>1. lease' \in Lease
  BY LeaseType DEF StoreInv, TypeOK, Release, ReleaseLease
<1> QED BY <1>1, IdleStep, Stutter, Zenon DEF SafeStep, Release

LEMMA AckLoadSafe == ASSUME StoreInv, NEW x \in Thread, AckLoad(x) PROVE SafeStep
<1>1. thread[x] \in ThreadState /\ Good(thread[x]) /\ thread[x].pc = "ackLoad"
  BY DEF StoreInv, TypeOK, AckLoad
<1>2. row' = row /\ turn' = turn /\ chain' = chain /\ lease' = lease /\ turnLeases' = turnLeases
  BY DEF AckLoad
<1>3. turnLeases' \in [Process -> SUBSET Turn] /\ row \in Row \cup {NoRow} /\ row # NoRow
  BY <1>1, <1>2, SMTT(20) DEF StoreInv, TypeOK, Good, GoodIn
<1>4. CASE row.ckpt = thread[x].arg /\ ~row.acked
  <2>1. Saw(x, "ackSave", row) /\ "ackSave" \in PC
    BY <1>4 DEF AckLoad, PC
  <2>2. row.acked = FALSE
    BY <1>3, <1>4, RowFields
  <2> DEFINE n == [thread[x] EXCEPT !.pc = "ackSave", !.seen = row]
  <2>3. n.pc = "ackSave" /\ n.proc = thread[x].proc /\ n.seen = row /\ n.arg = thread[x].arg
    BY <1>1, <1>3, <2>1 DEF ThreadState
  <2>4. Good(n)
    <3> HIDE DEF n
    <3> QED BY <1>1, <1>3, <1>4, <2>2, <2>3 DEF Good, GoodIn
  <2> QED BY <1>2, <1>3, <2>1, <2>4, SawStep, Stutter, ZenonT(30) DEF SafeStep
<1>5. CASE Goto(x, "release")
  <2>1. "release" \in PC
    BY DEF PC
  <2> DEFINE n == [thread[x] EXCEPT !.pc = "release"]
  <2>2. n.pc = "release" /\ n.proc = thread[x].proc
    BY <1>1, <2>1, MoveType
  <2>3. Good(n)
    <3> HIDE DEF n
    <3> QED BY <1>1, <2>2 DEF Good, GoodIn
  <2> QED BY <1>2, <1>3, <1>5, <2>1, <2>3, GotoStep, Stutter DEF SafeStep
<1> QED BY <1>4, <1>5 DEF AckLoad

-----------------------------------------------------------------------------
(* The actions that save the session.                                      *)

\* A save that finds the revision it loaded finds the session it loaded.
LEMMA CurrentIsFresh ==
    ASSUME StoreInv, NEW x \in Thread, Current(x), thread[x].seen # NoRow
    PROVE  row = thread[x].seen /\ row \in Row
  BY DEF StoreInv, TypeOK, Current, Fresh

\* A save that does not changes nothing and gives up.
LEMMA LostSave ==
    ASSUME StoreInv, NEW x \in Thread, thread[x].pc # "idle",
           NEW pc \in {"release", "pop"}, Goto(x, pc),
           pc = "pop" => thread[x].turn \in Turn /\ turn[thread[x].turn] \in TurnData,
           row' = row, turn' = turn, chain' = chain, lease' = lease, turnLeases' = turnLeases
    PROVE  SafeStep
<1>1. thread[x] \in ThreadState /\ Good(thread[x]) /\ pc \in PC
  BY DEF StoreInv, TypeOK, PC
<1> DEFINE n == [thread[x] EXCEPT !.pc = pc]
<1>2. n.pc = pc /\ n.proc = thread[x].proc /\ n.turn = thread[x].turn
  BY <1>1, MoveType
<1>3. Good(n)
  <2> HIDE DEF n
  <2> QED BY <1>1, <1>2 DEF Good, GoodIn
<1>4. turnLeases' \in [Process -> SUBSET Turn]
  BY DEF StoreInv, TypeOK
<1> QED BY <1>1, <1>3, <1>4, GotoStep, Stutter DEF SafeStep

\* A save that does, and after which the thread needs what it loaded no more.
LEMMA WonSave ==
    ASSUME StoreInv, NEW x \in Thread, thread[x].pc # "idle", thread[x].seen # NoRow,
           Current(x), NEW pc \in {"release", "pop"}, Goto(x, pc),
           pc = "pop" => thread[x].turn \in Turn /\ turn[thread[x].turn] \in TurnData,
           row' \in Row, row'.rev = thread[x].seen.rev + 1, chain' \in Seq(Turn),
           turn' = turn, lease' = lease, turnLeases' = turnLeases
    PROVE  StoreInv'
<1>1. thread[x] \in ThreadState /\ Good(thread[x]) /\ pc \in PC
  BY DEF StoreInv, TypeOK, PC
<1>2. row = thread[x].seen /\ row \in Row /\ row.rev \in Nat
  BY CurrentIsFresh, RowFields
<1> DEFINE n == [thread[x] EXCEPT !.pc = pc]
<1>3. /\ n \in ThreadState /\ n.pc = pc /\ n.proc = thread[x].proc
      /\ n.turn = thread[x].turn /\ n.seen = row
  BY <1>1, <1>2, MoveType
<1>4. thread' = [thread EXCEPT ![x] = n]
  BY DEF Goto
<1> HIDE DEF n
<1>5. GoodIn(n, row', turn')
  BY <1>1, <1>3 DEF Good, GoodIn
<1>6. turn' \in [Turn -> TurnData \cup {Unused}]
  BY DEF StoreInv, TypeOK
<1>7. row.rev < row'.rev /\ row.rev <= row'.rev /\ row.rev # row'.rev
  BY <1>2
<1> QED BY <1>2, <1>3, <1>4, <1>5, <1>6, <1>7, RowStep, Zenon

LEMMA BeginCreateSafe == ASSUME StoreInv, NEW x \in Thread, BeginCreate(x) PROVE SafeStep
<1>1. thread[x] \in ThreadState /\ Good(thread[x]) /\ thread[x].pc = "create"
  BY DEF StoreInv, TypeOK, BeginCreate
<1>2. turn' = turn /\ chain' = chain /\ lease' = lease /\ turnLeases' = turnLeases
  BY DEF BeginCreate
<1>3. /\ turnLeases' \in [Process -> SUBSET Turn] /\ chain' \in Seq(Turn)
      /\ turn' \in [Turn -> TurnData \cup {Unused}]
  BY <1>2 DEF StoreInv, TypeOK
<1>4. CASE row = NoRow
  <2>1. row' = EmptyRow /\ Saw(x, "check", EmptyRow) /\ "check" \in PC
    BY <1>4 DEF BeginCreate, PC
  <2>2. EmptyRow \in Row /\ EmptyRow # NoRow /\ EmptyRow.rev \in Nat
    BY EmptyRowType, RowFields
  <2> DEFINE n == [thread[x] EXCEPT !.pc = "check", !.seen = EmptyRow]
  <2>3. n \in ThreadState /\ n.pc = "check" /\ n.proc = thread[x].proc /\ n.seen = EmptyRow
    BY <1>1, <2>1, <2>2, Zenon DEF ThreadState
  <2>4. thread' = [thread EXCEPT ![x] = n]
    BY <2>1 DEF Saw
  <2> HIDE DEF n
  <2>5. GoodIn(n, EmptyRow, turn')
    BY <1>1, <2>2, <2>3 DEF Good, GoodIn
  <2>6. StoreInv'
    <3>1. /\ n.seen # NoRow => n.seen \in Row /\ n.seen.rev <= EmptyRow.rev
                               /\ (n.seen.rev = EmptyRow.rev => n.seen = EmptyRow)
          /\ row # NoRow => row.rev < EmptyRow.rev
          /\ \A t \in Turn : turn[t] \in TurnData => turn'[t] \in TurnData
      BY <1>2, <1>4, <2>2, <2>3
    <3> QED BY <1>2, <1>3, <2>1, <2>2, <2>3, <2>4, <2>5, <3>1, RowStep, Zenon
  <2> QED BY <1>2, <1>4, <2>1, <2>6, ContractOpen DEF SafeStep
<1>5. CASE row # NoRow
  <2>1. row' = row /\ Goto(x, "load") /\ "load" \in PC
    BY <1>5 DEF BeginCreate, PC
  <2> DEFINE n == [thread[x] EXCEPT !.pc = "load"]
  <2>2. n.pc = "load" /\ n.proc = thread[x].proc
    BY <1>1, <2>1, MoveType
  <2>3. Good(n)
    <3> HIDE DEF n
    <3> QED BY <1>1, <2>2 DEF Good, GoodIn
  <2> QED BY <1>2, <1>3, <2>1, <2>3, GotoStep, Stutter DEF SafeStep
<1> QED BY <1>4, <1>5

\* Clearing the turn of a process that is gone interrupts it.
LEMMA BeginClearSafe == ASSUME StoreInv, NEW x \in Thread, BeginClear(x) PROVE SafeStep
<1> DEFINE saved == [thread[x].seen EXCEPT !.active = NoTurn, !.rev = @ + 1]
<1>1. /\ thread[x] \in ThreadState /\ Good(thread[x]) /\ thread[x].pc = "clear"
      /\ thread[x].pc # "idle" /\ thread[x].seen # NoRow /\ thread[x].seen.active # NoTurn
  BY DEF StoreInv, TypeOK, BeginClear, Good, GoodIn
<1>2. turn' = turn /\ chain' = chain /\ lease' = lease /\ turnLeases' = turnLeases
  BY DEF BeginClear
<1>3. chain' \in Seq(Turn) /\ turn' \in [Turn -> TurnData \cup {Unused}]
  BY <1>2 DEF StoreInv, TypeOK
<1>4. CASE Current(x)
  <2>1. row = thread[x].seen /\ row \in Row /\ row.rev \in Nat
    BY <1>1, <1>4, CurrentIsFresh, RowFields
  <2>2. /\ saved \in Row /\ saved.rev = row.rev + 1 /\ saved.active = NoTurn
        /\ saved.next = row.next /\ saved.ckpt = row.ckpt /\ saved.acked = row.acked
    <3>1. PICK v \in Nat : v = row.rev + 1
      BY <2>1
    <3>2. saved = [row EXCEPT !.active = NoTurn, !.rev = v]
      BY <2>1, <3>1
    <3> QED BY <2>1, <3>1, <3>2, Zenon DEF Row
  <2>3. row' = saved /\ Saw(x, "check", saved) /\ "check" \in PC
    BY <1>4 DEF BeginClear, PC
  <2> HIDE DEF saved
  <2> DEFINE n == [thread[x] EXCEPT !.pc = "check", !.seen = saved]
  <2>4. n \in ThreadState /\ n.pc = "check" /\ n.proc = thread[x].proc /\ n.seen = saved
    BY <1>1, <2>2, <2>3, Zenon DEF ThreadState
  <2>5. thread' = [thread EXCEPT ![x] = n]
    BY <2>3 DEF Saw
  <2> HIDE DEF n
  <2>6. saved # NoRow /\ row.rev < saved.rev /\ saved.rev <= saved.rev
    BY <2>1, <2>2, RowFields
  <2>7. GoodIn(n, row', turn')
    BY <1>1, <2>4, <2>6 DEF Good, GoodIn
  <2>8. StoreInv'
    BY <1>2, <1>3, <2>2, <2>3, <2>4, <2>5, <2>6, <2>7, RowStep, Zenon
  <2> QED BY <1>1, <1>2, <2>1, <2>2, <2>3, <2>8, ContractInterrupt DEF SafeStep
<1>5. CASE ~Current(x)
  <2>1. row' = row /\ Goto(x, "release")
    BY <1>5 DEF BeginClear
  <2> QED BY <1>1, <1>2, <2>1, LostSave
<1> QED BY <1>4, <1>5

LEMMA BeginSaveSafe == ASSUME StoreInv, NEW x \in Thread, BeginSave(x) PROVE SafeStep
<1>1. /\ thread[x] \in ThreadState /\ Good(thread[x]) /\ thread[x].pc = "save"
      /\ thread[x].pc # "idle" /\ thread[x].seen # NoRow /\ thread[x].seen.active = NoTurn
      /\ thread[x].arg \in Turn \cup {NoTurn}
  BY ZenonT(30) DEF StoreInv, TypeOK, BeginSave, Good, GoodIn, ThreadState
<1>2. chain' = chain /\ lease' = lease /\ turnLeases' = turnLeases
  BY Zenon DEF BeginSave
<1>3. chain' \in Seq(Turn) /\ turn \in [Turn -> TurnData \cup {Unused}]
  BY <1>2 DEF StoreInv, TypeOK
<1>4. CASE Current(x)
  <2>1. row = thread[x].seen /\ row \in Row
    BY <1>1, <1>4, CurrentIsFresh
  <2>2. PICK t \in Turn :
          /\ turn[t] = Unused
          /\ row' = [row EXCEPT !.active = t, !.rev = @ + 1]
          /\ turn' = [turn EXCEPT ![t] = [epoch |-> row.next, parent |-> row.ckpt]]
          /\ thread' = [thread EXCEPT ![x] = [thread[x] EXCEPT !.pc = "retain", !.turn = t]]
    BY <1>4, <2>1, Zenon DEF BeginSave
  <2>3. row.rev \in Nat /\ row.next \in Nat /\ row.ckpt \in Turn \cup {NoTurn}
    BY <2>1, RowFields
  <2>4. /\ row' \in Row /\ row'.rev = row.rev + 1 /\ row'.active = t
        /\ row'.next = row.next /\ row'.ckpt = row.ckpt /\ row'.acked = row.acked
    <3>1. PICK v \in Nat : v = row.rev + 1
      BY <2>1, RowFields
    <3>2. row' = [row EXCEPT !.active = t, !.rev = v]
      BY <2>2, <3>1
    <3> QED BY <2>1, <3>1, <3>2, Zenon DEF Row
  <2> DEFINE n == [thread[x] EXCEPT !.pc = "retain", !.turn = t]
             d == [epoch |-> row.next, parent |-> row.ckpt]
  <2>5. d \in TurnData
    BY <2>3 DEF TurnData
  <2> HIDE DEF d
  <2>6. turn' = [turn EXCEPT ![t] = d]
    BY <2>2 DEF d
  <2>7. /\ turn' \in [Turn -> TurnData \cup {Unused}] /\ turn'[t] \in TurnData
        /\ \A u \in Turn : turn[u] \in TurnData => turn'[u] \in TurnData
    BY <1>3, <2>5, <2>6
  <2>8. "retain" \in PC
    BY DEF PC
  <2>9. /\ n \in ThreadState /\ n.pc = "retain" /\ n.proc = thread[x].proc
        /\ n.seen = row /\ n.turn = t
    BY <1>1, <2>1, <2>8, ZenonT(30) DEF ThreadState
  <2>10. thread' = [thread EXCEPT ![x] = n]
    BY <2>2
  <2> HIDE DEF n
  <2>11. row' # NoRow /\ row.rev < row'.rev /\ row.rev <= row'.rev /\ row.rev # row'.rev
    BY <2>3, <2>4, RowFields
  <2>12. GoodIn(n, row', turn')
    BY <1>1, <2>7, <2>9, <2>11 DEF Good, GoodIn
  <2>13. StoreInv'
    BY <1>2, <1>3, <2>1, <2>4, <2>7, <2>9, <2>10, <2>11, <2>12, RowStep, Zenon
  <2>14. row.ckpt # NoTurn => row.acked /\ thread[x].arg = row.ckpt
    BY <1>1, <2>1 DEF Good, GoodIn
  <2> QED BY <1>1, <1>2, <2>1, <2>2, <2>4, <2>13, <2>14, ContractBegin, Zenon DEF SafeStep
<1>5. CASE ~Current(x)
  <2>1. row' = row /\ turn' = turn /\ Goto(x, "release")
    BY <1>5 DEF BeginSave
  <2> QED BY <1>1, <1>2, <2>1, LostSave
<1> QED BY <1>4, <1>5

LEMMA CompleteSaveSafe == ASSUME StoreInv, NEW x \in Thread, CompleteSave(x) PROVE SafeStep
<1> DEFINE t == thread[x].turn
<1>1. /\ thread[x] \in ThreadState /\ Good(thread[x]) /\ thread[x].pc = "complete"
      /\ thread[x].pc # "idle" /\ thread[x].seen # NoRow /\ thread[x].seen.active = t
      /\ t \in Turn /\ turn[t] \in TurnData
  BY DEF StoreInv, TypeOK, CompleteSave, Good, GoodIn
<1>2. turn' = turn /\ lease' = lease /\ turnLeases' = turnLeases /\ Goto(x, "pop")
  BY DEF CompleteSave
<1>3. CASE Current(x)
  <2>1. row = thread[x].seen /\ row \in Row
    BY <1>1, <1>3, CurrentIsFresh
  <2>2. turn[t].epoch + 1 \in Nat
    BY <1>1 DEF TurnData
  <2>3. /\ row' = [row EXCEPT !.active = NoTurn, !.next = turn[t].epoch + 1,
                              !.ckpt = t, !.acked = FALSE, !.rev = @ + 1]
        /\ chain' = Append(chain, t)
    BY <1>3, <2>1 DEF CompleteSave
  <2> HIDE DEF t
  <2>4. /\ row' \in Row /\ row'.rev = row.rev + 1 /\ row'.active = NoTurn
        /\ row'.next = turn[t].epoch + 1 /\ row'.ckpt = t /\ row'.acked = FALSE
    <3>1. PICK v \in Nat, e \in Nat : v = row.rev + 1 /\ e = turn[t].epoch + 1
      BY <2>1, <2>2, RowFields
    <3>2. row' = [row EXCEPT !.active = NoTurn, !.next = e, !.ckpt = t,
                             !.acked = FALSE, !.rev = v]
      BY <2>3, <3>1
    <3> QED BY <1>1, <2>1, <3>1, <3>2, Zenon DEF Row
  <2>5. chain' \in Seq(Turn)
    BY <1>1, <2>3 DEF StoreInv, TypeOK
  <2>6. StoreInv'
    BY <1>1, <1>2, <1>3, <2>1, <2>4, <2>5, WonSave DEF t
  <2> QED BY <1>1, <1>2, <2>1, <2>3, <2>4, <2>6, ContractComplete DEF SafeStep
<1>4. CASE ~Current(x)
  <2>1. row' = row /\ chain' = chain
    BY <1>4 DEF CompleteSave
  <2> QED BY <1>1, <1>2, <2>1, LostSave
<1> QED BY <1>3, <1>4

LEMMA InterruptSaveSafe == ASSUME StoreInv, NEW x \in Thread, InterruptSave(x) PROVE SafeStep
<1> DEFINE t == thread[x].turn
<1>1. /\ thread[x] \in ThreadState /\ Good(thread[x]) /\ thread[x].pc = "interrupt"
      /\ thread[x].pc # "idle" /\ thread[x].seen # NoRow /\ thread[x].seen.active = t
      /\ t \in Turn /\ turn[t] \in TurnData /\ t # NoTurn
  BY ConstantsAssumption, TurnAssumption DEF StoreInv, TypeOK, InterruptSave, Good, GoodIn
<1>2. /\ turn' = turn /\ chain' = chain /\ lease' = lease /\ turnLeases' = turnLeases
      /\ Goto(x, "pop")
  BY DEF InterruptSave
<1>3. CASE Current(x)
  <2>1. row = thread[x].seen /\ row \in Row
    BY <1>1, <1>3, CurrentIsFresh
  <2>2. row' = [row EXCEPT !.active = NoTurn, !.rev = @ + 1]
    BY <1>3, <2>1 DEF InterruptSave
  <2>3. /\ row' \in Row /\ row'.rev = row.rev + 1 /\ row'.active = NoTurn
        /\ row'.next = row.next /\ row'.ckpt = row.ckpt /\ row'.acked = row.acked
    <3>1. PICK v \in Nat : v = row.rev + 1
      BY <2>1, RowFields
    <3>2. row' = [row EXCEPT !.active = NoTurn, !.rev = v]
      BY <2>2, <3>1
    <3> QED BY <2>1, <3>1, <3>2, Zenon DEF Row
  <2>4. chain' \in Seq(Turn)
    BY <1>2 DEF StoreInv, TypeOK
  <2>5. StoreInv'
    BY <1>1, <1>2, <1>3, <2>1, <2>3, <2>4, WonSave
  <2> QED BY <1>1, <1>2, <2>1, <2>3, <2>5, ContractInterrupt DEF SafeStep
<1>4. CASE ~Current(x)
  <2>1. row' = row
    BY <1>4 DEF InterruptSave
  <2> QED BY <1>1, <1>2, <2>1, LostSave
<1> QED BY <1>3, <1>4

LEMMA AckSaveSafe == ASSUME StoreInv, NEW x \in Thread, AckSave(x) PROVE SafeStep
<1>1. /\ thread[x] \in ThreadState /\ Good(thread[x]) /\ thread[x].pc = "ackSave"
      /\ thread[x].pc # "idle" /\ thread[x].seen # NoRow
      /\ thread[x].seen.ckpt = thread[x].arg /\ thread[x].arg # NoTurn
      /\ thread[x].seen.acked = FALSE
  BY ConstantsAssumption, TurnAssumption DEF StoreInv, TypeOK, AckSave, Good, GoodIn
<1>2. /\ turn' = turn /\ chain' = chain /\ lease' = lease /\ turnLeases' = turnLeases
      /\ Goto(x, "release")
  BY DEF AckSave
<1>3. CASE Current(x)
  <2>1. row = thread[x].seen /\ row \in Row
    BY <1>1, <1>3, CurrentIsFresh
  <2>2. row' = [row EXCEPT !.acked = TRUE, !.rev = @ + 1]
    BY <1>3, <2>1 DEF AckSave
  <2>3. /\ row' \in Row /\ row'.rev = row.rev + 1 /\ row'.active = row.active
        /\ row'.next = row.next /\ row'.ckpt = row.ckpt /\ row'.acked = TRUE
    <3>1. PICK v \in Nat : v = row.rev + 1
      BY <2>1, RowFields
    <3>2. row' = [row EXCEPT !.acked = TRUE, !.rev = v]
      BY <2>2, <3>1
    <3> QED BY <2>1, <3>1, <3>2, Zenon DEF Row
  <2>4. chain' \in Seq(Turn)
    BY <1>2 DEF StoreInv, TypeOK
  <2>5. StoreInv'
    BY <1>1, <1>2, <1>3, <2>1, <2>3, <2>4, WonSave
  <2> QED BY <1>1, <1>2, <2>1, <2>3, <2>5, ContractAcknowledge, Zenon DEF SafeStep
<1>4. CASE ~Current(x)
  <2>1. row' = row
    BY <1>4 DEF AckSave
  <2> QED BY <1>1, <1>2, <2>1, LostSave
<1> QED BY <1>3, <1>4

-----------------------------------------------------------------------------
(* The environment, and the theorems.                                      *)

LEMMA LeaseExpiresSafe == ASSUME StoreInv, LeaseExpires PROVE SafeStep
<1>1. lease' \in Lease
  BY LeaseType DEF StoreInv, LeaseExpires
<1>2. row' = row /\ turn' = turn /\ chain' = chain /\ thread' = thread /\ turnLeases' = turnLeases
  BY DEF LeaseExpires
<1>3. StoreInv'
  BY <1>1, <1>2 DEF StoreInv, TypeOK, Fresh, Good, GoodIn
<1> QED BY <1>2, <1>3, Stutter DEF SafeStep

LEMMA CrashSafe == ASSUME StoreInv, NEW p \in Process, Crash(p) PROVE SafeStep
<1>1. lease' \in Lease /\ turnLeases' \in [Process -> SUBSET Turn]
  BY LeaseType DEF StoreInv, TypeOK, Crash
<1>2. row' = row /\ turn' = turn /\ chain' = chain
  BY DEF Crash
<1>3. \A x \in Thread : thread'[x] \in {Idle, thread[x]}
  BY DEF Crash
<1>4. thread' \in [Thread -> ThreadState]
  BY IdleType DEF StoreInv, TypeOK, Crash
<1>5. ASSUME NEW x \in Thread PROVE (Fresh(thread[x]) /\ Good(thread[x]))'
  <2>1. Fresh(Idle) /\ Good(Idle) /\ Fresh(thread[x]) /\ Good(thread[x])
    BY IdleType DEF Fresh, Good, GoodIn, StoreInv
  <2>2. Fresh(thread'[x]) /\ Good(thread'[x])
    BY <1>3, <2>1
  <2> QED BY <1>2, <2>2 DEF Fresh, Good, GoodIn
<1>6. TypeOK'
  BY <1>1, <1>2, <1>4 DEF StoreInv, TypeOK
<1>7. StoreInv'
  BY <1>2, <1>5, <1>6 DEF StoreInv
<1> QED BY <1>2, <1>7, Stutter DEF SafeStep

LEMMA NextSafe == ASSUME StoreInv, [Next]_vars PROVE SafeStep
<1>1. ASSUME NEW x \in Thread, Step(x) PROVE SafeStep
  BY <1>1, BeginAcquireSafe, BeginLoadSafe, BeginCreateSafe, BeginCheckSafe, BeginClearSafe,
     BeginSaveSafe, BeginRetainSafe, EndSafe, CompleteSaveSafe, InterruptSaveSafe, PopSafe,
     ReleaseSafe, AckAcquireSafe, AckLoadSafe, AckSaveSafe DEF Step
<1>2. CASE UNCHANGED vars
  <2>1. StoreInv'
    BY <1>2 DEF vars, StoreInv, TypeOK, Fresh, Good, GoodIn
  <2> QED BY <1>2, <2>1, Stutter DEF vars, SafeStep
<1> QED BY <1>1, <1>2, LeaseExpiresSafe, CrashSafe DEF Next

LEMMA InitSafe == ASSUME Init PROVE StoreInv /\ Contract!Init
<1>1. /\ turnLeases \in [Process -> SUBSET Turn] /\ thread \in [Thread -> ThreadState]
      /\ turn \in [Turn -> TurnData \cup {Unused}] /\ chain \in Seq(Turn)
  BY IdleType DEF Init
<1>2. lease \in Lease
  BY DEF Init, NoLease, Lease, Owner
<1>3. ASSUME NEW x \in Thread PROVE Fresh(thread[x]) /\ Good(thread[x])
  <2>1. thread[x] = Idle
    BY DEF Init
  <2> QED BY <2>1, IdleType DEF Fresh, Good, GoodIn
<1>4. StoreInv
  BY <1>1, <1>2, <1>3 DEF Init, StoreInv, TypeOK
<1>5. Session = EmptyRow
  BY DEF Session, Init
<1>6. Contract!Init
  BY <1>5 DEF Init, EmptyRow, Contract!Init
<1> QED BY <1>4, <1>6

\* Whatever the interleaving of requests, crashes and lease expiry, the SQLite
\* store makes only the session transitions of the contract: "a durable
\* implementation must preserve these transitions" (continuation/store.py).
THEOREM StoreImplementsContract == Spec => ImplementsContract
<1>1. Init => StoreInv /\ Contract!Init
  BY InitSafe
<1>2. StoreInv /\ [Next]_vars => StoreInv' /\ [Contract!Next]_(Contract!vars)
  BY NextSafe DEF SafeStep
<1> QED BY <1>1, <1>2, PTL DEF Spec, ImplementsContract, Contract!Spec

\* The compare-and-swap on the revision never overwrites an unseen change, and
\* every variable of the store keeps its type.
THEOREM RevisionGuardsSession == Spec => [](TypeOK /\ FreshIfCurrent)
<1>1. Init => StoreInv
  BY InitSafe
<1>2. StoreInv /\ [Next]_vars => StoreInv'
  BY NextSafe DEF SafeStep
<1>3. StoreInv => TypeOK /\ FreshIfCurrent
  BY DEF StoreInv, Fresh, FreshIfCurrent
<1> QED BY <1>1, <1>2, <1>3, PTL DEF Spec

\* A thread is moved by its own steps, and the session's row by no crash or expiry.
LEMMA OneThreadMoves ==
    ASSUME StoreInv, NEW y \in Thread, Step(y), NEW x \in Thread, x # y
    PROVE  thread'[x] = thread[x]
<1>1. ASSUME NEW n, thread' = [thread EXCEPT ![y] = n]
      PROVE  thread'[x] = thread[x]
  BY <1>1 DEF StoreInv, TypeOK
<1>2. ASSUME NEW pc, NEW r, Goto(y, pc) \/ Saw(y, pc, r)
      PROVE  thread'[x] = thread[x]
  BY <1>1, <1>2 DEF Goto, Saw
<1>3. CASE BeginAcquire(y) \/ AckAcquire(y)
  BY <1>1, <1>3 DEF BeginAcquire, AckAcquire, Acquire
<1>4. CASE BeginLoad(y) \/ BeginCreate(y) \/ BeginClear(y) \/ BeginRetain(y)
  BY <1>2, <1>4, ZenonT(30) DEF BeginLoad, BeginCreate, BeginClear, BeginRetain
<1>5. CASE BeginCheck(y) \/ BeginSave(y)
  BY <1>1, <1>2, <1>5, ZenonT(30) DEF BeginCheck, BeginSave
<1>6. CASE End(y) \/ CompleteSave(y) \/ InterruptSave(y) \/ Pop(y)
  BY <1>2, <1>6 DEF End, CompleteSave, InterruptSave, Pop
<1>7. CASE Release(y) \/ AckLoad(y) \/ AckSave(y)
  BY <1>1, <1>2, <1>7 DEF Release, AckLoad, AckSave
<1> QED BY <1>3, <1>4, <1>5, <1>6, <1>7 DEF Step

LEMMA SaveIsOwn ==
    ASSUME StoreInv, [Next]_vars, NEW x \in Thread, thread[x].pc = "ackSave",
           row' # row, thread'[x].pc = "release"
    PROVE  AckSave(x)
<1>1. PICK y \in Thread : Step(y)
  BY DEF Next, vars, LeaseExpires, Crash
<1>2. y = x
  BY <1>1, OneThreadMoves
<1>3. Step(x) /\ thread[x].pc = "ackSave"
  BY <1>1, <1>2
<1> QED BY <1>3 DEF Step, BeginAcquire, BeginLoad, BeginCreate, BeginCheck, BeginClear, BeginSave,
                    BeginRetain, End, CompleteSave, InterruptSave, Pop, Release, AckAcquire,
                    AckLoad, Acquire

\* An acknowledgement is written only while the checkpoint its client named is the
\* latest: a turn that completes between the load and the save makes the save fail.
THEOREM AcknowledgementIsOfTheNamedCheckpoint == Spec => AcknowledgesNamed
<1>1. Init => StoreInv
  BY InitSafe
<1>2. StoreInv /\ [Next]_vars => StoreInv'
  BY NextSafe DEF SafeStep
<1>3. ASSUME StoreInv, [Next]_vars, NEW x \in Thread, thread[x].pc = "ackSave",
             row' # row, thread'[x].pc = "release"
      PROVE  row.ckpt = thread[x].arg
  <2>1. AckSave(x)
    BY <1>3, SaveIsOwn
  <2>2. Current(x)
    BY <1>3, <2>1 DEF AckSave
  <2>3. thread[x].seen # NoRow /\ thread[x].seen.ckpt = thread[x].arg
    BY <1>3 DEF StoreInv, Good, GoodIn
  <2> QED BY <1>3, <2>2, <2>3, CurrentIsFresh
<1>4. StoreInv /\ [Next]_vars =>
        [\A x \in Thread :
            thread[x].pc = "ackSave" /\ row' # row /\ thread'[x].pc = "release" =>
                row.ckpt = thread[x].arg]_vars
  BY <1>3
<1> QED BY <1>1, <1>2, <1>4, PTL DEF Spec, AcknowledgesNamed

-----------------------------------------------------------------------------
(* What the contract guarantees for any number of turns: the checkpoints   *)
(* form one chain, and the turn in flight continues it.                    *)
(*                                                                         *)
(* The parts of ChainInv need each other: a completed turn extends the     *)
(* chain properly because the active turn has the next epoch and the       *)
(* latest checkpoint as its parent, and it has them because next and ckpt  *)
(* describe the chain's end.  A session without a checkpoint counts as     *)
(* acknowledged, which ActiveContinuesChain needs for the first turn.      *)

NothingToAcknowledge == Session.ckpt = NoTurn => Session.acked
ChainInv ==
    /\ Contract!TypeOK /\ Contract!CheckpointChain /\ Contract!ActiveContinuesChain
    /\ NothingToAcknowledge

LEMMA InitChain == Contract!Init => ChainInv
<1> SUFFICES ASSUME Contract!Init PROVE ChainInv
  OBVIOUS
<1>1. Contract!TypeOK
  <2>1. Session.next \in Nat /\ turn \in [Turn -> TurnData \cup {Unused}] /\ chain \in Seq(Turn)
    BY DEF Contract!Init
  <2>2. (row # NoRow) \in BOOLEAN /\ Session.acked \in BOOLEAN
    BY Zenon DEF Contract!Init
  <2> QED BY <2>1, <2>2, Zenon DEF Contract!Init, Contract!TypeOK
<1>2. Contract!CheckpointChain
  BY DEF Contract!Init, Contract!CheckpointChain
<1>3. Contract!ActiveContinuesChain /\ NothingToAcknowledge
  BY DEF Contract!Init, Contract!ActiveContinuesChain, NothingToAcknowledge
<1> QED BY <1>1, <1>2, <1>3 DEF ChainInv

\* Handing out an id that was not used leaves the turns of the chain alone.
LEMMA BeginChain ==
    ASSUME ChainInv, NEW t \in Turn, NEW parent \in Turn \cup {NoTurn}, Contract!Begin(t, parent)
    PROVE  ChainInv'
<1> USE DEF ChainInv
<1>1. Contract!TypeOK'
  <2>1. [epoch |-> Session.next, parent |-> Session.ckpt] \in Contract!TurnData
    BY DEF Contract!TypeOK, Contract!TurnData
  <2>2. turn' \in [Turn -> Contract!TurnData \cup {Unused}]
    BY <2>1 DEF Contract!TypeOK, Contract!Begin
  <2> QED BY <2>2, Zenon DEF Contract!TypeOK, Contract!Begin
<1>2. \A i \in 1 .. Len(chain) : chain[i] \in Turn /\ chain[i] # t
  <2> TAKE i \in 1 .. Len(chain)
  <2>1. chain[i] \in Turn /\ i - 1 \in Nat /\ (i # 1 => chain[i - 1] \in Turn)
    BY DEF Contract!TypeOK
  <2> DEFINE p == IF i = 1 THEN NoTurn ELSE chain[i - 1]
  <2>2. p \in Turn \cup {NoTurn} /\ turn[chain[i]] = [epoch |-> i - 1, parent |-> p]
    BY <2>1 DEF Contract!CheckpointChain
  <2> HIDE DEF p
  <2>3. [epoch |-> i - 1, parent |-> p] \in [epoch : Nat, parent : Turn \cup {NoTurn}]
    BY <2>1, <2>2
  <2> QED BY <2>1, <2>2, <2>3, TurnAssumption DEF Contract!Begin
<1>3. Contract!CheckpointChain'
  BY <1>2, TurnAssumption DEF Contract!TypeOK, Contract!CheckpointChain, Contract!Begin
<1>4. Contract!ActiveContinuesChain'
  <2>1. /\ Session'.active = t /\ Session'.next = Session.next
        /\ Session'.ckpt = Session.ckpt /\ Session'.acked = Session.acked
    BY DEF Contract!Begin
  <2>2. turn'[t] = [epoch |-> Session.next, parent |-> Session.ckpt]
    BY DEF Contract!Begin, Contract!TypeOK
  <2>3. Session.acked
    BY DEF Contract!Begin, NothingToAcknowledge
  <2> QED BY <2>1, <2>2, <2>3 DEF Contract!ActiveContinuesChain
<1> QED BY <1>1, <1>3, <1>4 DEF Contract!Begin, NothingToAcknowledge

\* The active turn has the next epoch and the latest checkpoint as parent, so
\* completing it appends the right element.
LEMMA CompleteChain ==
    ASSUME ChainInv, NEW t \in Turn, Contract!Complete(t)
    PROVE  ChainInv'
<1> USE DEF ChainInv
<1>1. /\ t # NoTurn /\ Session.active = t
      /\ turn[t] = [epoch |-> Session.next, parent |-> Session.ckpt]
  BY TurnAssumption DEF Contract!ActiveContinuesChain, Contract!Complete
<1>2. turn[t].epoch = Session.next /\ Session.next \in Nat
  BY <1>1 DEF Contract!TypeOK
<1>3. Contract!TypeOK'
  <2>1. turn[t].epoch + 1 \in Nat /\ Append(chain, t) \in Seq(Turn)
    BY <1>2 DEF Contract!TypeOK
  <2> QED BY <2>1, <1>1, Zenon DEF Contract!TypeOK, Contract!Complete
<1>4. chain' = Append(chain, t) /\ Len(chain') = Len(chain) + 1
  BY DEF Contract!TypeOK, Contract!Complete
<1>5. Session'.next = Len(chain')
  BY <1>2, <1>4 DEF Contract!CheckpointChain, Contract!Complete
<1>6. \A i \in 1 .. Len(chain') :
        turn'[chain'[i]] = [epoch |-> i - 1,
                            parent |-> IF i = 1 THEN NoTurn ELSE chain'[i - 1]]
  <2> TAKE i \in 1 .. Len(chain')
  <2>1. CASE i \in 1 .. Len(chain)
    BY <2>1, <1>4 DEF Contract!TypeOK, Contract!CheckpointChain, Contract!Complete
  <2>2. CASE i = Len(chain) + 1
    <3>1. chain'[i] = t /\ i - 1 = Session.next
      BY <2>2, <1>4 DEF Contract!TypeOK, Contract!CheckpointChain
    <3>2. Session.ckpt = IF i = 1 THEN NoTurn ELSE chain'[i - 1]
      BY <2>2, <1>4 DEF Contract!TypeOK, Contract!CheckpointChain
    <3> QED BY <3>1, <3>2, <1>1 DEF Contract!Complete
  <2> QED BY <2>1, <2>2, <1>4 DEF Contract!TypeOK
<1>7. Session'.ckpt = IF chain' = <<>> THEN NoTurn ELSE chain'[Len(chain')]
  BY <1>4 DEF Contract!TypeOK, Contract!Complete
<1> QED BY <1>1, <1>3, <1>5, <1>6, <1>7, Zenon
      DEF Contract!CheckpointChain, Contract!ActiveContinuesChain, NothingToAcknowledge,
          Contract!Complete

LEMMA NextChain == ChainInv /\ [Contract!Next]_(Contract!vars) => ChainInv'
<1> SUFFICES ASSUME ChainInv, [Contract!Next]_(Contract!vars) PROVE ChainInv'
  OBVIOUS
<1> USE DEF ChainInv, NothingToAcknowledge
<1>1. CASE Contract!Open
  BY <1>1 DEF Contract!TypeOK, Contract!CheckpointChain, Contract!ActiveContinuesChain,
              Contract!Open
<1>2. ASSUME NEW t \in Turn, NEW parent \in Turn \cup {NoTurn}, Contract!Begin(t, parent)
      PROVE  ChainInv'
  BY <1>2, BeginChain
<1>3. ASSUME NEW t \in Turn, Contract!Complete(t) PROVE ChainInv'
  BY <1>3, CompleteChain
<1>4. ASSUME NEW t \in Turn, Contract!Interrupt(t) PROVE ChainInv'
  BY <1>4 DEF Contract!TypeOK, Contract!CheckpointChain, Contract!ActiveContinuesChain,
              Contract!Interrupt
<1>5. ASSUME NEW t \in Turn, Contract!Acknowledge(t) PROVE ChainInv'
  BY <1>5, ZenonT(30) DEF Contract!TypeOK, Contract!CheckpointChain, Contract!ActiveContinuesChain,
              Contract!Acknowledge
<1>6. CASE UNCHANGED Contract!vars
  BY <1>6 DEF Contract!TypeOK, Contract!CheckpointChain, Contract!ActiveContinuesChain,
              Contract!vars
<1> QED BY <1>1, <1>2, <1>3, <1>4, <1>5, <1>6 DEF Contract!Next

\* The checkpoints of a session form one chain without gaps or forks, and the
\* turn in flight continues it from an acknowledged checkpoint (begin_turn and
\* complete_turn of InMemoryContinuationStore).
THEOREM OneChain == Contract!Spec => [](CheckpointChain /\ ActiveContinuesChain)
<1>1. ChainInv => CheckpointChain /\ ActiveContinuesChain
  BY DEF ChainInv, CheckpointChain, ActiveContinuesChain
<1> QED BY <1>1, InitChain, NextChain, PTL DEF Contract!Spec

\* Every variable of the contract keeps its type.
THEOREM ContractTypes == Contract!Spec => []Contract!TypeOK
<1>1. ChainInv => Contract!TypeOK
  BY DEF ChainInv
<1> QED BY <1>1, InitChain, NextChain, PTL DEF Contract!Spec

\* A step appends the active turn, which the chain does not hold yet, or leaves
\* the chain as it is: no turn is checkpointed twice or after its interruption.
THEOREM ChainGrowsByActiveTurn == Contract!Spec => ChainOnlyGrows
<1> DEFINE Grows ==
      \/ chain' = chain
      \/ /\ Session.active \in Turn
         /\ chain' = Append(chain, Session.active)
         /\ \A i \in 1 .. Len(chain) : chain[i] # Session.active
<1>1. ChainInv /\ [Contract!Next]_(Contract!vars) => [Grows]_(Contract!vars)
  <2> SUFFICES ASSUME ChainInv, Contract!Next PROVE Grows
    BY DEF Contract!vars
  <2>1. ASSUME NEW t \in Turn, Contract!Complete(t) PROVE Grows
    <3>1. Session.active = t /\ t # NoTurn /\ chain' = Append(chain, t)
      BY <2>1, TurnAssumption DEF Contract!Complete
    <3>2. ASSUME NEW i \in 1 .. Len(chain), chain[i] = t PROVE FALSE
      <4>1. turn[t] = [epoch |-> Session.next, parent |-> Session.ckpt] /\ Session.next = Len(chain)
        BY <3>1 DEF ChainInv, Contract!ActiveContinuesChain, Contract!CheckpointChain
      <4>2. turn[t].epoch = i - 1
        <5>1. turn[chain[i]] = [epoch |-> i - 1,
                                parent |-> IF i = 1 THEN NoTurn ELSE chain[i - 1]]
          BY DEF ChainInv, Contract!CheckpointChain
        <5> QED BY <5>1, <3>2
      <4>3. turn[t].epoch = Len(chain)
        BY <4>1
      <4> QED BY <4>2, <4>3 DEF ChainInv, Contract!TypeOK
    <3> QED BY <3>1, <3>2
  <2>2. CASE chain' = chain
    BY <2>2
  <2> QED BY <2>1, <2>2
        DEF Contract!Next, Contract!Open, Contract!Begin, Contract!Interrupt, Contract!Acknowledge
<1> QED BY <1>1, InitChain, NextChain, PTL
      DEF Contract!Spec, ChainOnlyGrows, Contract!ChainOnlyGrows

\* The checkpoints in the database form one chain without gaps or forks, and the
\* active turn continues it, over every crash and every late writer.
THEOREM StoredCheckpointsFormOneChain ==
    Spec => [](CheckpointChain /\ ActiveContinuesChain)
BY OneChain, StoreImplementsContract, PTL DEF ImplementsContract

\* A step of any thread appends the turn that is active in the database, which the
\* chain does not hold yet, or leaves the chain as it is: a save that comes after
\* the turn was interrupted or superseded checkpoints nothing.
THEOREM StoredChainOnlyGrows == Spec => ChainOnlyGrows
BY ChainGrowsByActiveTurn, StoreImplementsContract, PTL DEF ImplementsContract

=============================================================================
