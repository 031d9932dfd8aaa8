--------------------------- MODULE DurableToolLedger ---------------------------
(***************************************************************************)
(* The durable tool-operation ledger: SQLitePersistenceStore's operations  *)
(* and leases (storage/sqlite.py), SQLiteToolExecutionLedger on top of it  *)
(* (storage/tool_ledger.py), and the three clients that drive it: the      *)
(* executor's tool loop, the MCP proxy and the HTTP tool runner.           *)
(*                                                                         *)
(* Several gateway processes share one database file.  Every SQLite write  *)
(* transaction (BEGIN IMMEDIATE) is one atomic step; what a client does    *)
(* between two ledger calls is not atomic.  Processes crash and restart at *)
(* any step, leases expire at any step, and HTTP replies get lost.         *)
(*                                                                         *)
(* Abstractions.  An operation key is a pair of a logical operation (its   *)
(* id and tool name) and an argument hash.  A receipt is the tool call and *)
(* the operation that was really executed to produce it.  Owner ids are    *)
(* fresh UUIDs, one per ledger object: a process stands for its current    *)
(* ledger's owner id, and a lease whose ledger died belongs to NoProcess,  *)
(* an id nobody will ever present again.  Expiry times are one bit per     *)
(* lease, cleared by the passing of time.  Of a cached record, only its    *)
(* argument hash and whether mark_validated still finds it open are read.  *)
(***************************************************************************)
EXTENDS Naturals

CONSTANTS
    Process,      \* gateway processes, each with one ledger object
    NoProcess,    \* the owner id of a ledger that no longer exists
    Logical,      \* logical operations: a client's operation id and a tool
    Argument,     \* argument hashes
    NoOp, NoReceipt, NoRecord,
    Call,         \* tool-call ids
    Names,        \* the operations that clients present under a tool-call id
    ExecRequest,  \* connections to the completion endpoints
    McpRequest    \* connections to the MCP endpoint

Op == [logical : Logical, args : Argument]
Request == ExecRequest \cup McpRequest
Receipt == [call : Call, op : Op]
Record == [args : Argument, open : BOOLEAN]

ASSUME ConstantsAssumption ==
    /\ NoProcess \notin Process
    /\ NoOp \notin Op
    /\ NoReceipt \notin Receipt
    /\ NoRecord \notin Record
    /\ Names \in [Call -> SUBSET Op]
    /\ ExecRequest \cap McpRequest = {}

VARIABLES
    status,   \* durable_operations.status by operation key; "none": no row
    receipt,  \* durable_operations.execution_receipt_json
    callOp,   \* durable_operation_calls: the operation a tool call is bound to
    lease,    \* durable_leases for `operation:<key>`; token 0: no row
    up,       \* the process is running
    record,   \* _records_by_call_id of each ledger object
    held,     \* _leases of each ledger object: fencing token by call, 0: none
    req,      \* requests being served
    runner,   \* the client's tool runner, one slot per tool call
    effects   \* history: how often the external tool ran for the operation

durable == <<status, receipt, callOp, lease>>
vars == <<status, receipt, callOp, lease, up, record, held, req, runner, effects>>

Status == {"none", "proposed", "validated", "submitted", "committed",
           "indeterminate", "failed"}
Owner == Process \cup {NoProcess}
Lease == [owner : Owner, token : Nat, live : BOOLEAN]
NoLease == [owner |-> NoProcess, token |-> 0, live |-> FALSE]

PC == {"idle", "register", "receipt", "indeterminate", "block", "validate",
       "submit", "run", "commit", "acknowledge", "fail", "done"}
Reply == {"none", "replayed", "blocked", "error", "validated", "rejected",
          "committed", "failed"}
Serving ==
    [pc : PC \ {"idle"}, proc : Process, op : Op, call : Call, ran : BOOLEAN,
     reply : Reply]
Idle == [pc |-> "idle", reply |-> "none"]

Runner == [pc : {"asked", "mayRun", "ran"}, op : Op]
NoRunner == [pc |-> "idle"]

-----------------------------------------------------------------------------
(* The store: one definition per write transaction of storage/sqlite.py.  *)

\* A submission takes a fresh lease, renews its own, or takes over an expired one.
GrantedLease(o, p) ==
    IF lease[o].token = 0
    THEN [owner |-> p, token |-> 1, live |-> TRUE]
    ELSE IF lease[o].owner = p
         THEN [lease[o] EXCEPT !.live = TRUE]
         ELSE [owner |-> p, token |-> lease[o].token + 1, live |-> TRUE]

LeaseAvailable(o, p) ==
    lease[o].token = 0 \/ lease[o].owner = p \/ ~lease[o].live

HoldsLiveLease(o, p, token) ==
    /\ lease[o].token # 0
    /\ lease[o].owner = p
    /\ lease[o].token = token
    /\ lease[o].live

\* prepare_operation: INSERT OR IGNORE of the operation and of the call.
CanPrepare(o, c) == callOp[c] \in {NoOp, o}
Prepare(o, c) ==
    /\ status' = [status EXCEPT ![o] = IF @ = "none" THEN "proposed" ELSE @]
    /\ callOp' = [callOp EXCEPT ![c] = o]
    /\ UNCHANGED <<receipt, lease>>

MarkOperationValidated(o) ==
    /\ status' = [status EXCEPT ![o] = IF @ = "proposed" THEN "validated" ELSE @]
    /\ UNCHANGED <<receipt, callOp, lease>>

\* Mutated: a submission is not refused for what already happened.
CanSubmitFromAnyState(o, p) ==
    /\ o # NoOp
    /\ LeaseAvailable(o, p)

CanSubmit(o, p) ==
    /\ o # NoOp
    /\ status[o] \in {"proposed", "validated"}
    /\ LeaseAvailable(o, p)

MarkOperationSubmitted(o, p) ==
    /\ lease' = [lease EXCEPT ![o] = GrantedLease(o, p)]
    /\ status' = [status EXCEPT ![o] = "submitted"]
    /\ UNCHANGED <<receipt, callOp>>

CanCommit(o, p, token) ==
    /\ o # NoOp
    /\ HoldsLiveLease(o, p, token)
    /\ status[o] = "submitted"

MarkOperationCommitted(o, output) ==
    /\ status' = [status EXCEPT ![o] = "committed"]
    /\ receipt' = [receipt EXCEPT ![o] = output]
    /\ lease' = [lease EXCEPT ![o] = NoLease]
    /\ UNCHANGED callOp

\* Mutated: a lost acknowledgement overwrites a committed receipt.
MarkOperationIndeterminateAlways(o) ==
    /\ status' = [status EXCEPT ![o] = "indeterminate"]
    /\ lease' = [lease EXCEPT ![o] = NoLease]
    /\ UNCHANGED <<receipt, callOp>>

MarkOperationIndeterminate(o) ==
    /\ IF status[o] # "committed"
       THEN /\ status' = [status EXCEPT ![o] = "indeterminate"]
            /\ lease' = [lease EXCEPT ![o] = NoLease]
       ELSE UNCHANGED <<status, lease>>
    /\ UNCHANGED <<receipt, callOp>>

\* Mutated: a failure is recorded whatever the operation's state.
MarkOperationFailedAlways(o) ==
    /\ status' = [status EXCEPT ![o] = "failed"]
    /\ UNCHANGED <<receipt, callOp, lease>>

MarkOperationFailed(o) ==
    /\ status' = [status EXCEPT
                    ![o] = IF @ \in {"committed", "submitted"} THEN @ ELSE "failed"]
    /\ UNCHANGED <<receipt, callOp, lease>>

\* Mutated: a restart leaves the interrupted submissions as they were.
RecoverNothing == UNCHANGED durable

\* recover_inflight_operations, run by every new ledger object.
RecoverInflightOperations ==
    /\ status' = [o \in Op |-> IF status[o] = "submitted" THEN "indeterminate" ELSE status[o]]
    /\ lease' = [o \in Op |-> IF status[o] \in {"submitted", "indeterminate"}
                              THEN NoLease ELSE lease[o]]
    /\ UNCHANGED <<receipt, callOp>>

-----------------------------------------------------------------------------
(* The ledger object of one process.                                       *)

Cache(p, c, rec) == record' = [record EXCEPT ![p] = [record[p] EXCEPT ![c] = rec]]
RememberLease(p, c, token) == held' = [held EXCEPT ![p] = [held[p] EXCEPT ![c] = token]]

IsOpen(s) == s \in {"proposed", "validated"}

\* get_record: the cached record, or a copy of the durable row of a call
\* that this object does not know.
GetRecord(p, c) ==
    IF record[p][c] = NoRecord /\ callOp[c] # NoOp
    THEN [args |-> callOp[c].args, open |-> IsOpen(status[callOp[c]])]
    ELSE record[p][c]

\* The in-memory part of mark_*: it changes a record the object has.
CacheStatus(p, c, s) ==
    IF GetRecord(p, c) = NoRecord
    THEN UNCHANGED record
    ELSE Cache(p, c, [GetRecord(p, c) EXCEPT !.open = IsOpen(s)])

\* register_tool_call takes the argument hash of the record it already has
\* under this id, whatever the arguments of the call.
KeyToPrepare(p, o, c) ==
    IF record[p][c] = NoRecord THEN o ELSE [o EXCEPT !.args = record[p][c].args]

RegisterToolCall(p, o, c) ==
    LET k == KeyToPrepare(p, o, c) IN
    /\ CanPrepare(k, c)
    /\ Prepare(k, c)
    /\ Cache(p, c, [args |-> k.args, open |-> IsOpen(status'[k])])
    /\ UNCHANGED held

\* The id is bound to another operation: the transaction rolls back, the
\* in-memory record that was made first is left behind.
RegisterRefused(p, o, c) ==
    LET k == KeyToPrepare(p, o, c) IN
    /\ ~CanPrepare(k, c)
    /\ IF record[p][c] = NoRecord
       THEN Cache(p, c, [args |-> k.args, open |-> TRUE])
       ELSE UNCHANGED record
    /\ UNCHANGED <<durable, held>>

\* mark_validated returns early unless the cached record is still open.
MarkValidated(p, c) ==
    /\ IF GetRecord(p, c).open
       THEN MarkOperationValidated(callOp[c])
       ELSE UNCHANGED durable
    /\ Cache(p, c, GetRecord(p, c))
    /\ UNCHANGED held

MarkSubmitted(p, c) ==
    /\ CanSubmit(callOp[c], p)
    /\ MarkOperationSubmitted(callOp[c], p)
    /\ RememberLease(p, c, GrantedLease(callOp[c], p).token)
    /\ CacheStatus(p, c, "submitted")

CommitEnabled(p, c) == held[p][c] # 0 /\ CanCommit(callOp[c], p, held[p][c])

MarkCommitted(p, c, output) ==
    /\ CommitEnabled(p, c)
    /\ MarkOperationCommitted(callOp[c], output)
    /\ RememberLease(p, c, 0)
    /\ CacheStatus(p, c, "committed")

MarkIndeterminate(p, c) ==
    /\ MarkOperationIndeterminate(callOp[c])
    /\ RememberLease(p, c, 0)
    /\ CacheStatus(p, c, "indeterminate")

\* The cached record says FAILED even when the durable row refuses to.
MarkFailed(p, c) ==
    /\ MarkOperationFailed(callOp[c])
    /\ CacheStatus(p, c, "failed")
    /\ UNCHANGED held

\* mark_replayed is the base class's: memory only, and it loads nothing.
MarkReplayed(p, c) ==
    IF record[p][c] = NoRecord
    THEN UNCHANGED record
    ELSE Cache(p, c, [record[p][c] EXCEPT !.open = FALSE])

HasReceipt(o) == status[o] = "committed" /\ receipt[o] # NoReceipt

\* operation_requires_manual_resolution of the row, if there is one.
HasIndeterminateOperation(o) == status[o] \in {"submitted", "indeterminate"}

-----------------------------------------------------------------------------
(* Requests.  Exec is the executor's loop over the tool calls of a model   *)
(* response, Mcp is MCPProxy._handle_tools_call.                           *)

Goto(r, pc) == req' = [req EXCEPT ![r] = [req[r] EXCEPT !.pc = pc]]
Finish(r, reply) ==
    req' = [req EXCEPT ![r] = [req[r] EXCEPT !.pc = "done", !.reply = reply]]

Arrive(r, pc) ==
    /\ req[r].pc = "idle"
    /\ \E p \in Process, c \in Call : \E o \in Names[c] :
        /\ up[p]
        /\ req' = [req EXCEPT ![r] = [pc |-> pc, proc |-> p, op |-> o, call |-> c,
                                      ran |-> FALSE, reply |-> "none"]]
    /\ UNCHANGED <<durable, up, record, held, runner, effects>>

ExecArrive(r) == Arrive(r, "register")

ExecRegister(r) ==
    /\ req[r].pc = "register"
    /\ \/ RegisterToolCall(req[r].proc, req[r].op, req[r].call) /\ Goto(r, "receipt")
       \/ RegisterRefused(req[r].proc, req[r].op, req[r].call) /\ Finish(r, "error")
    /\ UNCHANGED <<up, runner, effects>>

\* A call with a receipt is marked replayed and still validated.
ExecCheckReceipt(r) ==
    /\ req[r].pc = "receipt"
    /\ IF HasReceipt(req[r].op)
       THEN /\ MarkReplayed(req[r].proc, req[r].call)
            /\ req' = [req EXCEPT ![r] = [req[r] EXCEPT !.pc = "validate",
                                                        !.reply = "replayed"]]
       ELSE Goto(r, "indeterminate") /\ UNCHANGED record
    /\ UNCHANGED <<durable, up, held, runner, effects>>

ExecCheckIndeterminate(r) ==
    /\ req[r].pc = "indeterminate"
    /\ Goto(r, IF HasIndeterminateOperation(req[r].op) THEN "block" ELSE "validate")
    /\ UNCHANGED <<durable, up, record, held, runner, effects>>

ExecBlock(r) ==
    /\ req[r].pc = "block"
    /\ MarkIndeterminate(req[r].proc, req[r].call)
    /\ Finish(r, "blocked")
    /\ UNCHANGED <<up, runner, effects>>

\* The schema check is a function of the arguments: either outcome.
ExecValidate(r) ==
    /\ req[r].pc = "validate"
    /\ \/ MarkFailed(req[r].proc, req[r].call) /\ Finish(r, "rejected")
       \/ /\ MarkValidated(req[r].proc, req[r].call)
          /\ Finish(r, IF req[r].reply = "replayed" THEN "replayed" ELSE "validated")
    /\ UNCHANGED <<up, runner, effects>>

\* The reply is lost, or reaches the client; a call it has to execute goes
\* to its tool runner.
ExecReturn(r) ==
    /\ req[r].pc = "done"
    /\ req' = [req EXCEPT ![r] = Idle]
    /\ \/ UNCHANGED runner
       \/ /\ req[r].reply = "validated"
          /\ runner[req[r].call].pc = "idle"
          /\ runner' = [runner EXCEPT ![req[r].call] = [pc |-> "asked", op |-> req[r].op]]
    /\ UNCHANGED <<durable, up, record, held, effects>>

McpArrive(r) == Arrive(r, "indeterminate")

McpCheckIndeterminate(r) ==
    /\ req[r].pc = "indeterminate"
    /\ IF HasIndeterminateOperation(req[r].op)
       THEN Finish(r, "blocked")
       ELSE Goto(r, "receipt")
    /\ UNCHANGED <<durable, up, record, held, runner, effects>>

McpCheckReceipt(r) ==
    /\ req[r].pc = "receipt"
    /\ IF HasReceipt(req[r].op)
       THEN MarkReplayed(req[r].proc, req[r].call) /\ Finish(r, "replayed")
       ELSE Goto(r, "register") /\ UNCHANGED record
    /\ UNCHANGED <<durable, up, held, runner, effects>>

McpRegister(r) ==
    /\ req[r].pc = "register"
    /\ \/ RegisterToolCall(req[r].proc, req[r].op, req[r].call) /\ Goto(r, "validate")
       \/ RegisterRefused(req[r].proc, req[r].op, req[r].call) /\ Finish(r, "error")
    /\ UNCHANGED <<up, runner, effects>>

McpValidate(r) ==
    /\ req[r].pc = "validate"
    /\ MarkValidated(req[r].proc, req[r].call)
    /\ Goto(r, "submit")
    /\ UNCHANGED <<up, runner, effects>>

\* A refused submission raises out of the handler: nothing is executed.
McpSubmit(r) ==
    /\ req[r].pc = "submit"
    /\ \/ MarkSubmitted(req[r].proc, req[r].call) /\ Goto(r, "run")
       \/ /\ ~CanSubmit(callOp[req[r].call], req[r].proc)
          /\ Finish(r, "error")
          /\ UNCHANGED <<durable, record, held>>
    /\ UNCHANGED <<up, runner, effects>>

\* The tool's handler returns, or raises before or after its side effect; a
\* tool without a handler is acknowledged and nothing runs.
McpRun(r) ==
    /\ req[r].pc = "run"
    /\ \E ran \in BOOLEAN, pc \in {"commit", "fail", "acknowledge"} :
        /\ pc = "commit" => ran
        /\ pc = "acknowledge" => ~ran
        /\ req' = [req EXCEPT ![r] = [req[r] EXCEPT !.pc = pc, !.ran = ran]]
        /\ effects' = IF ran THEN [effects EXCEPT ![req[r].op] = @ + 1] ELSE effects
    /\ UNCHANGED <<durable, up, record, held, runner>>

\* A refused commit is an exception like the handler's own.
McpCommit(r) ==
    /\ req[r].pc = "commit"
    /\ \/ /\ MarkCommitted(req[r].proc, req[r].call, [call |-> req[r].call, op |-> req[r].op])
          /\ Finish(r, "committed")
       \/ /\ ~CommitEnabled(req[r].proc, req[r].call)
          /\ Goto(r, "fail")
          /\ UNCHANGED <<durable, record, held>>
    /\ UNCHANGED <<up, runner, effects>>

\* Without a handler there is no except arm: a refused commit raises.
McpAcknowledge(r) ==
    /\ req[r].pc = "acknowledge"
    /\ \/ /\ MarkCommitted(req[r].proc, req[r].call, [call |-> req[r].call, op |-> req[r].op])
          /\ Finish(r, "committed")
       \/ /\ ~CommitEnabled(req[r].proc, req[r].call)
          /\ Finish(r, "error")
          /\ UNCHANGED <<durable, record, held>>
    /\ UNCHANGED <<up, runner, effects>>

McpFail(r) ==
    /\ req[r].pc = "fail"
    /\ MarkFailed(req[r].proc, req[r].call)
    /\ Finish(r, "failed")
    /\ UNCHANGED <<up, runner, effects>>

McpReturn(r) ==
    /\ req[r].pc = "done"
    /\ req' = [req EXCEPT ![r] = Idle]
    /\ UNCHANGED <<durable, up, record, held, runner, effects>>

-----------------------------------------------------------------------------
(* The HTTP tool runner: POST /v1/tool-operations/<action>.  A cooperating *)
(* runner executes a call only after `submit` returned 200, and commits    *)
(* only what it executed.  Any process may receive any of its requests.    *)

\* The reply may be lost: the runner then has no permission to run.
HttpSubmit(p, c) ==
    /\ up[p] /\ GetRecord(p, c) # NoRecord
    /\ runner[c].pc = "asked"
    /\ \/ /\ MarkSubmitted(p, c)
          /\ \/ runner' = [runner EXCEPT ![c] = [runner[c] EXCEPT !.pc = "mayRun"]]
             \/ UNCHANGED runner
       \/ /\ ~CanSubmit(callOp[c], p)
          /\ Cache(p, c, GetRecord(p, c))
          /\ UNCHANGED <<durable, held, runner>>
    /\ UNCHANGED <<up, req, effects>>

RunnerRuns(c) ==
    /\ runner[c].pc = "mayRun"
    /\ runner' = [runner EXCEPT ![c] = [runner[c] EXCEPT !.pc = "ran"]]
    /\ effects' = [effects EXCEPT ![runner[c].op] = @ + 1]
    /\ UNCHANGED <<durable, up, record, held, req>>

\* A runner whose commit was refused, or its reply lost, may try again.
HttpCommit(p, c) ==
    /\ up[p] /\ GetRecord(p, c) # NoRecord
    /\ runner[c].pc = "ran"
    /\ \/ /\ MarkCommitted(p, c, [call |-> c, op |-> runner[c].op])
          /\ \/ runner' = [runner EXCEPT ![c] = NoRunner]
             \/ UNCHANGED runner
       \/ /\ ~CommitEnabled(p, c)
          /\ Cache(p, c, GetRecord(p, c))
          /\ UNCHANGED <<durable, held, runner>>
    /\ UNCHANGED <<up, req, effects>>

\* The runner reports a call it was given, at any point of it.
HttpIndeterminate(p, c) ==
    /\ up[p] /\ GetRecord(p, c) # NoRecord
    /\ runner[c].pc # "idle"
    /\ MarkIndeterminate(p, c)
    /\ UNCHANGED <<up, req, runner, effects>>

\* The runner crashes, gives up, or has nothing more to do.
RunnerStops(c) ==
    /\ runner[c].pc # "idle"
    /\ runner' = [runner EXCEPT ![c] = NoRunner]
    /\ UNCHANGED <<durable, up, record, held, req, effects>>

-----------------------------------------------------------------------------
(* The environment: time, crashes, restarts.                               *)

LeaseExpires(o) ==
    /\ lease[o].live
    /\ lease' = [lease EXCEPT ![o] = [lease[o] EXCEPT !.live = FALSE]]
    /\ UNCHANGED <<status, receipt, callOp, up, record, held, req, runner, effects>>

\* The process dies with its ledger object and the requests it was serving.
Crash(p) ==
    /\ up[p]
    /\ up' = [up EXCEPT ![p] = FALSE]
    /\ record' = [record EXCEPT ![p] = [c \in Call |-> NoRecord]]
    /\ held' = [held EXCEPT ![p] = [c \in Call |-> 0]]
    /\ lease' = [o \in Op |-> IF lease[o].owner = p
                              THEN [lease[o] EXCEPT !.owner = NoProcess] ELSE lease[o]]
    /\ req' = [r \in Request |-> IF req[r].pc # "idle" /\ req[r].proc = p
                                 THEN Idle ELSE req[r]]
    /\ UNCHANGED <<status, receipt, callOp, runner, effects>>

\* build_proxy_gateway makes a new ledger object, which recovers the store.
Start(p) ==
    /\ ~up[p]
    /\ up' = [up EXCEPT ![p] = TRUE]
    /\ RecoverInflightOperations
    /\ UNCHANGED <<record, held, req, runner, effects>>

Init ==
    /\ status = [o \in Op |-> "none"]
    /\ receipt = [o \in Op |-> NoReceipt]
    /\ callOp = [c \in Call |-> NoOp]
    /\ lease = [o \in Op |-> NoLease]
    /\ up = [p \in Process |-> FALSE]
    /\ record = [p \in Process |-> [c \in Call |-> NoRecord]]
    /\ held = [p \in Process |-> [c \in Call |-> 0]]
    /\ req = [r \in Request |-> Idle]
    /\ runner = [c \in Call |-> NoRunner]
    /\ effects = [o \in Op |-> 0]

ExecStep(r) ==
    \/ ExecArrive(r)
    \/ ExecRegister(r)
    \/ ExecCheckReceipt(r)
    \/ ExecCheckIndeterminate(r)
    \/ ExecBlock(r)
    \/ ExecValidate(r)
    \/ ExecReturn(r)

McpStep(r) ==
    \/ McpArrive(r)
    \/ McpCheckIndeterminate(r)
    \/ McpCheckReceipt(r)
    \/ McpRegister(r)
    \/ McpValidate(r)
    \/ McpSubmit(r)
    \/ McpRun(r)
    \/ McpCommit(r)
    \/ McpAcknowledge(r)
    \/ McpFail(r)
    \/ McpReturn(r)

HttpStep(p, c) ==
    \/ HttpSubmit(p, c)
    \/ HttpCommit(p, c)
    \/ HttpIndeterminate(p, c)

Next ==
    \/ \E r \in ExecRequest : ExecStep(r)
    \/ \E r \in McpRequest : McpStep(r)
    \/ \E p \in Process, c \in Call : HttpStep(p, c)
    \/ \E c \in Call : RunnerRuns(c) \/ RunnerStops(c)
    \/ \E o \in Op : LeaseExpires(o)
    \/ \E p \in Process : Crash(p) \/ Start(p)

Spec == Init /\ [][Next]_vars

\* A gateway that died is started again; nothing else is owed to happen.
FairSpec == Spec /\ \A p \in Process : WF_vars(Start(p))

-----------------------------------------------------------------------------
(* Properties.                                                             *)

\* Every variable holds a value of its kind.
TypeOK ==
    /\ status \in [Op -> Status]
    /\ receipt \in [Op -> Receipt \cup {NoReceipt}]
    /\ callOp \in [Call -> Op \cup {NoOp}]
    /\ lease \in [Op -> Lease]
    /\ up \in [Process -> BOOLEAN]
    /\ record \in [Process -> [Call -> Record \cup {NoRecord}]]
    /\ held \in [Process -> [Call -> Nat]]
    /\ req \in [Request -> Serving \cup {Idle}]
    /\ runner \in [Call -> Runner \cup {NoRunner}]
    /\ effects \in [Op -> Nat]

\* The external tool of one operation runs at most once, however many
\* requests, tool-call ids, processes, crashes, lease expiries and lost
\* replies are involved (mark_operation_submitted is the only way to run it).
AtMostOnce == \A o \in Op : effects[o] <= 1

\* Write-ahead: when the tool has run, the database already says that it may
\* have, and never again that the operation can be submitted
\* (SQLiteToolExecutionLedger.mark_submitted, tool_ledger.py:77-78).
WriteAhead ==
    \A o \in Op : effects[o] # 0 => status[o] \notin {"none", "proposed", "validated"}

\* A lease row exists exactly while its operation is SUBMITTED: no transition
\* of the store orphans a lease or leaves a submission without one.
LeaseIffSubmitted == \A o \in Op : lease[o].token # 0 <=> status[o] = "submitted"

\* Whoever was told `committed` or `replayed` finds the receipt in the
\* database, in the first case the one of their own call (mark_committed
\* writes it before MCPProxy replies).
SuccessIsDurable ==
    \A r \in Request :
        /\ req[r].reply = "replayed" => HasReceipt(req[r].op)
        /\ req[r].reply = "committed" =>
                LET o == callOp[req[r].call] IN
                HasReceipt(o) /\ receipt[o].call = req[r].call

\* COMMITTED and its receipt are final: no retry, lost acknowledgement,
\* validation failure or restart changes them.
ReceiptFinal ==
    [][\A o \in Op : status[o] = "committed" =>
            status'[o] = "committed" /\ receipt'[o] = receipt[o]]_vars

\* A submission whose gateway died is eventually taken out of SUBMITTED (to
\* INDETERMINATE, by a restarted ledger's recovery).
DeadSubmissionResolved ==
    \A o \in Op :
        status[o] = "submitted" /\ lease[o].owner = NoProcess ~> status[o] # "submitted"

\* Clients do not reuse a tool-call id for another operation.
UniqueNames == \A c \in Call : \A o1, o2 \in Names[c] : o1 = o2

\* An operation that can still be submitted has not run and nobody has the
\* permission to run it; there is at most one permission, an MCP handler's or
\* a tool runner's, and it is given before the run and used up by it.
OneLicence ==
    \A o \in Op :
        LET handlers == {r \in McpRequest : req[r].pc = "run" /\ req[r].op = o}
            runners == {c \in Call : runner[c].pc = "mayRun" /\ runner[c].op = o}
        IN  /\ \A r, s \in handlers : r = s
            /\ \A c, d \in runners : c = d
            /\ handlers = {} \/ runners = {}
            /\ handlers # {} \/ runners # {} =>
                    effects[o] = 0 /\ status[o] \notin {"none", "proposed", "validated"}

\* A receipt is the outcome of the operation it is filed under, so that only
\* identical calls are answered with it (check_idempotency).
ReceiptOfThisOperation ==
    \A o \in Op : receipt[o] # NoReceipt => receipt[o].op = o

=============================================================================
