------------------------ MODULE DurableToolLedgerProofs ------------------------
(***************************************************************************)
(* Theorems about DurableToolLedger, for every set of processes, calls,    *)
(* operations and requests.                                                *)
(***************************************************************************)
EXTENDS DurableToolLedger, TLAPS

LEMMA RequestTypes ==
    ASSUME TypeOK, NEW r \in Request, req[r].pc # "idle"
    PROVE  /\ req[r] \in Serving
           /\ req[r].proc \in Process
           /\ req[r].op \in Op
           /\ req[r].call \in Call
           /\ req[r].reply \in Reply
BY DEF TypeOK, Idle, Serving

LEMMA GetRecordType ==
    ASSUME TypeOK, NEW p \in Process, NEW c \in Call
    PROVE  /\ GetRecord(p, c) \in Record \cup {NoRecord}
           /\ GetRecord(p, c) = NoRecord <=> record[p][c] = NoRecord /\ callOp[c] = NoOp
<1>1. CASE record[p][c] = NoRecord /\ callOp[c] # NoOp
  <2>1. callOp[c] \in Op
    BY <1>1 DEF TypeOK
  <2>2. [args |-> callOp[c].args, open |-> IsOpen(status[callOp[c]])] \in Record
    BY <2>1 DEF Op, Record, IsOpen
  <2> QED BY <1>1, <2>2, ConstantsAssumption DEF GetRecord
<1>2. CASE ~(record[p][c] = NoRecord /\ callOp[c] # NoOp)
  <2>1. GetRecord(p, c) = record[p][c]
    BY <1>2 DEF GetRecord
  <2> QED BY <1>2, <2>1 DEF TypeOK
<1> QED BY <1>1, <1>2

LEMMA CacheType ==
    ASSUME TypeOK, NEW p \in Process, NEW c \in Call, NEW rec \in Record \cup {NoRecord},
           Cache(p, c, rec)
    PROVE  record' \in [Process -> [Call -> Record \cup {NoRecord}]]
BY DEF TypeOK, Cache

LEMMA RecordUpdateType ==
    ASSUME NEW g \in Record, NEW b \in BOOLEAN
    PROVE  [g EXCEPT !.open = b] \in Record
BY DEF Record

LEMMA CacheStatusType ==
    ASSUME TypeOK, NEW p \in Process, NEW c \in Call, NEW s, CacheStatus(p, c, s)
    PROVE  record' \in [Process -> [Call -> Record \cup {NoRecord}]]
<1>1. CASE GetRecord(p, c) = NoRecord
  BY <1>1 DEF CacheStatus, TypeOK
<1>2. CASE GetRecord(p, c) # NoRecord
  <2>1. [GetRecord(p, c) EXCEPT !.open = IsOpen(s)] \in Record
    BY <1>2, GetRecordType, RecordUpdateType, IsOpen(s) \in BOOLEAN, Zenon DEF IsOpen
  <2> QED BY <1>2, <2>1, CacheType DEF CacheStatus
<1> QED BY <1>1, <1>2

LEMMA RememberLeaseType ==
    ASSUME TypeOK, NEW p \in Process, NEW c \in Call, NEW t \in Nat,
           RememberLease(p, c, t)
    PROVE  held' \in [Process -> [Call -> Nat]]
BY DEF TypeOK, RememberLease

LEMMA MarkReplayedType ==
    ASSUME TypeOK, NEW p \in Process, NEW c \in Call, MarkReplayed(p, c)
    PROVE  record' \in [Process -> [Call -> Record \cup {NoRecord}]]
<1>1. CASE record[p][c] = NoRecord
  BY <1>1 DEF MarkReplayed, TypeOK
<1>2. CASE record[p][c] # NoRecord
  <2>1. record[p][c] \in Record
    BY <1>2 DEF TypeOK
  <2>2. [record[p][c] EXCEPT !.open = FALSE] \in Record
    BY <2>1, Zenon DEF Record
  <2> QED BY <1>2, <2>2, CacheType DEF MarkReplayed
<1> QED BY <1>1, <1>2

LEMMA GotoType ==
    ASSUME TypeOK, NEW r \in Request, req[r].pc # "idle", NEW pc \in PC \ {"idle"},
           NEW reply \in Reply, NEW ran \in BOOLEAN,
           \/ Goto(r, pc)
           \/ Finish(r, reply)
           \/ req' = [req EXCEPT ![r] = [req[r] EXCEPT !.pc = pc, !.reply = reply]]
           \/ req' = [req EXCEPT ![r] = [req[r] EXCEPT !.pc = pc, !.ran = ran]]
    PROVE  req' \in [Request -> Serving \cup {Idle}]
<1>1. /\ [req[r] EXCEPT !.pc = pc] \in Serving
      /\ [req[r] EXCEPT !.pc = "done", !.reply = reply] \in Serving
      /\ [req[r] EXCEPT !.pc = pc, !.reply = reply] \in Serving
      /\ [req[r] EXCEPT !.pc = pc, !.ran = ran] \in Serving
  BY RequestTypes, ZenonT(30) DEF Serving, PC
<1> QED BY <1>1, Zenon DEF TypeOK, Goto, Finish

-----------------------------------------------------------------------------
(* What each transaction of the store leaves in the database.              *)

DurableTypes ==
    /\ status \in [Op -> Status]
    /\ receipt \in [Op -> Receipt \cup {NoReceipt}]
    /\ callOp \in [Call -> Op \cup {NoOp}]
    /\ lease \in [Op -> Lease]

LEMMA GrantedLeaseType ==
    ASSUME TypeOK, NEW p \in Process, NEW o \in Op
    PROVE  GrantedLease(o, p) \in Lease
<1>1. /\ lease[o] \in Lease
      /\ lease[o].token \in Nat
      /\ p \in Owner
  BY DEF TypeOK, Lease, Owner
<1>2. [lease[o] EXCEPT !.live = TRUE] \in Lease
  BY <1>1, Zenon DEF Lease
<1>3. /\ [owner |-> p, token |-> 1, live |-> TRUE] \in Lease
      /\ [owner |-> p, token |-> lease[o].token + 1, live |-> TRUE] \in Lease
  BY <1>1 DEF Lease
<1> QED BY <1>2, <1>3 DEF GrantedLease

LEMMA NoLeaseType == NoLease \in Lease
BY DEF NoLease, Lease, Owner

LEMMA UpdatedKeyType ==
    ASSUME TypeOK, NEW p \in Process, NEW o \in Op, NEW c \in Call
    PROVE  KeyToPrepare(p, o, c) \in Op
<1>1. CASE record[p][c] = NoRecord
  BY <1>1 DEF KeyToPrepare
<1>2. CASE record[p][c] # NoRecord
  <2>1. record[p][c] \in Record
    BY <1>2 DEF TypeOK
  <2> QED BY <1>2, <2>1 DEF KeyToPrepare, Record, Op
<1> QED BY <1>1, <1>2

LEMMA RegisterTypes ==
    ASSUME TypeOK, NEW p \in Process, NEW o \in Op, NEW c \in Call,
           RegisterToolCall(p, o, c) \/ RegisterRefused(p, o, c)
    PROVE  /\ DurableTypes'
           /\ record' \in [Process -> [Call -> Record \cup {NoRecord}]]
           /\ held' = held
<1> DEFINE k == KeyToPrepare(p, o, c)
<1>k. k \in Op /\ k.args \in Argument
  BY UpdatedKeyType DEF Op
<1>1. CASE RegisterToolCall(p, o, c)
  <2>1. DurableTypes'
    BY <1>1, <1>k DEF RegisterToolCall, Prepare, TypeOK, DurableTypes, Status
  <2>2. [args |-> k.args, open |-> IsOpen(status'[k])] \in Record
    BY <1>k DEF Record, IsOpen
  <2> QED BY <1>1, <2>1, <2>2, CacheType DEF RegisterToolCall
<1>2. CASE RegisterRefused(p, o, c)
  <2>1. [args |-> k.args, open |-> TRUE] \in Record
    BY <1>k DEF Record
  <2>2. record' \in [Process -> [Call -> Record \cup {NoRecord}]]
    BY <1>2, <2>1, CacheType DEF RegisterRefused, TypeOK
  <2> QED BY <1>2, <2>2 DEF RegisterRefused, TypeOK, DurableTypes, durable
<1> QED BY <1>1, <1>2

LEMMA MarkTypes ==
    ASSUME TypeOK, NEW p \in Process, NEW c \in Call, NEW output \in Receipt,
           \/ MarkValidated(p, c)
           \/ MarkSubmitted(p, c)
           \/ MarkCommitted(p, c, output)
           \/ MarkIndeterminate(p, c)
           \/ MarkFailed(p, c)
    PROVE  /\ DurableTypes'
           /\ record' \in [Process -> [Call -> Record \cup {NoRecord}]]
           /\ held' \in [Process -> [Call -> Nat]]
<1> USE DEF DurableTypes
<1>1. CASE MarkValidated(p, c)
  <2>1. DurableTypes'
    BY <1>1, ZenonT(30) DEF MarkValidated, MarkOperationValidated, TypeOK, Status, durable
  <2> QED BY <1>1, <2>1, GetRecordType, CacheType DEF MarkValidated, TypeOK
<1>2. CASE MarkSubmitted(p, c)
  <2>1. callOp[c] \in Op
    BY <1>2 DEF MarkSubmitted, CanSubmit, TypeOK
  <2>2. GrantedLease(callOp[c], p) \in Lease
    BY <2>1, GrantedLeaseType
  <2>3. GrantedLease(callOp[c], p).token \in Nat
    BY <2>2 DEF Lease
  <2>4. DurableTypes'
    BY <1>2, <2>1, <2>2 DEF MarkSubmitted, MarkOperationSubmitted, TypeOK, Status
  <2> QED BY <1>2, <2>3, <2>4, CacheStatusType, RememberLeaseType DEF MarkSubmitted
<1>3. CASE MarkCommitted(p, c, output)
  <2>1. DurableTypes'
    BY <1>3, NoLeaseType, Zenon DEF MarkCommitted, MarkOperationCommitted, TypeOK, Status
  <2> QED BY <1>3, <2>1, CacheStatusType, RememberLeaseType DEF MarkCommitted
<1>4. CASE MarkIndeterminate(p, c)
  <2>1. DurableTypes'
    <3>1. CASE status[callOp[c]] # "committed"
      BY <1>4, <3>1, NoLeaseType, Zenon DEF MarkIndeterminate, MarkOperationIndeterminate, TypeOK, Status
    <3>2. CASE status[callOp[c]] = "committed"
      BY <1>4, <3>2 DEF MarkIndeterminate, MarkOperationIndeterminate, TypeOK
    <3> QED BY <3>1, <3>2
  <2> QED BY <1>4, <2>1, CacheStatusType, RememberLeaseType DEF MarkIndeterminate
<1>5. CASE MarkFailed(p, c)
  <2>1. DurableTypes'
    BY <1>5, Zenon DEF MarkFailed, MarkOperationFailed, TypeOK, Status
  <2> QED BY <1>5, <2>1, CacheStatusType DEF MarkFailed, TypeOK
<1> QED BY <1>1, <1>2, <1>3, <1>4, <1>5

-----------------------------------------------------------------------------

LEMMA ArriveType ==
    ASSUME TypeOK, NEW r \in Request, NEW pc \in PC \ {"idle"}, Arrive(r, pc)
    PROVE  TypeOK'
<1>1. PICK p \in Process, c \in Call : \E o \in Names[c] :
        req' = [req EXCEPT ![r] = [pc |-> pc, proc |-> p, op |-> o, call |-> c,
                                   ran |-> FALSE, reply |-> "none"]]
  BY Zenon DEF Arrive
<1>2. PICK o \in Names[c] :
        req' = [req EXCEPT ![r] = [pc |-> pc, proc |-> p, op |-> o, call |-> c,
                                   ran |-> FALSE, reply |-> "none"]]
  BY <1>1, Zenon
<1>3. o \in Op
  BY ConstantsAssumption
<1>4. [pc |-> pc, proc |-> p, op |-> o, call |-> c, ran |-> FALSE, reply |-> "none"] \in Serving
  BY <1>3 DEF Serving, Reply
<1> QED BY <1>2, <1>4, Zenon DEF Arrive, TypeOK, durable

LEMMA ReturnType ==
    ASSUME TypeOK, NEW r \in Request, req' = [req EXCEPT ![r] = Idle]
    PROVE  req' \in [Request -> Serving \cup {Idle}]
BY DEF TypeOK

LEMMA RequestsAreOfAKind ==
    /\ \A r \in ExecRequest : r \in Request
    /\ \A r \in McpRequest : r \in Request
BY DEF Request

\* Every step of an exec request keeps the types.
LEMMA ExecType ==
    ASSUME TypeOK, NEW r \in ExecRequest, ExecStep(r)
    PROVE  TypeOK'
<1> DEFINE p == req[r].proc
           o == req[r].op
           c == req[r].call
<1> r \in Request
  BY RequestsAreOfAKind
<1>1. CASE ExecArrive(r)
  BY <1>1, ArriveType DEF ExecArrive, PC
<1>2. CASE ExecRegister(r)
  <2>1. p \in Process /\ o \in Op /\ c \in Call
    BY <1>2, RequestTypes, SMTT(20) DEF ExecRegister
  <2>2. req' \in [Request -> Serving \cup {Idle}]
    BY <1>2, GotoType, Zenon DEF ExecRegister, PC, Reply
  <2> QED BY <1>2, <2>1, <2>2, RegisterTypes DEF ExecRegister, TypeOK, DurableTypes
<1>3. CASE ExecCheckReceipt(r)
  <2>1. p \in Process /\ c \in Call
    BY <1>3, RequestTypes, SMTT(20) DEF ExecCheckReceipt
  <2>2. req' \in [Request -> Serving \cup {Idle}]
    BY <1>3, GotoType, Zenon DEF ExecCheckReceipt, PC, Reply
  <2>3. record' \in [Process -> [Call -> Record \cup {NoRecord}]]
    BY <1>3, <2>1, MarkReplayedType DEF ExecCheckReceipt, TypeOK
  <2> QED BY <1>3, <2>2, <2>3 DEF ExecCheckReceipt, TypeOK, durable
<1>4. CASE ExecCheckIndeterminate(r)
  <2>2. req' \in [Request -> Serving \cup {Idle}]
    <3>1. PICK pc \in PC \ {"idle"} : Goto(r, pc)
      BY <1>4 DEF ExecCheckIndeterminate, PC
    <3> QED BY <1>4, <3>1, GotoType, Zenon DEF ExecCheckIndeterminate, Reply
  <2> QED BY <1>4, <2>2, SMTT(20) DEF ExecCheckIndeterminate, TypeOK, durable
<1>5. CASE ExecBlock(r)
  <2>1. p \in Process /\ c \in Call /\ [call |-> c, op |-> o] \in Receipt
    BY <1>5, RequestTypes, SMTT(20) DEF ExecBlock, Receipt
  <2>2. req' \in [Request -> Serving \cup {Idle}]
    BY <1>5, GotoType, Zenon DEF ExecBlock, PC, Reply
  <2> QED BY <1>5, <2>1, <2>2, MarkTypes DEF ExecBlock, TypeOK, DurableTypes
<1>6. CASE ExecValidate(r)
  <2>1. p \in Process /\ c \in Call /\ [call |-> c, op |-> o] \in Receipt
    BY <1>6, RequestTypes, SMTT(20) DEF ExecValidate, Receipt
  <2>2. req' \in [Request -> Serving \cup {Idle}]
    <3>1. PICK reply \in Reply : Finish(r, reply)
      BY <1>6 DEF ExecValidate, Reply
    <3> QED BY <1>6, <3>1, GotoType, Zenon DEF ExecValidate, PC
  <2> QED BY <1>6, <2>1, <2>2, MarkTypes DEF ExecValidate, TypeOK, DurableTypes
<1>7. CASE ExecReturn(r)
  <2>1. o \in Op /\ c \in Call
    BY <1>7, RequestTypes DEF ExecReturn
  <2>2. [pc |-> "asked", op |-> o] \in Runner
    BY <2>1 DEF Runner
  <2>3. runner' \in [Call -> Runner \cup {NoRunner}]
    <3>1. runner' = runner \/ runner' = [runner EXCEPT ![c] = [pc |-> "asked", op |-> o]]
      BY <1>7 DEF ExecReturn
    <3> QED BY <2>1, <2>2, <3>1 DEF TypeOK
  <2> QED BY <1>7, <2>3, ReturnType DEF ExecReturn, TypeOK, durable
<1> QED BY <1>1, <1>2, <1>3, <1>4, <1>5, <1>6, <1>7 DEF ExecStep

\* Every step of an MCP request keeps the types.
LEMMA McpType ==
    ASSUME TypeOK, NEW r \in McpRequest, McpStep(r)
    PROVE  TypeOK'
<1> DEFINE p == req[r].proc
           o == req[r].op
           c == req[r].call
<1> r \in Request
  BY RequestsAreOfAKind
<1>a. ASSUME req[r].pc # "idle"
      PROVE  p \in Process /\ o \in Op /\ c \in Call /\ [call |-> c, op |-> o] \in Receipt
  BY <1>a, RequestTypes DEF Receipt
<1>1. CASE McpArrive(r)
  BY <1>1, ArriveType DEF McpArrive, PC
<1>2. CASE McpCheckIndeterminate(r)
  <2>1. req' \in [Request -> Serving \cup {Idle}]
    BY <1>2, GotoType, Zenon DEF McpCheckIndeterminate, PC, Reply
  <2> QED BY <1>2, <2>1, SMTT(20) DEF McpCheckIndeterminate, TypeOK, durable
<1>3. CASE McpCheckReceipt(r)
  <2>1. req' \in [Request -> Serving \cup {Idle}]
    BY <1>3, GotoType, Zenon DEF McpCheckReceipt, PC, Reply
  <2>2. record' \in [Process -> [Call -> Record \cup {NoRecord}]]
    BY <1>3, <1>a, MarkReplayedType DEF McpCheckReceipt, TypeOK
  <2> QED BY <1>3, <2>1, <2>2, SMTT(20) DEF McpCheckReceipt, TypeOK, durable
<1>4. CASE McpRegister(r)
  <2>1. req' \in [Request -> Serving \cup {Idle}]
    BY <1>4, GotoType, Zenon DEF McpRegister, PC, Reply
  <2> QED BY <1>4, <1>a, <2>1, RegisterTypes, SMTT(20) DEF McpRegister, TypeOK, DurableTypes
<1>5. CASE McpValidate(r)
  <2>1. req' \in [Request -> Serving \cup {Idle}]
    BY <1>5, GotoType, Zenon DEF McpValidate, PC, Reply
  <2> QED BY <1>5, <1>a, <2>1, MarkTypes, SMTT(20) DEF McpValidate, TypeOK, DurableTypes
<1>6. CASE McpSubmit(r)
  <2>1. req' \in [Request -> Serving \cup {Idle}]
    BY <1>6, GotoType, Zenon DEF McpSubmit, PC, Reply
  <2>2. CASE UNCHANGED <<durable, record, held>>
    BY <1>6, <2>1, <2>2 DEF McpSubmit, TypeOK, durable
  <2>3. CASE ~UNCHANGED <<durable, record, held>>
    BY <1>6, <1>a, <2>1, <2>3, MarkTypes DEF McpSubmit, TypeOK, DurableTypes
  <2> QED BY <2>2, <2>3, SMTT(20)
<1>7. CASE McpRun(r)
  <2>1. req' \in [Request -> Serving \cup {Idle}]
    <3>1. PICK ran \in BOOLEAN, pc \in PC \ {"idle"} :
            req' = [req EXCEPT ![r] = [req[r] EXCEPT !.pc = pc, !.ran = ran]]
      BY <1>7, ZenonT(30) DEF McpRun, PC
    <3> QED BY <1>7, <3>1, GotoType, ZenonT(30) DEF McpRun, Reply
  <2>2. effects' \in [Op -> Nat]
    BY <1>7, <1>a DEF McpRun, TypeOK
  <2> QED BY <1>7, <2>1, <2>2, SMTT(20) DEF McpRun, TypeOK, durable
<1>8. CASE McpCommit(r)
  <2>1. req' \in [Request -> Serving \cup {Idle}]
    BY <1>8, GotoType, Zenon DEF McpCommit, PC, Reply
  <2>2. CASE UNCHANGED <<durable, record, held>>
    BY <1>8, <2>1, <2>2 DEF McpCommit, TypeOK, durable
  <2>3. CASE ~UNCHANGED <<durable, record, held>>
    BY <1>8, <1>a, <2>1, <2>3, MarkTypes, SMTT(20) DEF McpCommit, TypeOK, DurableTypes
  <2> QED BY <2>2, <2>3, Zenon
<1>9. CASE McpAcknowledge(r)
  <2>1. req' \in [Request -> Serving \cup {Idle}]
    BY <1>9, GotoType, Zenon DEF McpAcknowledge, PC, Reply
  <2>2. CASE UNCHANGED <<durable, record, held>>
    BY <1>9, <2>1, <2>2 DEF McpAcknowledge, TypeOK, durable
  <2>3. CASE ~UNCHANGED <<durable, record, held>>
    BY <1>9, <1>a, <2>1, <2>3, MarkTypes DEF McpAcknowledge, TypeOK, DurableTypes
  <2> QED BY <2>2, <2>3, Zenon
<1>10. CASE McpFail(r)
  <2>1. req' \in [Request -> Serving \cup {Idle}]
    BY <1>10, GotoType, Zenon DEF McpFail, PC, Reply
  <2> QED BY <1>10, <1>a, <2>1, MarkTypes, SMTT(20) DEF McpFail, TypeOK, DurableTypes
<1>11. CASE McpReturn(r)
  BY <1>11, ReturnType DEF McpReturn, TypeOK, durable
<1> QED BY <1>1, <1>2, <1>3, <1>4, <1>5, <1>6, <1>7, <1>8, <1>9, <1>10, <1>11 DEF McpStep

\* Every step of a tool runner keeps the types.
LEMMA HttpType ==
    ASSUME TypeOK, NEW p \in Process, NEW c \in Call, HttpStep(p, c)
    PROVE  TypeOK'
<1>a. /\ GetRecord(p, c) \in Record \cup {NoRecord}
      /\ runner[c].pc # "idle"
      /\ runner[c] \in Runner
  BY GetRecordType DEF HttpStep, HttpSubmit, HttpCommit, HttpIndeterminate, TypeOK, NoRunner
<1>b. [call |-> c, op |-> runner[c].op] \in Receipt
  BY <1>a DEF Runner, Receipt
<1>1. CASE HttpSubmit(p, c)
  <2>1. [runner[c] EXCEPT !.pc = "mayRun"] \in Runner
    BY <1>a DEF Runner
  <2>2. runner' \in [Call -> Runner \cup {NoRunner}]
    BY <1>1, <2>1, ZenonT(30) DEF HttpSubmit, TypeOK
  <2>3. CASE MarkSubmitted(p, c)
    BY <1>1, <1>b, <2>2, <2>3, MarkTypes DEF HttpSubmit, TypeOK, DurableTypes
  <2>4. CASE ~MarkSubmitted(p, c)
    BY <1>1, <1>a, <2>2, <2>4, CacheType DEF HttpSubmit, TypeOK, durable
  <2> QED BY <2>3, <2>4
<1>2. CASE HttpCommit(p, c)
  <2> DEFINE output == [call |-> c, op |-> runner[c].op]
  <2>2. runner' \in [Call -> Runner \cup {NoRunner}]
    BY <1>2, Zenon DEF HttpCommit, TypeOK
  <2>3. CASE MarkCommitted(p, c, output)
    BY <1>2, <1>b, <2>2, <2>3, MarkTypes DEF HttpCommit, TypeOK, DurableTypes
  <2>4. CASE ~MarkCommitted(p, c, output)
    BY <1>2, <1>a, <2>2, <2>4, CacheType DEF HttpCommit, TypeOK, durable
  <2> QED BY <2>3, <2>4
<1>3. CASE HttpIndeterminate(p, c)
  BY <1>3, <1>b, MarkTypes DEF HttpIndeterminate, TypeOK, DurableTypes
<1> QED BY <1>1, <1>2, <1>3 DEF HttpStep

LEMMA EnvironmentType ==
    ASSUME TypeOK,
           \/ \E c \in Call : RunnerRuns(c) \/ RunnerStops(c)
           \/ \E o \in Op : LeaseExpires(o)
           \/ \E p \in Process : Crash(p) \/ Start(p)
    PROVE  TypeOK'
<1>1. ASSUME NEW c \in Call, RunnerRuns(c)
      PROVE  TypeOK'
  <2>1. runner[c] \in Runner
    BY <1>1 DEF RunnerRuns, TypeOK, NoRunner
  <2>2. [runner[c] EXCEPT !.pc = "ran"] \in Runner /\ runner[c].op \in Op
    BY <2>1 DEF Runner
  <2> QED BY <1>1, <2>2 DEF RunnerRuns, TypeOK, durable
<1>2. ASSUME NEW c \in Call, RunnerStops(c)
      PROVE  TypeOK'
  BY <1>2 DEF RunnerStops, TypeOK, durable
<1>3. ASSUME NEW o \in Op, LeaseExpires(o)
      PROVE  TypeOK'
  <2>1. [lease[o] EXCEPT !.live = FALSE] \in Lease
    BY ZenonT(30) DEF TypeOK, Lease
  <2> QED BY <1>3, <2>1 DEF LeaseExpires, TypeOK
<1>4. ASSUME NEW p \in Process, Crash(p)
      PROVE  TypeOK'
  <2>1. \A o \in Op : [lease[o] EXCEPT !.owner = NoProcess] \in Lease
    BY ZenonT(30) DEF TypeOK, Lease, Owner
  <2>2. lease' \in [Op -> Lease]
    BY <1>4, <2>1 DEF Crash, TypeOK
  <2>3. req' \in [Request -> Serving \cup {Idle}]
    BY <1>4 DEF Crash, TypeOK
  <2> QED BY <1>4, <2>2, <2>3 DEF Crash, TypeOK
<1>5. ASSUME NEW p \in Process, Start(p)
      PROVE  TypeOK'
  BY <1>5, NoLeaseType DEF Start, RecoverInflightOperations, TypeOK, Status
<1> QED BY <1>1, <1>2, <1>3, <1>4, <1>5

LEMMA TypeInductive == TypeOK /\ [Next]_vars => TypeOK'
<1> SUFFICES ASSUME TypeOK, [Next]_vars
             PROVE  TypeOK'
  OBVIOUS
<1>1. CASE UNCHANGED vars
  BY <1>1 DEF vars, TypeOK
<1>2. CASE Next
  BY <1>2, ExecType, McpType, HttpType, EnvironmentType DEF Next
<1> QED BY <1>1, <1>2

LEMMA InitType == Init => TypeOK
BY NoLeaseType DEF Init, TypeOK, Status

\* Every variable of the ledger always holds a value of its kind.
THEOREM TypeCorrectness == Spec => []TypeOK
<1>1. Init => TypeOK
  BY InitType
<1>2. TypeOK /\ [Next]_vars => TypeOK'
  BY TypeInductive
<1> QED BY <1>1, <1>2, PTL DEF Spec

-----------------------------------------------------------------------------
(* What every step does to the row of an operation, and what follows: a    *)
(* receipt is final and a lease exists exactly for a SUBMITTED operation.  *)

\* The states from which mark_operation_submitted lets an operation run.
Unsubmitted == {"none", "proposed", "validated"}

\* What a step may do to the rows: COMMITTED and its receipt stay, no
\* operation becomes submittable again, a lease lives with its submission.
RowStep ==
    \A o \in Op :
        /\ status[o] = "committed" => status'[o] = "committed" /\ receipt'[o] = receipt[o]
        /\ status[o] \notin Unsubmitted => status'[o] \notin Unsubmitted
        /\ lease'[o].token # 0 <=> status'[o] = "submitted"

\* A tool call stays bound to its operation.
BindingStep == \A c \in Call : callOp[c] # NoOp => callOp'[c] = callOp[c]

LEMMA UnchangedRows ==
    ASSUME TypeOK, LeaseIffSubmitted, UNCHANGED durable
    PROVE  RowStep /\ BindingStep
BY DEF LeaseIffSubmitted, RowStep, BindingStep, durable

LEMMA GrantedToken ==
    ASSUME TypeOK, NEW p \in Process, NEW o \in Op
    PROVE  GrantedLease(o, p).token # 0
<1>1. lease[o].token \in Nat
  BY DEF TypeOK, Lease
<1> QED BY <1>1 DEF GrantedLease

LEMMA RegisterRows ==
    ASSUME TypeOK, LeaseIffSubmitted, NEW p \in Process, NEW o \in Op, NEW c \in Call,
           RegisterToolCall(p, o, c) \/ RegisterRefused(p, o, c)
    PROVE  RowStep /\ BindingStep
<1> DEFINE k == KeyToPrepare(p, o, c)
<1>1. CASE RegisterToolCall(p, o, c)
  <2>1. k \in Op /\ CanPrepare(k, c) /\ Prepare(k, c)
    BY <1>1, UpdatedKeyType DEF RegisterToolCall
  <2> HIDE DEF k
  <2>2. RowStep
    BY <2>1 DEF Prepare, RowStep, Unsubmitted, TypeOK, LeaseIffSubmitted
  <2>3. BindingStep
    BY <2>1 DEF Prepare, CanPrepare, BindingStep, TypeOK
  <2> QED BY <2>2, <2>3, Zenon
<1>2. CASE RegisterRefused(p, o, c)
  BY <1>2, UnchangedRows DEF RegisterRefused
<1> QED BY <1>1, <1>2

LEMMA MarkRows ==
    ASSUME TypeOK, LeaseIffSubmitted, NEW p \in Process, NEW c \in Call, NEW output,
           \/ MarkValidated(p, c)
           \/ MarkSubmitted(p, c)
           \/ MarkCommitted(p, c, output)
           \/ MarkIndeterminate(p, c)
           \/ MarkFailed(p, c)
    PROVE  RowStep /\ BindingStep
<1> USE DEF RowStep, BindingStep, Unsubmitted
<1>1. CASE MarkValidated(p, c)
  <2>1. CASE MarkOperationValidated(callOp[c])
    BY <2>1 DEF MarkOperationValidated, TypeOK, LeaseIffSubmitted
  <2>2. CASE UNCHANGED durable
    BY <2>2, UnchangedRows
  <2> QED BY <1>1, <2>1, <2>2 DEF MarkValidated
<1>2. CASE MarkSubmitted(p, c)
  <2>1. callOp[c] \in Op
    BY <1>2 DEF MarkSubmitted, CanSubmit, TypeOK
  <2>2. GrantedLease(callOp[c], p).token # 0
    BY <2>1, GrantedToken
  <2> QED BY <1>2, <2>1, <2>2
          DEF MarkSubmitted, CanSubmit, MarkOperationSubmitted, TypeOK, LeaseIffSubmitted
<1>3. CASE MarkCommitted(p, c, output)
  BY <1>3 DEF MarkCommitted, CommitEnabled, CanCommit, MarkOperationCommitted, TypeOK,
              LeaseIffSubmitted, NoLease
<1>4. CASE MarkIndeterminate(p, c)
  <2>1. CASE status[callOp[c]] # "committed"
    <3>1. /\ status' = [status EXCEPT ![callOp[c]] = "indeterminate"]
          /\ lease' = [lease EXCEPT ![callOp[c]] = NoLease]
          /\ UNCHANGED <<receipt, callOp>>
      BY <1>4, <2>1, Zenon DEF MarkIndeterminate, MarkOperationIndeterminate
    <3> QED BY <2>1, <3>1 DEF TypeOK, LeaseIffSubmitted, NoLease
  <2>2. CASE status[callOp[c]] = "committed"
    BY <1>4, <2>2, Zenon DEF MarkIndeterminate, MarkOperationIndeterminate, LeaseIffSubmitted
  <2> QED BY <2>1, <2>2, Zenon
<1>5. CASE MarkFailed(p, c)
  BY <1>5 DEF MarkFailed, MarkOperationFailed, TypeOK, LeaseIffSubmitted
<1> QED BY <1>1, <1>2, <1>3, <1>4, <1>5, Zenon

LEMMA StepRows ==
    ASSUME TypeOK, LeaseIffSubmitted, [Next]_vars
    PROVE  RowStep /\ BindingStep
<1>a. ASSUME NEW r \in Request, req[r].pc # "idle"
      PROVE  req[r].proc \in Process /\ req[r].op \in Op /\ req[r].call \in Call
  BY <1>a, RequestTypes
<1>1. CASE UNCHANGED vars
  BY <1>1, UnchangedRows DEF vars, durable
<1>2. ASSUME NEW r \in ExecRequest, ExecStep(r)
      PROVE  RowStep /\ BindingStep
  <2> r \in Request
    BY RequestsAreOfAKind
  <2>1. CASE ExecRegister(r)
    BY <1>a, <2>1, RegisterRows DEF ExecRegister
  <2>2. CASE ExecBlock(r) \/ ExecValidate(r)
    BY <1>a, <2>2, MarkRows, Zenon DEF ExecBlock, ExecValidate
  <2>3. CASE ExecArrive(r) \/ ExecCheckReceipt(r) \/ ExecCheckIndeterminate(r) \/ ExecReturn(r)
    BY <2>3, UnchangedRows
       DEF ExecArrive, Arrive, ExecCheckReceipt, ExecCheckIndeterminate, ExecReturn
  <2> QED BY <1>2, <2>1, <2>2, <2>3 DEF ExecStep
<1>3. ASSUME NEW r \in McpRequest, McpStep(r)
      PROVE  RowStep /\ BindingStep
  <2> r \in Request
    BY RequestsAreOfAKind
  <2>1. CASE McpRegister(r)
    BY <1>a, <2>1, RegisterRows DEF McpRegister
  <2>2. CASE McpValidate(r) \/ McpFail(r)
    BY <1>a, <2>2, MarkRows, Zenon DEF McpValidate, McpFail
  <2>3. CASE McpSubmit(r)
    BY <1>a, <2>3, MarkRows, UnchangedRows, Zenon DEF McpSubmit
  <2>4. CASE McpCommit(r)
    BY <1>a, <2>4, MarkRows, UnchangedRows, Zenon DEF McpCommit
  <2>5. CASE McpAcknowledge(r)
    BY <1>a, <2>5, MarkRows, UnchangedRows DEF McpAcknowledge
  <2>6. CASE McpArrive(r) \/ McpCheckIndeterminate(r) \/ McpCheckReceipt(r) \/ McpRun(r) \/ McpReturn(r)
    BY <2>6, UnchangedRows, Zenon
       DEF McpArrive, Arrive, McpCheckIndeterminate, McpCheckReceipt, McpRun, McpReturn
  <2> QED BY <1>3, <2>1, <2>2, <2>3, <2>4, <2>5, <2>6 DEF McpStep
<1>4. ASSUME NEW p \in Process, NEW c \in Call, HttpStep(p, c)
      PROVE  RowStep /\ BindingStep
  <2>1. CASE HttpSubmit(p, c)
    BY <2>1, MarkRows, UnchangedRows DEF HttpSubmit
  <2>2. CASE HttpCommit(p, c)
    BY <2>2, MarkRows, UnchangedRows DEF HttpCommit
  <2>3. CASE HttpIndeterminate(p, c)
    BY <2>3, MarkRows DEF HttpIndeterminate
  <2> QED BY <1>4, <2>1, <2>2, <2>3 DEF HttpStep
<1>5. ASSUME NEW c \in Call, RunnerRuns(c) \/ RunnerStops(c)
      PROVE  RowStep /\ BindingStep
  BY <1>5, UnchangedRows DEF RunnerRuns, RunnerStops
<1>6. ASSUME NEW o \in Op, LeaseExpires(o)
      PROVE  RowStep /\ BindingStep
  <2>1. \A x \in Op : lease'[x].token = lease[x].token
    BY <1>6 DEF LeaseExpires, TypeOK, Lease
  <2> QED BY <1>6, <2>1 DEF LeaseExpires, RowStep, BindingStep, LeaseIffSubmitted
<1>7. ASSUME NEW p \in Process, Crash(p)
      PROVE  RowStep /\ BindingStep
  <2>1. \A x \in Op : lease'[x].token = lease[x].token
    BY <1>7 DEF Crash, TypeOK, Lease
  <2> QED BY <1>7, <2>1 DEF Crash, RowStep, BindingStep, LeaseIffSubmitted
<1>8. ASSUME NEW p \in Process, Start(p)
      PROVE  RowStep /\ BindingStep
  <2>1. RecoverInflightOperations
    BY <1>8, Zenon DEF Start
  <2> QED BY <2>1 DEF RecoverInflightOperations, RowStep, BindingStep, Unsubmitted, TypeOK,
                      LeaseIffSubmitted, NoLease
<1> QED BY <1>1, <1>2, <1>3, <1>4, <1>5, <1>6, <1>7, <1>8 DEF Next

LEMMA LeaseInductive ==
    TypeOK /\ LeaseIffSubmitted /\ [Next]_vars => LeaseIffSubmitted'
BY StepRows DEF RowStep, LeaseIffSubmitted

\* The store keeps a lease row for an operation exactly while it is
\* SUBMITTED, whatever the interleaving of processes, crashes and restarts.
THEOREM LeaseMatchesSubmission == Spec => []LeaseIffSubmitted
<1>1. Init => LeaseIffSubmitted
  BY DEF Init, LeaseIffSubmitted, NoLease
<1>2. TypeOK /\ LeaseIffSubmitted /\ [Next]_vars => LeaseIffSubmitted'
  BY LeaseInductive
<1> QED BY <1>1, <1>2, TypeCorrectness, PTL DEF Spec

\* No step of any process changes a COMMITTED operation or its receipt.
THEOREM CommittedIsFinal == Spec => ReceiptFinal
<1>1. TypeOK /\ LeaseIffSubmitted /\ [Next]_vars =>
        [\A o \in Op : status[o] = "committed" =>
            status'[o] = "committed" /\ receipt'[o] = receipt[o]]_vars
  BY StepRows DEF RowStep
<1> QED BY <1>1, TypeCorrectness, LeaseMatchesSubmission, PTL DEF Spec, ReceiptFinal

-----------------------------------------------------------------------------
(* Which operation a call id stands for.                                   *)

\* Where a tool call and an operation travel together, the client presented
\* them together.
NamedCalls == \A c \in Call : callOp[c] # NoOp => callOp[c] \in Names[c]
NamedRecords ==
    \A p \in Process, c \in Call :
        record[p][c] # NoRecord => \E o \in Names[c] : record[p][c].args = o.args
NamedRequests ==
    \A r \in Request : req[r].pc # "idle" => req[r].op \in Names[req[r].call]
NamedRunners ==
    \A c \in Call : runner[c].pc # "idle" => runner[c].op \in Names[c]

\* A request or runner that goes on to submit has registered its call.
Registered(r) ==
    \/ r \in McpRequest /\ req[r].pc \in {"validate", "submit", "run"}
    \/ /\ r \in ExecRequest
       /\ \/ req[r].pc \in {"receipt", "indeterminate", "block", "validate"}
          \/ req[r].pc = "done" /\ req[r].reply = "validated"
BoundRequests == \A r \in Request : Registered(r) => callOp[req[r].call] # NoOp
BoundRunners == \A c \in Call : runner[c].pc # "idle" => callOp[c] # NoOp

Presented ==
    /\ NamedCalls
    /\ NamedRecords
    /\ NamedRequests
    /\ NamedRunners
    /\ BoundRequests
    /\ BoundRunners

\* The request only moves on: it keeps its call and its operation.
Moves(r) ==
    /\ \A s \in Request : s # r => req'[s] = req[s]
    /\ req[r].pc # "idle"
    /\ req'[r].op = req[r].op
    /\ req'[r].call = req[r].call

LEMMA GotoMoves ==
    ASSUME TypeOK, NEW r \in Request, req[r].pc # "idle", NEW pc, Goto(r, pc)
    PROVE  Moves(r) /\ req'[r].pc = pc /\ req'[r].reply = req[r].reply
<1>1. req[r] \in Serving
  BY RequestTypes
<1>2. /\ \A s \in Request : s # r => req'[s] = req[s]
      /\ req'[r] = [req[r] EXCEPT !.pc = pc]
  BY DEF Goto, TypeOK
<1> QED BY <1>1, <1>2 DEF Moves, Serving

LEMMA FinishMoves ==
    ASSUME TypeOK, NEW r \in Request, req[r].pc # "idle", NEW reply, Finish(r, reply)
    PROVE  Moves(r) /\ req'[r].pc = "done" /\ req'[r].reply = reply
<1>1. req[r] \in Serving
  BY RequestTypes
<1>2. /\ \A s \in Request : s # r => req'[s] = req[s]
      /\ req'[r] = [req[r] EXCEPT !.pc = "done", !.reply = reply]
  BY DEF Finish, TypeOK
<1> QED BY <1>1, <1>2 DEF Moves, Serving

LEMMA ArriveMoves ==
    ASSUME TypeOK, NEW r \in Request, NEW pc, Arrive(r, pc)
    PROVE  /\ \A s \in Request : s # r => req'[s] = req[s]
           /\ req'[r].pc = pc /\ req'[r].reply = "none"
           /\ req'[r].op \in Names[req'[r].call]
<1>1. PICK p, o, c : /\ req' = [req EXCEPT ![r] = [pc |-> pc, proc |-> p, op |-> o, call |-> c,
                                                  ran |-> FALSE, reply |-> "none"]]
                     /\ o \in Names[c]
  BY Zenon DEF Arrive
<1> QED BY <1>1 DEF TypeOK

LEMMA ReturnMoves ==
    ASSUME TypeOK, NEW r \in Request, req' = [req EXCEPT ![r] = Idle]
    PROVE  /\ \A s \in Request : s # r => req'[s] = req[s]
           /\ req'[r].pc = "idle" /\ req'[r].reply = "none"
BY DEF TypeOK, Idle

LEMMA CommitMoves ==
    ASSUME TypeOK, NEW r \in McpRequest, McpCommit(r)
    PROVE  Moves(r) /\ req'[r].pc \in {"done", "fail"}
<1>1. r \in Request /\ req[r].pc # "idle"
  BY DEF McpCommit, Request
<1>2. Finish(r, "committed") \/ Goto(r, "fail")
  BY DEF McpCommit
<1>3. CASE Finish(r, "committed")
  BY <1>1, <1>3, FinishMoves
<1>4. CASE Goto(r, "fail")
  BY <1>1, <1>4, GotoMoves
<1> QED BY <1>2, <1>3, <1>4

LEMMA CacheNamed ==
    ASSUME TypeOK, NamedRecords, NEW p \in Process, NEW c \in Call, NEW rec,
           rec = NoRecord \/ \E o \in Names[c] : rec.args = o.args,
           Cache(p, c, rec)
    PROVE  NamedRecords'
BY DEF TypeOK, NamedRecords, Cache

LEMMA GetRecordNamed ==
    ASSUME TypeOK, NamedRecords, NamedCalls, NEW p \in Process, NEW c \in Call,
           GetRecord(p, c) # NoRecord
    PROVE  \E o \in Names[c] : GetRecord(p, c).args = o.args
<1>1. CASE record[p][c] = NoRecord /\ callOp[c] # NoOp
  BY <1>1, Zenon DEF GetRecord, NamedCalls
<1>2. CASE ~(record[p][c] = NoRecord /\ callOp[c] # NoOp)
  BY <1>2 DEF GetRecord, NamedRecords
<1> QED BY <1>1, <1>2

LEMMA CacheStatusNamed ==
    ASSUME TypeOK, NamedRecords, NamedCalls, NEW p \in Process, NEW c \in Call, NEW s,
           CacheStatus(p, c, s)
    PROVE  NamedRecords'
<1>1. CASE GetRecord(p, c) = NoRecord
  BY <1>1 DEF CacheStatus, NamedRecords
<1>2. CASE GetRecord(p, c) # NoRecord
  <2>1. GetRecord(p, c) \in Record
    BY <1>2, GetRecordType
  <2>2. \A g \in Record : [g EXCEPT !.open = IsOpen(s)].args = g.args
    BY DEF Record
  <2>3. \E o \in Names[c] : [GetRecord(p, c) EXCEPT !.open = IsOpen(s)].args = o.args
    BY <1>2, <2>1, <2>2, GetRecordNamed
  <2> QED BY <1>2, <2>3, CacheNamed, Zenon DEF CacheStatus
<1> QED BY <1>1, <1>2

LEMMA MarkNamed ==
    ASSUME TypeOK, NamedRecords, NamedCalls, NEW p \in Process, NEW c \in Call, NEW output,
           \/ MarkValidated(p, c)
           \/ MarkSubmitted(p, c)
           \/ MarkCommitted(p, c, output)
           \/ MarkIndeterminate(p, c)
           \/ MarkFailed(p, c)
    PROVE  NamedRecords' /\ NamedCalls' /\ callOp' = callOp
<1>1. callOp' = callOp
  BY DEF MarkValidated, MarkSubmitted, MarkCommitted, MarkIndeterminate, MarkFailed,
         MarkOperationValidated, MarkOperationSubmitted, MarkOperationCommitted,
         MarkOperationIndeterminate, MarkOperationFailed, durable
<1>2. NamedRecords'
  <2>1. CASE MarkValidated(p, c)
    BY <2>1, GetRecordNamed, CacheNamed, Zenon DEF MarkValidated
  <2>2. CASE ~MarkValidated(p, c)
    BY <2>2, CacheStatusNamed DEF MarkSubmitted, MarkCommitted, MarkIndeterminate, MarkFailed
  <2> QED BY <2>1, <2>2
<1> QED BY <1>1, <1>2 DEF NamedCalls

LEMMA MarkReplayedNamed ==
    ASSUME TypeOK, NamedRecords, NEW p \in Process, NEW c \in Call, MarkReplayed(p, c)
    PROVE  NamedRecords'
<1>1. CASE record[p][c] = NoRecord
  BY <1>1 DEF MarkReplayed, NamedRecords
<1>2. CASE record[p][c] # NoRecord
  <2>1. record[p][c] \in Record
    BY <1>2 DEF TypeOK
  <2>2. [record[p][c] EXCEPT !.open = FALSE].args = record[p][c].args
    BY <2>1 DEF Record
  <2>3. \E o \in Names[c] : [record[p][c] EXCEPT !.open = FALSE].args = o.args
    BY <1>2, <2>2 DEF NamedRecords
  <2> QED BY <1>2, <2>3, CacheNamed, Zenon DEF MarkReplayed
<1> QED BY <1>1, <1>2

LEMMA RegisterNamed ==
    ASSUME UniqueNames, TypeOK, NamedRecords, NamedCalls,
           NEW p \in Process, NEW c \in Call, NEW o \in Names[c],
           RegisterToolCall(p, o, c) \/ RegisterRefused(p, o, c)
    PROVE  /\ NamedRecords'
           /\ NamedCalls'
           /\ RegisterToolCall(p, o, c) => callOp'[c] # NoOp
<1>1. o \in Op
  BY ConstantsAssumption
<1>2. KeyToPrepare(p, o, c) = o
  <2>1. CASE record[p][c] = NoRecord
    BY <2>1 DEF KeyToPrepare
  <2>2. CASE record[p][c] # NoRecord
    <3>1. record[p][c].args = o.args
      BY <2>2 DEF NamedRecords, UniqueNames
    <3>2. [o EXCEPT !.args = o.args] = o
      BY <1>1 DEF Op
    <3> QED BY <2>2, <3>1, <3>2 DEF KeyToPrepare
  <2> QED BY <2>1, <2>2
<1>3. CASE RegisterToolCall(p, o, c)
  <2>1. callOp' = [callOp EXCEPT ![c] = o]
    BY <1>2, <1>3 DEF RegisterToolCall, Prepare
  <2>2. NamedCalls' /\ callOp'[c] # NoOp
    BY <1>1, <2>1, ConstantsAssumption DEF NamedCalls, TypeOK
  <2>3. Cache(p, c, [args |-> o.args, open |-> IsOpen(status'[o])])
    BY <1>2, <1>3, Zenon DEF RegisterToolCall
  <2>4. NamedRecords'
    BY <2>3, CacheNamed, Zenon
  <2> QED BY <2>2, <2>4, ZenonT(30)
<1>4. CASE RegisterRefused(p, o, c) /\ ~RegisterToolCall(p, o, c)
  <2>1. \/ Cache(p, c, [args |-> o.args, open |-> TRUE])
        \/ UNCHANGED record
    BY <1>2, <1>4, ZenonT(30) DEF RegisterRefused
  <2>2. NamedRecords'
    BY <2>1, CacheNamed, ZenonT(30) DEF NamedRecords
  <2> QED BY <1>4, <2>2, Zenon DEF RegisterRefused, durable, NamedCalls
<1> QED BY <1>3, <1>4

\* A request that moves to a registered state has its call bound.
LEMMA MovePresented ==
    ASSUME TypeOK, Presented, BindingStep, NEW r \in Request, Moves(r),
           Registered(r)' => Registered(r) \/ callOp'[req[r].call] # NoOp
    PROVE  NamedRequests' /\ BoundRequests'
<1>1. \A s \in Request : req'[s].pc # "idle" => req'[s].op \in Names[req'[s].call]
  BY Zenon DEF Moves, Presented, NamedRequests
<1>2. \A s \in Request : Registered(s)' => callOp'[req'[s].call] # NoOp
  <2> TAKE s \in Request
  <2>1. CASE s = r
    <3>1. req[r].call \in Call
      BY RequestTypes DEF Moves
    <3> QED BY <2>1, <3>1, ZenonT(30) DEF Moves, Presented, BoundRequests, BindingStep, TypeOK
  <2>2. CASE s # r
    <3>1. req'[s] = req[s]
      BY <2>2 DEF Moves
    <3>2. Registered(s)' => Registered(s) /\ req[s].pc # "idle"
      BY <3>1 DEF Registered
    <3>3. req[s].pc # "idle" => req[s].call \in Call
      BY RequestTypes
    <3> QED BY <3>1, <3>2, <3>3 DEF Presented, BoundRequests, BindingStep
  <2> QED BY <2>1, <2>2
<1> QED BY <1>1, <1>2 DEF NamedRequests, BoundRequests

\* Requests that stay, and requests that are dropped, keep the bindings.
LEMMA StayPresented ==
    ASSUME TypeOK, Presented, BindingStep,
           \A s \in Request : req'[s] = req[s] \/ req'[s] = Idle
    PROVE  NamedRequests' /\ BoundRequests'
<1>1. NamedRequests'
  BY DEF Presented, NamedRequests, Idle
<1>2. ASSUME NEW s \in Request, Registered(s)'
      PROVE  callOp'[req'[s].call] # NoOp
  <2>1. req'[s] = req[s] /\ req[s].pc # "idle" /\ Registered(s)
    BY <1>2 DEF Registered, Idle
  <2>2. req[s].call \in Call
    BY <2>1, RequestTypes
  <2> QED BY <2>1, <2>2 DEF Presented, BoundRequests, BindingStep
<1> QED BY <1>1, <1>2 DEF BoundRequests

\* Runners that stay, move on or stop keep their operation.
LEMMA RunnersPresented ==
    ASSUME TypeOK, Presented, BindingStep,
           \A c \in Call : runner'[c].pc # "idle" =>
                            runner[c].pc # "idle" /\ runner'[c].op = runner[c].op
    PROVE  NamedRunners' /\ BoundRunners'
BY ZenonT(30) DEF Presented, NamedRunners, BoundRunners, BindingStep

LEMMA ArrivePresented ==
    ASSUME TypeOK, Presented, BindingStep, NEW r \in Request, NEW pc, Arrive(r, pc),
           \/ r \in ExecRequest /\ pc = "register"
           \/ r \in McpRequest /\ pc = "indeterminate"
    PROVE  Presented'
<1>1. /\ \A s \in Request : s # r => req'[s] = req[s]
      /\ req'[r].pc = pc /\ req'[r].op \in Names[req'[r].call]
  BY ArriveMoves, Zenon
<1>2. NamedRequests'
  BY <1>1, Zenon DEF Presented, NamedRequests
<1>3. ~Registered(r)'
  BY <1>1, ConstantsAssumption DEF Registered
<1>4. ASSUME NEW s \in Request, s # r
      PROVE  Registered(s)' => Registered(s)
  BY <1>1, <1>4, ZenonT(30) DEF Registered
<1>5. BoundRequests'
  BY <1>1, <1>3, <1>4 DEF Arrive, durable, Presented, BoundRequests
<1> QED BY <1>2, <1>5 DEF Arrive, durable, Presented, NamedCalls, NamedRecords,
            NamedRunners, BoundRunners

\* The step of one request that leaves the runners alone.
LEMMA StepPresented ==
    ASSUME TypeOK, Presented, BindingStep, UNCHANGED runner, NEW r \in Request, Moves(r),
           Registered(r)' => Registered(r) \/ callOp'[req[r].call] # NoOp,
           NamedRecords', NamedCalls'
    PROVE  Presented'
BY MovePresented, RunnersPresented, Zenon DEF Presented

LEMMA ExecPresented ==
    ASSUME UniqueNames, TypeOK, Presented, BindingStep, NEW r \in ExecRequest, ExecStep(r)
    PROVE  Presented'
<1> r \in Request
  BY RequestsAreOfAKind
<1>a. ASSUME req[r].pc # "idle"
      PROVE  req[r].proc \in Process /\ req[r].call \in Call /\ req[r].op \in Names[req[r].call]
  BY <1>a, RequestTypes DEF Presented, NamedRequests
<1>b. NamedRecords /\ NamedCalls
  BY DEF Presented
<1>1. CASE ExecArrive(r)
  BY <1>1, ArrivePresented DEF ExecArrive
<1>2. CASE ExecRegister(r)
  <2>0. /\ req[r].pc = "register" /\ UNCHANGED runner
        /\ \/ RegisterToolCall(req[r].proc, req[r].op, req[r].call) /\ Goto(r, "receipt")
           \/ RegisterRefused(req[r].proc, req[r].op, req[r].call) /\ Finish(r, "error")
    BY <1>2, ZenonT(30) DEF ExecRegister
  <2>1. NamedRecords' /\ NamedCalls'
    BY <1>a, <1>b, <2>0, RegisterNamed
  <2>2. CASE RegisterToolCall(req[r].proc, req[r].op, req[r].call) /\ Goto(r, "receipt")
    <3>1. Moves(r) /\ callOp'[req[r].call] # NoOp
      BY <1>a, <1>b, <2>0, <2>2, GotoMoves, RegisterNamed, Zenon
    <3> QED BY <2>0, <2>1, <3>1, StepPresented, Zenon
  <2>3. CASE Finish(r, "error")
    <3>1. Moves(r) /\ ~Registered(r)'
      <4>1. Moves(r) /\ req'[r].pc = "done" /\ req'[r].reply = "error"
        BY <2>0, <2>3, FinishMoves, Zenon
      <4>2. r \notin McpRequest
        BY ConstantsAssumption, Zenon
      <4> QED BY <4>1, <4>2, Zenon DEF Registered
    <3> QED BY <2>0, <2>1, <3>1, StepPresented, Zenon
  <2> QED BY <2>0, <2>2, <2>3, Zenon
<1>3. CASE ExecCheckReceipt(r)
  <2>1. NamedRecords' /\ NamedCalls'
    BY <1>3, <1>a, MarkReplayedNamed
       DEF ExecCheckReceipt, Presented, durable, NamedCalls, NamedRecords
  <2>2. Moves(r)
    <3>1. CASE Goto(r, "indeterminate")
      BY <1>3, <3>1, GotoMoves DEF ExecCheckReceipt
    <3>2. CASE req' = [req EXCEPT ![r] = [req[r] EXCEPT !.pc = "validate", !.reply = "replayed"]]
      <4>1. req[r] \in Serving
        BY <1>3, RequestTypes DEF ExecCheckReceipt
      <4>2. /\ \A s \in Request : s # r => req'[s] = req[s]
            /\ req'[r] = [req[r] EXCEPT !.pc = "validate", !.reply = "replayed"]
        BY <3>2 DEF TypeOK
      <4> QED BY <1>3, <4>1, <4>2 DEF ExecCheckReceipt, Moves, Serving
    <3> QED BY <1>3, <3>1, <3>2 DEF ExecCheckReceipt
  <2>3. Registered(r)
    BY <1>3, SMTT(20) DEF ExecCheckReceipt, Registered
  <2> QED BY <1>3, <2>1, <2>2, <2>3, StepPresented, Zenon DEF ExecCheckReceipt
<1>4. CASE ExecCheckIndeterminate(r)
  <2>1. Moves(r) /\ Registered(r)
    BY <1>4, GotoMoves DEF ExecCheckIndeterminate, Registered
  <2> QED BY <1>4, <1>b, <2>1, StepPresented, ZenonT(30) DEF ExecCheckIndeterminate, durable, NamedCalls, NamedRecords
<1>5. CASE ExecBlock(r)
  <2>1. Moves(r) /\ Registered(r)
    BY <1>5, FinishMoves DEF ExecBlock, Registered
  <2>2. NamedRecords' /\ NamedCalls'
    BY <1>5, <1>a, <1>b, MarkNamed, Zenon DEF ExecBlock
  <2> QED BY <1>5, <2>1, <2>2, StepPresented, Zenon DEF ExecBlock
<1>6. CASE ExecValidate(r)
  <2>1. Moves(r) /\ Registered(r)
    BY <1>6, FinishMoves, Zenon DEF ExecValidate, Registered
  <2>2. NamedRecords' /\ NamedCalls'
    BY <1>6, <1>a, <1>b, MarkNamed, Zenon DEF ExecValidate
  <2> QED BY <1>6, <2>1, <2>2, StepPresented, Zenon DEF ExecValidate
<1>7. CASE ExecReturn(r)
  <2>1. NamedRequests' /\ BoundRequests'
    BY <1>7, StayPresented DEF ExecReturn, TypeOK
  <2>2. NamedRunners' /\ BoundRunners'
    <3>1. CASE UNCHANGED runner
      BY <3>1, RunnersPresented
    <3>2. CASE ~UNCHANGED runner
      <4>1. /\ req[r].reply = "validated"
            /\ runner' = [runner EXCEPT ![req[r].call] = [pc |-> "asked", op |-> req[r].op]]
        BY <1>7, <3>2, Zenon DEF ExecReturn
      <4>2. callOp[req[r].call] # NoOp
        BY <1>7, <4>1, ZenonT(30) DEF ExecReturn, Presented, BoundRequests, Registered
      <4>3. callOp' = callOp
        BY <1>7 DEF ExecReturn, durable
      <4> QED BY <1>7, <1>a, <4>1, <4>2, <4>3, Zenon
              DEF ExecReturn, TypeOK, Presented, NamedRunners, BoundRunners
    <3> QED BY <3>1, <3>2
  <2> QED BY <1>7, <2>1, <2>2, ZenonT(30) DEF ExecReturn, Presented, durable, NamedCalls, NamedRecords
<1> QED BY <1>1, <1>2, <1>3, <1>4, <1>5, <1>6, <1>7 DEF ExecStep

LEMMA McpPresented ==
    ASSUME UniqueNames, TypeOK, Presented, BindingStep, NEW r \in McpRequest, McpStep(r)
    PROVE  Presented'
<1> r \in Request
  BY RequestsAreOfAKind
<1>a. ASSUME req[r].pc # "idle"
      PROVE  req[r].proc \in Process /\ req[r].call \in Call /\ req[r].op \in Names[req[r].call]
  BY <1>a, RequestTypes DEF Presented, NamedRequests
<1>b. NamedRecords /\ NamedCalls
  BY DEF Presented
<1>c. r \notin ExecRequest
  BY ConstantsAssumption
<1>1. CASE McpArrive(r)
  BY <1>1, ArrivePresented DEF McpArrive
<1>2. CASE McpCheckIndeterminate(r)
  <2>1. Moves(r) /\ ~Registered(r)'
    BY <1>2, <1>c, GotoMoves, FinishMoves DEF McpCheckIndeterminate, Registered
  <2> QED BY <1>2, <1>b, <2>1, StepPresented, Zenon DEF McpCheckIndeterminate, durable, NamedCalls, NamedRecords
<1>3. CASE McpCheckReceipt(r)
  <2>1. NamedRecords' /\ NamedCalls'
    BY <1>3, <1>a, MarkReplayedNamed, ZenonT(30)
       DEF McpCheckReceipt, Presented, durable, NamedCalls, NamedRecords
  <2>2. Moves(r) /\ ~Registered(r)'
    <3>1. Moves(r) /\ req'[r].pc \in {"done", "register"}
      BY <1>3, GotoMoves, FinishMoves, Zenon DEF McpCheckReceipt
    <3> QED BY <1>c, <3>1 DEF Registered
  <2> QED BY <1>3, <2>1, <2>2, StepPresented, Zenon DEF McpCheckReceipt
<1>4. CASE McpRegister(r)
  <2>0. /\ req[r].pc = "register" /\ UNCHANGED runner
        /\ \/ RegisterToolCall(req[r].proc, req[r].op, req[r].call) /\ Goto(r, "validate")
           \/ RegisterRefused(req[r].proc, req[r].op, req[r].call) /\ Finish(r, "error")
    BY <1>4, Zenon DEF McpRegister
  <2>1. NamedRecords' /\ NamedCalls'
    BY <1>a, <1>b, <2>0, RegisterNamed
  <2>2. CASE RegisterToolCall(req[r].proc, req[r].op, req[r].call) /\ Goto(r, "validate")
    <3>1. Moves(r) /\ callOp'[req[r].call] # NoOp
      BY <1>a, <1>b, <2>0, <2>2, GotoMoves, RegisterNamed, Zenon
    <3> QED BY <2>0, <2>1, <3>1, StepPresented, Zenon
  <2>3. CASE Finish(r, "error")
    <3>1. Moves(r) /\ ~Registered(r)'
      BY <1>c, <2>0, <2>3, FinishMoves DEF Registered
    <3> QED BY <2>0, <2>1, <3>1, StepPresented, ZenonT(30)
  <2> QED BY <2>0, <2>2, <2>3, Zenon
<1>5. CASE McpValidate(r)
  <2>1. Moves(r) /\ Registered(r)
    BY <1>5, GotoMoves, Zenon DEF McpValidate, Registered
  <2>2. NamedRecords' /\ NamedCalls'
    BY <1>5, <1>a, <1>b, MarkNamed, Zenon DEF McpValidate
  <2> QED BY <1>5, <2>1, <2>2, StepPresented, Zenon DEF McpValidate
<1>6. CASE McpSubmit(r)
  <2>1. Moves(r) /\ Registered(r)
    <3>1. req[r].pc = "submit" /\ (Goto(r, "run") \/ Finish(r, "error"))
      BY <1>6, Zenon DEF McpSubmit
    <3> QED BY <3>1, GotoMoves, FinishMoves DEF Registered
  <2>2. NamedRecords' /\ NamedCalls'
    <3>1. CASE MarkSubmitted(req[r].proc, req[r].call)
      BY <1>6, <1>a, <3>1, MarkNamed, Zenon DEF McpSubmit, Presented
    <3>2. CASE UNCHANGED <<durable, record>>
      BY <3>2 DEF Presented, durable, NamedCalls, NamedRecords
    <3> QED BY <1>6, <3>1, <3>2, Zenon DEF McpSubmit
  <2> QED BY <1>6, <2>1, <2>2, StepPresented, Zenon DEF McpSubmit
<1>7. CASE McpRun(r)
  <2>1. PICK ran \in BOOLEAN, pc \in PC :
            req' = [req EXCEPT ![r] = [req[r] EXCEPT !.pc = pc, !.ran = ran]]
    BY <1>7, Zenon DEF McpRun, PC
  <2>2. req[r] \in Serving
    BY <1>7, RequestTypes DEF McpRun
  <2>3. /\ \A s \in Request : s # r => req'[s] = req[s]
        /\ req'[r] = [req[r] EXCEPT !.pc = pc, !.ran = ran]
    BY <2>1 DEF TypeOK
  <2>4. Moves(r) /\ Registered(r)
    BY <1>7, <2>2, <2>3 DEF McpRun, Moves, Serving, Registered
  <2> QED BY <1>7, <1>b, <2>4, StepPresented, Zenon DEF McpRun, durable, NamedCalls, NamedRecords
<1>8. CASE McpCommit(r)
  <2>1. Moves(r) /\ ~Registered(r)'
    <3>1. Moves(r) /\ req'[r].pc \in {"done", "fail"}
      BY <1>8, CommitMoves, SMTT(20)
    <3> QED BY <1>c, <3>1 DEF Registered
  <2>2. NamedRecords' /\ NamedCalls'
    BY <1>8, <1>a, MarkNamed, ZenonT(30) DEF McpCommit, Presented, durable, NamedCalls, NamedRecords
  <2> QED BY <1>8, <2>1, <2>2, StepPresented, Zenon DEF McpCommit
<1>9. CASE McpAcknowledge(r)
  <2>1. Moves(r) /\ ~Registered(r)'
    <3>1. Moves(r) /\ req'[r].pc = "done"
      BY <1>9, FinishMoves, Zenon DEF McpAcknowledge
    <3> QED BY <1>c, <3>1 DEF Registered
  <2>2. NamedRecords' /\ NamedCalls'
    BY <1>9, <1>a, MarkNamed, ZenonT(30) DEF McpAcknowledge, Presented, durable, NamedCalls, NamedRecords
  <2> QED BY <1>9, <2>1, <2>2, StepPresented, Zenon DEF McpAcknowledge
<1>10. CASE McpFail(r)
  <2>1. Moves(r) /\ ~Registered(r)'
    BY <1>10, <1>c, FinishMoves, Zenon DEF McpFail, Registered
  <2>2. NamedRecords' /\ NamedCalls'
    BY <1>10, <1>a, <1>b, MarkNamed, Zenon DEF McpFail
  <2> QED BY <1>10, <2>1, <2>2, StepPresented, Zenon DEF McpFail
<1>11. CASE McpReturn(r)
  <2>1. NamedRequests' /\ BoundRequests'
    BY <1>11, StayPresented, Zenon DEF McpReturn, TypeOK
  <2>2. NamedRunners' /\ BoundRunners'
    BY <1>11, RunnersPresented DEF McpReturn
  <2> QED BY <1>11, <2>1, <2>2, Zenon DEF McpReturn, Presented, durable, NamedCalls, NamedRecords
<1> QED BY <1>1, <1>2, <1>3, <1>4, <1>5, <1>6, <1>7, <1>8, <1>9, <1>10, <1>11 DEF McpStep

LEMMA OthersPresented ==
    ASSUME UniqueNames, TypeOK, Presented, BindingStep,
           \/ \E p \in Process, c \in Call : HttpStep(p, c)
           \/ \E c \in Call : RunnerRuns(c) \/ RunnerStops(c)
           \/ \E o \in Op : LeaseExpires(o)
           \/ \E p \in Process : Crash(p) \/ Start(p)
    PROVE  Presented'
<1>a. ASSUME UNCHANGED req
      PROVE  NamedRequests' /\ BoundRequests'
  BY <1>a, StayPresented, Zenon
<1>b. ASSUME UNCHANGED runner
      PROVE  NamedRunners' /\ BoundRunners'
  BY <1>b, RunnersPresented
<1>c. ASSUME NEW c \in Call, runner[c].pc # "idle", NEW pc,
             runner' = [runner EXCEPT ![c] = [runner[c] EXCEPT !.pc = pc]]
      PROVE  NamedRunners' /\ BoundRunners'
  <2>1. runner[c] \in Runner
    BY <1>c DEF TypeOK, NoRunner
  <2>2. [runner[c] EXCEPT !.pc = pc].op = runner[c].op
    BY <2>1 DEF Runner
  <2> QED BY <1>c, <2>2, RunnersPresented DEF TypeOK
<1>d. ASSUME NEW c \in Call, runner' = [runner EXCEPT ![c] = NoRunner]
      PROVE  NamedRunners' /\ BoundRunners'
  BY <1>d, RunnersPresented, SMTT(20) DEF TypeOK, NoRunner
<1>e. ASSUME NEW p \in Process, NEW c \in Call, Cache(p, c, GetRecord(p, c)),
             GetRecord(p, c) # NoRecord
      PROVE  NamedRecords'
  BY <1>e, GetRecordNamed, CacheNamed, Zenon DEF Presented
<1>1. ASSUME NEW p \in Process, NEW c \in Call, HttpSubmit(p, c)
      PROVE  Presented'
  <2>1. NamedRunners' /\ BoundRunners'
    BY <1>1, <1>b, <1>c DEF HttpSubmit
  <2>2. NamedRecords' /\ NamedCalls'
    BY <1>1, <1>e, MarkNamed, Zenon DEF HttpSubmit, Presented, durable, NamedCalls
  <2> QED BY <1>1, <1>a, <2>1, <2>2 DEF HttpSubmit, Presented
<1>2. ASSUME NEW p \in Process, NEW c \in Call, HttpCommit(p, c)
      PROVE  Presented'
  <2>1. NamedRunners' /\ BoundRunners'
    BY <1>2, <1>b, <1>d, SMTT(20) DEF HttpCommit
  <2>2. NamedRecords' /\ NamedCalls'
    BY <1>2, <1>e, MarkNamed, ZenonT(30) DEF HttpCommit, Presented, durable, NamedCalls
  <2> QED BY <1>2, <1>a, <2>1, <2>2 DEF HttpCommit, Presented
<1>3. ASSUME NEW p \in Process, NEW c \in Call, HttpIndeterminate(p, c)
      PROVE  Presented'
  <2>1. NamedRecords' /\ NamedCalls'
    BY <1>3, MarkNamed, Zenon DEF HttpIndeterminate, Presented
  <2> QED BY <1>3, <1>a, <1>b, <2>1, ZenonT(30) DEF HttpIndeterminate, Presented
<1>4. ASSUME NEW c \in Call, RunnerRuns(c)
      PROVE  Presented'
  BY <1>4, <1>a, <1>c, Zenon DEF RunnerRuns, Presented, durable, NamedCalls, NamedRecords
<1>5. ASSUME NEW c \in Call, RunnerStops(c)
      PROVE  Presented'
  BY <1>5, <1>a, <1>d, ZenonT(30) DEF RunnerStops, Presented, durable, NamedCalls, NamedRecords
<1>6. ASSUME NEW o \in Op, LeaseExpires(o)
      PROVE  Presented'
  BY <1>6, <1>a, <1>b DEF LeaseExpires, Presented, NamedCalls, NamedRecords
<1>7. ASSUME NEW p \in Process, Crash(p)
      PROVE  Presented'
  <2>1. NamedRequests' /\ BoundRequests'
    BY <1>7, StayPresented DEF Crash
  <2>2. NamedRecords'
    BY <1>7 DEF Crash, Presented, NamedRecords, TypeOK
  <2> QED BY <1>7, <1>b, <2>1, <2>2 DEF Crash, Presented, NamedCalls
<1>8. ASSUME NEW p \in Process, Start(p)
      PROVE  Presented'
  <2>1. UNCHANGED <<callOp, record, req, runner>>
    BY <1>8, Zenon DEF Start, RecoverInflightOperations
  <2> QED BY <1>a, <1>b, <2>1, Zenon DEF Presented, NamedCalls, NamedRecords
<1> QED BY <1>1, <1>2, <1>3, <1>4, <1>5, <1>6, <1>7, <1>8 DEF HttpStep

-----------------------------------------------------------------------------
(* Who was told of a success finds its receipt.                            *)

\* SuccessIsDurable, request by request; a call that was committed is bound.
Told(r) ==
    /\ req[r].reply = "replayed" => HasReceipt(req[r].op)
    /\ req[r].reply = "committed" =>
            /\ callOp[req[r].call] # NoOp
            /\ HasReceipt(callOp[req[r].call])
            /\ receipt[callOp[req[r].call]].call = req[r].call

LEMMA RepliedTypes ==
    ASSUME TypeOK, NEW r \in Request, req[r].reply \in {"replayed", "committed"}
    PROVE  req[r].pc # "idle" /\ req[r].op \in Op /\ req[r].call \in Call
<1>1. req[r] \in Serving \cup {Idle}
  BY Zenon DEF TypeOK
<1>2. req[r] # Idle
  BY DEF Idle
<1>3. req[r].pc # "idle"
  BY ONLY <1>1, <1>2 DEF Serving
<1> QED BY <1>3, RequestTypes, Zenon

\* What a request was told stays true as long as it is not told anything else.
LEMMA ToldStays ==
    ASSUME TypeOK, RowStep, BindingStep, NEW r \in Request, Told(r),
           \/ req'[r].reply \notin {"replayed", "committed"}
           \/ /\ req'[r].reply = req[r].reply
              /\ req'[r].op = req[r].op
              /\ req'[r].call = req[r].call
    PROVE  Told(r)'
<1>1. CASE req'[r].reply \notin {"replayed", "committed"}
  BY <1>1, Zenon DEF Told
<1>2. CASE /\ req[r].reply = "replayed"
           /\ req'[r].reply = "replayed" /\ req'[r].op = req[r].op
  <2>1. req[r].op \in Op /\ HasReceipt(req[r].op)
    BY <1>2, RepliedTypes, Zenon DEF Told
  <2> QED BY <1>2, <2>1, ZenonT(30) DEF Told, HasReceipt, RowStep
<1>3. CASE /\ req[r].reply = "committed"
           /\ req'[r].reply = "committed" /\ req'[r].call = req[r].call
  <2> DEFINE o == callOp[req[r].call]
  <2>1. req[r].call \in Call /\ o # NoOp /\ HasReceipt(o) /\ receipt[o].call = req[r].call
    BY <1>3, RepliedTypes, Zenon DEF Told
  <2>2. o \in Op /\ callOp'[req[r].call] = o
    BY <2>1, Zenon DEF TypeOK, BindingStep
  <2> QED BY <1>3, <2>1, <2>2 DEF Told, HasReceipt, RowStep
<1> QED BY <1>1, <1>2, <1>3, Zenon

\* A commit writes the receipt of its own call.
LEMMA CommitTold ==
    ASSUME TypeOK, NEW r \in McpRequest, req[r].pc # "idle",
           MarkCommitted(req[r].proc, req[r].call, [call |-> req[r].call, op |-> req[r].op]),
           Finish(r, "committed")
    PROVE  Told(r)'
<1> DEFINE c == req[r].call
           o == callOp[c]
           output == [call |-> c, op |-> req[r].op]
<1>1. r \in Request
  BY RequestsAreOfAKind, ZenonT(30)
<1>2. c \in Call /\ req[r].op \in Op
  BY <1>1, RequestTypes
<1>3. output \in Receipt /\ output.call = c
  BY ONLY <1>2, Zenon DEF Receipt
<1>4. o # NoOp /\ o \in Op
  BY <1>2, ZenonT(30) DEF MarkCommitted, CommitEnabled, CanCommit, TypeOK
<1>5. /\ status'[o] = "committed" /\ receipt'[o] = output
      /\ callOp' = callOp
  <2> HIDE DEF output
  <2>1. MarkOperationCommitted(o, output)
    BY Zenon DEF MarkCommitted, output
  <2> QED BY <1>4, <2>1 DEF MarkOperationCommitted, TypeOK
<1>6. req'[r].reply = "committed" /\ req'[r].call = c
  BY <1>1, FinishMoves, Zenon DEF Moves
<1> HIDE DEF output
<1>7. output # NoReceipt
  BY <1>3, ConstantsAssumption, Zenon
<1> QED BY <1>3, <1>4, <1>5, <1>6, <1>7, Zenon DEF Told, HasReceipt

LEMMA ExecTold ==
    ASSUME TypeOK, RowStep, BindingStep, \A s \in Request : Told(s),
           NEW r \in ExecRequest, ExecStep(r), NEW s \in Request
    PROVE  Told(s)'
<1> r \in Request
  BY RequestsAreOfAKind, ZenonT(30)
<1>1. CASE s # r
  <2>1. req'[s] = req[s]
    BY <1>1 DEF TypeOK, ExecStep, ExecArrive, Arrive, ExecRegister, ExecCheckReceipt,
                ExecCheckIndeterminate, ExecBlock, ExecValidate, ExecReturn, Goto, Finish
  <2> QED BY <2>1, ToldStays
<1>2. CASE s = r /\ (ExecArrive(r) \/ ExecReturn(r))
  <2>1. req'[r].reply = "none"
    BY <1>2, ArriveMoves, ReturnMoves, Zenon DEF ExecArrive, ExecReturn
  <2> QED BY <1>2, <2>1, ToldStays
<1>3. CASE s = r /\ (ExecRegister(r) \/ ExecCheckIndeterminate(r) \/ ExecBlock(r))
  <2>1. Moves(r) /\ (req'[r].reply = req[r].reply \/ req'[r].reply \in {"error", "blocked"})
    BY <1>3, GotoMoves, FinishMoves, Zenon DEF ExecRegister, ExecCheckIndeterminate, ExecBlock
  <2> QED BY <1>3, <2>1, ToldStays, Zenon DEF Moves
<1>4. CASE s = r /\ ExecCheckReceipt(r)
  <2>1. CASE HasReceipt(req[r].op)
    <3>1. /\ req' = [req EXCEPT ![r] = [req[r] EXCEPT !.pc = "validate", !.reply = "replayed"]]
          /\ status' = status /\ receipt' = receipt
      BY <1>4, <2>1 DEF ExecCheckReceipt, durable
    <3>2. req[r] \in Serving
      BY <1>4, RequestTypes DEF ExecCheckReceipt
    <3>3. req'[r].op = req[r].op /\ req'[r].reply = "replayed"
      BY <3>1, <3>2 DEF Serving, TypeOK
    <3> QED BY <1>4, <2>1, <3>1, <3>3 DEF Told, HasReceipt
  <2>2. CASE ~HasReceipt(req[r].op)
    <3>1. Moves(r) /\ req'[r].reply = req[r].reply
      BY <1>4, <2>2, GotoMoves DEF ExecCheckReceipt
    <3> QED BY <1>4, <3>1, ToldStays DEF Moves
  <2> QED BY <2>1, <2>2
<1>5. CASE s = r /\ ExecValidate(r)
  <2>1. /\ Moves(r)
        /\ \/ req'[r].reply \in {"rejected", "validated"}
           \/ req[r].reply = "replayed" /\ req'[r].reply = "replayed"
    BY <1>5, FinishMoves, Zenon DEF ExecValidate
  <2> QED BY <1>5, <2>1, ToldStays DEF Moves
<1> QED BY <1>1, <1>2, <1>3, <1>4, <1>5 DEF ExecStep

LEMMA McpTold ==
    ASSUME TypeOK, RowStep, BindingStep, \A s \in Request : Told(s),
           NEW r \in McpRequest, McpStep(r), NEW s \in Request
    PROVE  Told(s)'
<1> r \in Request
  BY RequestsAreOfAKind
<1>1. CASE s # r
  <2>1. req'[s] = req[s]
    BY <1>1, Zenon DEF TypeOK, McpStep, McpArrive, Arrive, McpCheckIndeterminate, McpCheckReceipt,
                McpRegister, McpValidate, McpSubmit, McpRun, McpCommit, McpAcknowledge, McpFail,
                McpReturn, Goto, Finish
  <2> QED BY <2>1, ToldStays
<1>2. CASE s = r /\ (McpArrive(r) \/ McpReturn(r))
  <2>1. req'[r].reply = "none"
    BY <1>2, ArriveMoves, ReturnMoves, Zenon DEF McpArrive, McpReturn
  <2> QED BY <1>2, <2>1, ToldStays
<1>3. CASE s = r /\ (\/ McpCheckIndeterminate(r) \/ McpRegister(r) \/ McpValidate(r)
                     \/ McpSubmit(r) \/ McpFail(r))
  <2>1. /\ Moves(r)
        /\ req'[r].reply = req[r].reply \/ req'[r].reply \in {"error", "blocked", "failed"}
    BY <1>3, GotoMoves, FinishMoves, ZenonT(30)
       DEF McpCheckIndeterminate, McpRegister, McpValidate, McpSubmit, McpFail
  <2> QED BY <1>3, <2>1, ToldStays, Zenon DEF Moves
<1>4. CASE s = r /\ McpCheckReceipt(r)
  <2>1. CASE HasReceipt(req[r].op)
    <3>1. Moves(r) /\ req'[r].reply = "replayed" /\ status' = status /\ receipt' = receipt
      BY <1>4, <2>1, FinishMoves, Zenon DEF McpCheckReceipt, durable
    <3> QED BY <1>4, <2>1, <3>1 DEF Told, HasReceipt, Moves
  <2>2. CASE ~HasReceipt(req[r].op)
    <3>1. Moves(r) /\ req'[r].reply = req[r].reply
      BY <1>4, <2>2, GotoMoves, Zenon DEF McpCheckReceipt
    <3> QED BY <1>4, <3>1, ToldStays DEF Moves
  <2> QED BY <2>1, <2>2
<1>5. CASE s = r /\ McpRun(r)
  <2>1. PICK ran \in BOOLEAN, pc \in {"commit", "fail", "acknowledge"} :
            req' = [req EXCEPT ![r] = [req[r] EXCEPT !.pc = pc, !.ran = ran]]
    BY <1>5, Zenon DEF McpRun
  <2>2. req[r] \in Serving
    BY <1>5, RequestTypes DEF McpRun
  <2>3. /\ req'[r].op = req[r].op /\ req'[r].call = req[r].call
        /\ req'[r].reply = req[r].reply
    BY <2>1, <2>2 DEF Serving, TypeOK
  <2> QED BY <1>5, <2>3, ToldStays, Zenon
<1>6. CASE s = r /\ (McpCommit(r) \/ McpAcknowledge(r))
  <2>1. req[r].pc # "idle"
    BY <1>6, Zenon DEF McpCommit, McpAcknowledge
  <2>2. CASE Goto(r, "fail") \/ Finish(r, "error")
    <3>1. Moves(r) /\ (req'[r].reply = req[r].reply \/ req'[r].reply = "error")
      BY <2>1, <2>2, GotoMoves, FinishMoves
    <3> QED BY <1>6, <3>1, ToldStays, ZenonT(30) DEF Moves
  <2> QED BY <1>6, <2>1, <2>2, CommitTold, Zenon DEF McpCommit, McpAcknowledge
<1> QED BY <1>1, <1>2, <1>3, <1>4, <1>5, <1>6 DEF McpStep

LEMMA StepTold ==
    ASSUME TypeOK, RowStep, BindingStep, \A s \in Request : Told(s), [Next]_vars
    PROVE  \A s \in Request : Told(s)'
<1> SUFFICES ASSUME NEW s \in Request PROVE Told(s)'
  BY ZenonT(30)
<1>1. CASE req'[s] = req[s]
  BY <1>1, ToldStays
<1>2. ASSUME NEW p \in Process, Crash(p) PROVE Told(s)'
  <2>1. req'[s] = req[s] \/ req'[s].reply = "none"
    BY <1>2 DEF Crash, Idle
  <2> QED BY <2>1, ToldStays
<1>3. CASE \/ UNCHANGED vars
           \/ \E p \in Process, c \in Call : HttpStep(p, c)
           \/ \E c \in Call : RunnerRuns(c) \/ RunnerStops(c)
           \/ \E o \in Op : LeaseExpires(o)
           \/ \E p \in Process : Start(p)
  <2>1. UNCHANGED req
    BY <1>3, Zenon DEF vars, HttpStep, HttpSubmit, HttpCommit, HttpIndeterminate, RunnerRuns,
                RunnerStops, LeaseExpires, Start
  <2> QED BY <2>1, <1>1
<1> QED BY <1>2, <1>3, ExecTold, McpTold DEF Next

\* Whoever was told that an operation committed, or was answered with an earlier
\* receipt, finds that receipt in the database at every later moment of the request:
\* no crash of another process, retry or late failure report takes it away.
THEOREM SuccessHasReceipt == Spec => []SuccessIsDurable
<1>1. Init => \A s \in Request : Told(s)
  BY DEF Init, Told, Idle
<1>2. /\ TypeOK /\ LeaseIffSubmitted /\ (\A s \in Request : Told(s)) /\ [Next]_vars
      => (\A s \in Request : Told(s))'
  BY StepRows, StepTold
<1>3. (\A s \in Request : Told(s)) => SuccessIsDurable
  BY Zenon DEF Told, SuccessIsDurable
<1> QED BY <1>1, <1>2, <1>3, TypeCorrectness, LeaseMatchesSubmission, PTL DEF Spec

-----------------------------------------------------------------------------
(* An operation is executed at most once, provided that a call id is only  *)
(* ever presented for one operation.                                       *)

Handler(r, o) == r \in McpRequest /\ req[r].pc = "run" /\ req[r].op = o
MayRun(c, o) == c \in Call /\ runner[c].pc = "mayRun" /\ runner[c].op = o

\* OneLicence, AtMostOnce and WriteAhead, operation by operation.
Once(o) ==
    /\ \A r, s : Handler(r, o) /\ Handler(s, o) => r = s
    /\ \A c, d : MayRun(c, o) /\ MayRun(d, o) => c = d
    /\ \A r, c : ~(Handler(r, o) /\ MayRun(c, o))
    /\ \A x : Handler(x, o) \/ MayRun(x, o) => effects[o] = 0 /\ status[o] \notin Unsubmitted
    /\ effects[o] # 0 => status[o] \notin Unsubmitted
    /\ effects[o] <= 1

OnceInv == \A o \in Op : Once(o)

\* A step that gives no permission and runs nothing.
QuietStep ==
    /\ effects' = effects
    /\ \A r, o : Handler(r, o)' => Handler(r, o)
    /\ \A c, o : MayRun(c, o)' => MayRun(c, o)

LEMMA QuietOnce ==
    ASSUME OnceInv, RowStep, QuietStep
    PROVE  OnceInv'
<1> SUFFICES ASSUME NEW o \in Op
             PROVE  Once(o)'
  BY Zenon DEF OnceInv
<1>1. /\ Once(o)
      /\ status[o] \notin Unsubmitted => status'[o] \notin Unsubmitted
      /\ effects'[o] = effects[o]
      /\ \A r : Handler(r, o)' => Handler(r, o)
      /\ \A c : MayRun(c, o)' => MayRun(c, o)
  BY Zenon DEF OnceInv, RowStep, QuietStep
<1>2. /\ \A r, s : Handler(r, o)' /\ Handler(s, o)' => r = s
      /\ \A c, d : MayRun(c, o)' /\ MayRun(d, o)' => c = d
      /\ \A r, c : ~(Handler(r, o)' /\ MayRun(c, o)')
      /\ \A x : Handler(x, o)' \/ MayRun(x, o)' => effects'[o] = 0 /\ status'[o] \notin Unsubmitted
      /\ effects'[o] # 0 => status'[o] \notin Unsubmitted
      /\ effects'[o] <= 1
  BY <1>1, Zenon DEF Once
<1> QED BY <1>2 DEF Once

\* A permission is given for an operation that was still unsubmitted.
LEMMA GrantOnce ==
    ASSUME TypeOK, OnceInv, RowStep, NEW k \in Op,
           status[k] \in Unsubmitted, status'[k] \notin Unsubmitted,
           effects' = effects, NEW x,
           \/ /\ \A r, o : Handler(r, o)' => Handler(r, o) \/ (r = x /\ o = k)
              /\ \A c, o : MayRun(c, o)' => MayRun(c, o)
           \/ /\ \A r, o : Handler(r, o)' => Handler(r, o)
              /\ \A c, o : MayRun(c, o)' => MayRun(c, o) \/ (c = x /\ o = k)
    PROVE  OnceInv'
<1> SUFFICES ASSUME NEW o \in Op
             PROVE  Once(o)'
  BY DEF OnceInv
<1>1. /\ Once(o)
      /\ status[o] \notin Unsubmitted => status'[o] \notin Unsubmitted
      /\ effects'[o] = effects[o]
      /\ effects[o] \in Nat
  BY Zenon DEF OnceInv, RowStep, TypeOK
<1>2. /\ \A r, s : Handler(r, o)' /\ Handler(s, o)' => r = s
      /\ \A c, d : MayRun(c, o)' /\ MayRun(d, o)' => c = d
      /\ \A r, c : ~(Handler(r, o)' /\ MayRun(c, o)')
      /\ \A y : Handler(y, o)' \/ MayRun(y, o)' => effects'[o] = 0 /\ status'[o] \notin Unsubmitted
      /\ effects'[o] # 0 => status'[o] \notin Unsubmitted
      /\ effects'[o] <= 1
  <2>1. CASE o = k
    <3>1. /\ \A r : ~Handler(r, k)
          /\ \A c : ~MayRun(c, k)
          /\ effects[k] = 0
      BY <1>1, <2>1, Zenon DEF Once
    <3>2. effects'[o] = 0 /\ status'[o] \notin Unsubmitted
      BY <1>1, <2>1, <3>1, Zenon
    <3>3. effects'[o] <= 1
      BY <3>2
    <3>4. \/ (\A r : Handler(r, o)' => r = x) /\ (\A c : ~MayRun(c, o)')
          \/ (\A c : MayRun(c, o)' => c = x) /\ (\A r : ~Handler(r, o)')
      BY <2>1, <3>1, Zenon
    <3> QED BY ONLY <3>2, <3>3, <3>4
  <2>2. CASE o # k
    <3>1. /\ \A r : Handler(r, o)' => Handler(r, o)
          /\ \A c : MayRun(c, o)' => MayRun(c, o)
      BY <2>2
    <3> QED BY <1>1, <3>1, Zenon DEF Once
  <2> QED BY <2>1, <2>2, Zenon
<1> QED BY <1>2, Zenon DEF Once

\* The holder of the permission uses it.
LEMMA RunOnce ==
    ASSUME TypeOK, OnceInv, RowStep, NEW k \in Op, NEW x,
           effects' = [effects EXCEPT ![k] = @ + 1],
           \A r, o : Handler(r, o)' => Handler(r, o),
           \A c, o : MayRun(c, o)' => MayRun(c, o),
           \/ Handler(x, k) /\ ~Handler(x, k)'
           \/ MayRun(x, k) /\ ~MayRun(x, k)'
    PROVE  OnceInv'
<1> SUFFICES ASSUME NEW o \in Op
             PROVE  Once(o)'
  BY DEF OnceInv
<1>1. /\ Once(o)
      /\ Once(k)
      /\ status[o] \notin Unsubmitted => status'[o] \notin Unsubmitted
      /\ effects[o] \in Nat
      /\ effects'[o] = IF o = k THEN effects[o] + 1 ELSE effects[o]
  BY Zenon DEF OnceInv, RowStep, TypeOK
<1>2. /\ \A r, s : Handler(r, o)' /\ Handler(s, o)' => r = s
      /\ \A c, d : MayRun(c, o)' /\ MayRun(d, o)' => c = d
      /\ \A r, c : ~(Handler(r, o)' /\ MayRun(c, o)')
      /\ \A y : Handler(y, o)' \/ MayRun(y, o)' => effects'[o] = 0 /\ status'[o] \notin Unsubmitted
      /\ effects'[o] # 0 => status'[o] \notin Unsubmitted
      /\ effects'[o] <= 1
  <2>1. CASE o = k
    <3>1. /\ \A r : ~Handler(r, k)'
          /\ \A c : ~MayRun(c, k)'
          /\ effects[k] = 0
          /\ status[k] \notin Unsubmitted
      BY <1>1, <2>1, Zenon DEF Once
    <3> QED BY <1>1, <2>1, <3>1
  <2>2. CASE o # k
    BY <1>1, <2>2, Zenon DEF Once
  <2> QED BY <2>1, <2>2, ZenonT(30)
<1> QED BY <1>2, Zenon DEF Once

LEMMA QuietRequests ==
    ASSUME \A s \in McpRequest : req'[s] = req[s] \/ req'[s].pc # "run"
    PROVE  \A r, o : Handler(r, o)' => Handler(r, o)
BY DEF Handler

LEMMA QuietRunners ==
    ASSUME \A c \in Call : runner'[c] = runner[c] \/ runner'[c].pc # "mayRun"
    PROVE  \A c, o : MayRun(c, o)' => MayRun(c, o)
BY Zenon DEF MayRun

LEMMA ExecOnce ==
    ASSUME TypeOK, OnceInv, RowStep, NEW r \in ExecRequest, ExecStep(r)
    PROVE  OnceInv'
<1>1. effects' = effects
  BY DEF ExecStep, ExecArrive, Arrive, ExecRegister, ExecCheckReceipt,
         ExecCheckIndeterminate, ExecBlock, ExecValidate, ExecReturn
<1>2. \A s \in McpRequest : req'[s] = req[s]
  BY RequestsAreOfAKind, ConstantsAssumption, Zenon
     DEF TypeOK, ExecStep, ExecArrive, Arrive, ExecRegister, ExecCheckReceipt,
         ExecCheckIndeterminate, ExecBlock, ExecValidate, ExecReturn, Goto, Finish
<1>3. \A c \in Call : runner'[c] = runner[c] \/ runner'[c].pc # "mayRun"
  BY DEF TypeOK, ExecStep, ExecArrive, Arrive, ExecRegister, ExecCheckReceipt,
         ExecCheckIndeterminate, ExecBlock, ExecValidate, ExecReturn
<1> QED BY <1>1, <1>2, <1>3, QuietRequests, QuietRunners, QuietOnce DEF QuietStep

LEMMA McpOnce ==
    ASSUME UniqueNames, TypeOK, Presented, OnceInv, RowStep, NEW r \in McpRequest, McpStep(r)
    PROVE  OnceInv'
<1> r \in Request
  BY RequestsAreOfAKind, SMTT(20)
<1>a. UNCHANGED runner
  BY Zenon DEF McpStep, McpArrive, Arrive, McpCheckIndeterminate, McpCheckReceipt, McpRegister,
         McpValidate, McpSubmit, McpRun, McpCommit, McpAcknowledge, McpFail, McpReturn
<1>b. \A c, o : MayRun(c, o)' => MayRun(c, o)
  BY <1>a, QuietRunners, ZenonT(30)
<1>c. ASSUME Moves(r), req'[r].pc # "run"
      PROVE  \A s, o : Handler(s, o)' => Handler(s, o)
  BY <1>c, QuietRequests, RequestsAreOfAKind DEF Moves
<1>1. CASE McpArrive(r) \/ McpReturn(r)
  <2>1. \A s \in McpRequest : req'[s] = req[s] \/ req'[s].pc # "run"
    <3>1. /\ \A s \in Request : s # r => req'[s] = req[s]
          /\ req'[r].pc \in {"indeterminate", "idle"}
      BY <1>1, ArriveMoves, ReturnMoves, Zenon DEF McpArrive, McpReturn
    <3> QED BY <3>1, RequestsAreOfAKind
  <2> QED BY <1>1, <1>b, <2>1, QuietRequests, QuietOnce, Zenon
          DEF QuietStep, McpArrive, Arrive, McpReturn
<1>2. CASE McpCheckIndeterminate(r)
  <2>1. Moves(r) /\ req'[r].pc # "run"
    <3>1. Moves(r) /\ req'[r].pc \in {"done", "receipt"}
      BY <1>2, GotoMoves, FinishMoves, Zenon DEF McpCheckIndeterminate
    <3> QED BY <3>1
  <2> QED BY <1>2, <1>b, <1>c, <2>1, QuietOnce, Zenon DEF QuietStep, McpCheckIndeterminate
<1>3. CASE McpCheckReceipt(r)
  <2>1. Moves(r) /\ req'[r].pc # "run"
    <3>1. Moves(r) /\ req'[r].pc \in {"done", "register"}
      BY <1>3, GotoMoves, FinishMoves, Zenon DEF McpCheckReceipt
    <3> QED BY <3>1
  <2> QED BY <1>3, <1>b, <1>c, <2>1, QuietOnce, Zenon DEF QuietStep, McpCheckReceipt
<1>4. CASE McpRegister(r)
  <2>1. Moves(r) /\ req'[r].pc # "run"
    <3>1. Moves(r) /\ req'[r].pc \in {"done", "validate"}
      BY <1>4, GotoMoves, FinishMoves, Zenon DEF McpRegister
    <3> QED BY <3>1
  <2> QED BY <1>4, <1>b, <1>c, <2>1, QuietOnce, Zenon DEF QuietStep, McpRegister
<1>5. CASE McpValidate(r)
  <2>1. Moves(r) /\ req'[r].pc # "run"
    BY <1>5, GotoMoves, ZenonT(30) DEF McpValidate
  <2> QED BY <1>5, <1>b, <1>c, <2>1, QuietOnce, Zenon DEF QuietStep, McpValidate
<1>6. CASE McpSubmit(r)
  <2>1. CASE MarkSubmitted(req[r].proc, req[r].call) /\ Goto(r, "run")
    <3> DEFINE k == callOp[req[r].call]
    <3>1. req[r].call \in Call /\ req[r].op \in Names[req[r].call]
      BY <1>6, RequestTypes, Zenon DEF McpSubmit, Presented, NamedRequests
    <3>2. k # NoOp /\ k \in Op /\ k \in Names[req[r].call]
      BY <2>1, <3>1, Zenon DEF MarkSubmitted, CanSubmit, TypeOK, Presented, NamedCalls
    <3>3. k = req[r].op
      BY <3>1, <3>2 DEF UniqueNames
    <3>4. status[k] \in Unsubmitted /\ status'[k] \notin Unsubmitted
      BY <2>1, <3>2, Zenon DEF MarkSubmitted, CanSubmit, MarkOperationSubmitted, TypeOK, Unsubmitted
    <3>5. Moves(r)
      BY <1>6, <2>1, GotoMoves, Zenon DEF McpSubmit
    <3>6. \A s, o : Handler(s, o)' => Handler(s, o) \/ (s = r /\ o = k)
      BY <3>3, <3>5, RequestsAreOfAKind, Zenon DEF Handler, Moves
    <3>7. effects' = effects
      BY <1>6, Zenon DEF McpSubmit
    <3> HIDE DEF k
    <3> QED BY ONLY TypeOK, OnceInv, RowStep, <1>b, <3>2, <3>4, <3>6, <3>7, GrantOnce
  <2>2. CASE Finish(r, "error")
    <3>1. Moves(r) /\ req'[r].pc # "run"
      BY <1>6, <2>2, FinishMoves, Zenon DEF McpSubmit
    <3> QED BY <1>6, <1>b, <1>c, <3>1, QuietOnce, Zenon DEF QuietStep, McpSubmit
  <2> QED BY <1>6, <2>1, <2>2, Zenon DEF McpSubmit
<1>7. CASE McpRun(r)
  <2>1. PICK ran \in BOOLEAN, pc \in {"commit", "fail", "acknowledge"} :
            /\ req' = [req EXCEPT ![r] = [req[r] EXCEPT !.pc = pc, !.ran = ran]]
            /\ effects' = IF ran THEN [effects EXCEPT ![req[r].op] = @ + 1] ELSE effects
    BY <1>7, Zenon DEF McpRun
  <2>2. req[r] \in Serving /\ req[r].op \in Op
    BY <1>7, RequestTypes DEF McpRun
  <2>3. req'[r] = [req[r] EXCEPT !.pc = pc, !.ran = ran]
    BY <2>1 DEF TypeOK
  <2>4. \A s \in McpRequest : s # r => req'[s] = req[s]
    BY <2>1, RequestsAreOfAKind DEF TypeOK
  <2>5. req'[r].pc # "run"
    BY <2>2, <2>3 DEF Serving
  <2>6. \A s, o : Handler(s, o)' => Handler(s, o)
    BY <2>4, <2>5, QuietRequests
  <2>7. Handler(r, req[r].op) /\ \A o : ~Handler(r, o)'
    BY <1>7, <2>5 DEF McpRun, Handler
  <2>8. CASE ran
    <3> DEFINE k == req[r].op
    <3>1. effects' = [effects EXCEPT ![k] = @ + 1]
      BY <2>1, <2>8
    <3>2. k \in Op /\ Handler(r, k) /\ \A o : ~Handler(r, o)'
      BY <2>2, <2>7
    <3> HIDE DEF k
    <3>3. ~Handler(r, k)'
      BY <3>2
    <3> QED BY <1>b, <2>6, <3>1, <3>2, <3>3, RunOnce, Zenon
  <2>9. CASE ~ran
    BY <1>b, <2>1, <2>6, <2>9, QuietOnce DEF QuietStep
  <2> QED BY <2>8, <2>9, SMTT(20)
<1>8. CASE McpCommit(r)
  <2>1. Moves(r) /\ req'[r].pc # "run"
    <3>1. Moves(r) /\ req'[r].pc \in {"done", "fail"}
      BY <1>8, CommitMoves
    <3> QED BY <3>1
  <2> QED BY <1>8, <1>b, <1>c, <2>1, QuietOnce, Zenon DEF QuietStep, McpCommit
<1>9. CASE McpAcknowledge(r)
  <2>1. Moves(r) /\ req'[r].pc # "run"
    BY <1>9, FinishMoves, Zenon DEF McpAcknowledge
  <2> QED BY <1>9, <1>b, <1>c, <2>1, QuietOnce, Zenon DEF QuietStep, McpAcknowledge
<1>10. CASE McpFail(r)
  <2>1. Moves(r) /\ req'[r].pc # "run"
    BY <1>10, FinishMoves, Zenon DEF McpFail
  <2> QED BY <1>10, <1>b, <1>c, <2>1, QuietOnce, Zenon DEF QuietStep, McpFail
<1> QED BY <1>1, <1>2, <1>3, <1>4, <1>5, <1>6, <1>7, <1>8, <1>9, <1>10 DEF McpStep

LEMMA OthersOnce ==
    ASSUME UniqueNames, TypeOK, Presented, OnceInv, RowStep,
           \/ \E p \in Process, c \in Call : HttpStep(p, c)
           \/ \E c \in Call : RunnerRuns(c) \/ RunnerStops(c)
           \/ \E o \in Op : LeaseExpires(o)
           \/ \E p \in Process : Crash(p) \/ Start(p)
    PROVE  OnceInv'
<1>a. ASSUME UNCHANGED req
      PROVE  \A r, o : Handler(r, o)' => Handler(r, o)
  BY <1>a, QuietRequests
<1>1. ASSUME NEW p \in Process, NEW c \in Call, HttpSubmit(p, c)
      PROVE  OnceInv'
  <2>1. CASE UNCHANGED runner
    BY <1>1, <1>a, <2>1, QuietRunners, QuietOnce DEF QuietStep, HttpSubmit
  <2>2. CASE ~UNCHANGED runner
    <3> DEFINE k == callOp[c]
    <3>1. /\ MarkSubmitted(p, c)
          /\ runner' = [runner EXCEPT ![c] = [runner[c] EXCEPT !.pc = "mayRun"]]
          /\ runner[c].pc # "idle"
          /\ UNCHANGED <<req, effects>>
      BY <1>1, <2>2, Zenon DEF HttpSubmit
    <3>2. k \in Op /\ k = runner[c].op
      <4>1. k # NoOp /\ k \in Op
        BY <3>1 DEF MarkSubmitted, CanSubmit, TypeOK
      <4>2. k \in Names[c] /\ runner[c].op \in Names[c]
        BY <3>1, <4>1 DEF Presented, NamedCalls, NamedRunners
      <4> QED BY <4>1, <4>2 DEF UniqueNames
    <3>3. status[k] \in Unsubmitted /\ status'[k] \notin Unsubmitted
      BY <3>1, <3>2 DEF MarkSubmitted, CanSubmit, MarkOperationSubmitted, TypeOK, Unsubmitted
    <3>4. runner[c] \in Runner
      BY <3>1 DEF TypeOK, NoRunner
    <3>5. [runner[c] EXCEPT !.pc = "mayRun"].op = runner[c].op
      BY <3>4 DEF Runner
    <3>6. \A d, o : MayRun(d, o)' => MayRun(d, o) \/ (d = c /\ o = k)
      BY <3>1, <3>2, <3>5 DEF MayRun, TypeOK
    <3>7. \A r, o : Handler(r, o)' => Handler(r, o)
      BY <1>a, <3>1, Zenon
    <3> HIDE DEF k
    <3> QED BY <3>1, <3>2, <3>3, <3>6, <3>7, GrantOnce
  <2> QED BY <2>1, <2>2
<1>2. ASSUME NEW p \in Process, NEW c \in Call, HttpCommit(p, c) \/ HttpIndeterminate(p, c)
      PROVE  OnceInv'
  <2>1. \A d \in Call : runner'[d] = runner[d] \/ runner'[d].pc # "mayRun"
    BY <1>2 DEF HttpCommit, HttpIndeterminate, TypeOK, NoRunner
  <2> QED BY <1>2, <1>a, <2>1, QuietRunners, QuietOnce, ZenonT(30) DEF QuietStep, HttpCommit, HttpIndeterminate
<1>3. ASSUME NEW c \in Call, RunnerRuns(c)
      PROVE  OnceInv'
  <2> DEFINE k == runner[c].op
  <2>1. runner[c] \in Runner
    BY <1>3 DEF RunnerRuns, TypeOK, NoRunner
  <2>2. k \in Op /\ [runner[c] EXCEPT !.pc = "ran"].pc = "ran"
    BY <2>1 DEF Runner
  <2>3. /\ \A d, o : MayRun(d, o)' => MayRun(d, o)
        /\ MayRun(c, k)
        /\ \A o : ~MayRun(c, o)'
    BY <1>3, <2>2 DEF RunnerRuns, MayRun, TypeOK
  <2>4. effects' = [effects EXCEPT ![k] = @ + 1]
    BY <1>3 DEF RunnerRuns
  <2>5. \A r, o : Handler(r, o)' => Handler(r, o)
    BY <1>a, <1>3 DEF RunnerRuns
  <2> HIDE DEF k
  <2>6. ~MayRun(c, k)'
    BY <2>3
  <2> QED BY <2>2, <2>3, <2>4, <2>5, <2>6, RunOnce, Zenon
<1>4. ASSUME NEW c \in Call, RunnerStops(c)
      PROVE  OnceInv'
  <2>1. \A d \in Call : runner'[d] = runner[d] \/ runner'[d].pc # "mayRun"
    BY <1>4 DEF RunnerStops, TypeOK, NoRunner
  <2> QED BY <1>4, <1>a, <2>1, QuietRunners, QuietOnce, Zenon DEF QuietStep, RunnerStops
<1>5. ASSUME NEW o \in Op, LeaseExpires(o)
      PROVE  OnceInv'
  BY <1>5, <1>a, QuietRunners, QuietOnce DEF QuietStep, LeaseExpires
<1>6. ASSUME NEW p \in Process, Crash(p)
      PROVE  OnceInv'
  <2>1. \A s \in McpRequest : req'[s] = req[s] \/ req'[s].pc # "run"
    BY <1>6, RequestsAreOfAKind DEF Crash, Idle
  <2> QED BY <1>6, <2>1, QuietRequests, QuietRunners, QuietOnce, ZenonT(30) DEF QuietStep, Crash
<1>7. ASSUME NEW p \in Process, Start(p)
      PROVE  OnceInv'
  BY <1>7, <1>a, QuietRunners, QuietOnce, Zenon DEF QuietStep, Start
<1> QED BY <1>1, <1>2, <1>3, <1>4, <1>5, <1>6, <1>7, Zenon DEF HttpStep

\* The inductive invariant behind the next theorem.
SafetyInv == TypeOK /\ LeaseIffSubmitted /\ Presented /\ OnceInv

LEMMA SafetyInductive ==
    ASSUME UniqueNames
    PROVE  SafetyInv /\ [Next]_vars => SafetyInv'
<1> SUFFICES ASSUME SafetyInv, [Next]_vars
             PROVE  SafetyInv'
  OBVIOUS
<1> USE DEF SafetyInv
<1>1. TypeOK' /\ LeaseIffSubmitted' /\ RowStep /\ BindingStep
  BY TypeInductive, LeaseInductive, StepRows
<1>2. CASE UNCHANGED vars
  <2>1. Presented'
    BY <1>2, Zenon DEF vars, Presented, NamedCalls, NamedRecords, NamedRequests, NamedRunners,
                BoundRequests, BoundRunners, Registered
  <2>2. OnceInv'
    BY <1>1, <1>2, QuietRequests, QuietRunners, QuietOnce, Zenon DEF vars, QuietStep
  <2> QED BY <1>1, <2>1, <2>2
<1>3. CASE Next
  <2>1. Presented'
    BY <1>1, <1>3, ExecPresented, McpPresented, OthersPresented DEF Next
  <2>2. OnceInv'
    BY <1>1, <1>3, ExecOnce, McpOnce, OthersOnce DEF Next
  <2> QED BY <1>1, <2>1, <2>2
<1> QED BY <1>2, <1>3

LEMMA SafetyInit == Init => SafetyInv
<1> SUFFICES ASSUME Init
             PROVE  SafetyInv
  OBVIOUS
<1>1. TypeOK
  BY InitType
<1>2. LeaseIffSubmitted
  BY DEF Init, LeaseIffSubmitted, NoLease
<1>3. Presented
  BY RequestsAreOfAKind, Zenon
     DEF Init, Presented, NamedCalls, NamedRecords, NamedRequests, NamedRunners,
         BoundRequests, BoundRunners, Registered, Idle, NoRunner
<1>4. OnceInv
  <2>1. \A r, o : ~Handler(r, o)
    BY RequestsAreOfAKind DEF Init, Handler, Idle
  <2>2. \A c, o : ~MayRun(c, o)
    BY DEF Init, MayRun, NoRunner
  <2>3. \A o \in Op : effects[o] = 0
    BY DEF Init
  <2>4. \A o \in Op : effects[o] <= 1
    BY ONLY <2>3
  <2> QED BY <2>1, <2>2, <2>3, <2>4, Zenon DEF OnceInv, Once
<1> QED BY <1>1, <1>2, <1>3, <1>4, Zenon DEF SafetyInv

\* As long as clients do not reuse a tool-call id for another operation, the
\* tool of an operation runs at most once, and never before the database
\* says that it may have run.
THEOREM ToolRunsAtMostOnce ==
    ASSUME UniqueNames
    PROVE  Spec => [](AtMostOnce /\ WriteAhead)
<1>1. SafetyInv => AtMostOnce /\ WriteAhead
  BY DEF SafetyInv, OnceInv, Once, AtMostOnce, WriteAhead, Unsubmitted
<1>2. Init => SafetyInv
  BY SafetyInit
<1>3. SafetyInv /\ [Next]_vars => SafetyInv'
  BY SafetyInductive
<1> QED BY <1>1, <1>2, <1>3, PTL DEF Spec

\* Under the same assumption, permission to run an operation is given at most
\* once at a time and only for an operation that has not run.
THEOREM AtMostOneLicence ==
    ASSUME UniqueNames
    PROVE  Spec => []OneLicence
<1>1. SafetyInv => OneLicence
  <2> SUFFICES ASSUME SafetyInv, NEW o \in Op
               PROVE  LET handlers == {r \in McpRequest : req[r].pc = "run" /\ req[r].op = o}
                          runners == {c \in Call : runner[c].pc = "mayRun" /\ runner[c].op = o}
                      IN  /\ \A r, s \in handlers : r = s
                          /\ \A c, d \in runners : c = d
                          /\ handlers = {} \/ runners = {}
                          /\ handlers # {} \/ runners # {} =>
                                effects[o] = 0 /\ status[o] \notin {"none", "proposed", "validated"}
    BY Zenon DEF OneLicence
  <2>1. Once(o)
    BY DEF SafetyInv, OnceInv
  <2> QED BY <2>1, Zenon DEF Once, Handler, MayRun, Unsubmitted
<1>2. Init => SafetyInv
  BY SafetyInit
<1>3. SafetyInv /\ [Next]_vars => SafetyInv'
  BY SafetyInductive
<1> QED BY <1>1, <1>2, <1>3, PTL DEF Spec

=============================================================================
