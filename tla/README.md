# A verification of DuraLLM

DuraLLM is a gateway between LLM clients and LLM providers. Each gateway process
serves requests on threads; several processes may share one SQLite database.
This directory models the parts of it whose correctness depends on the order in
which threads, processes, clients and crashes act, checks them with TLC on small
instances, and proves the central properties with TLAPS for instances of any size.

`PROJECT.json` lists the components, runs, mutants, the map from definitions to
source lines, findings, hazards and theorems. Source paths below are relative to
`src/durallm/`.

## The system

| Part | Source | Modelled in |
| --- | --- | --- |
| Durable tool-operation ledger and leases | `storage/sqlite.py`, `storage/tool_ledger.py`, `agent/idempotency.py` | `DurableToolLedger` |
| Its clients: executor tool loop, MCP proxy, tool-operation endpoints | `execution/executor.py`, `mcp/proxy.py`, `proxy.py` | `DurableToolLedger` |
| Continuation sessions: the promise | `continuation/store.py` | `Continuation` |
| Continuation sessions: the SQLite store | `continuation/sqlite.py`, `gateway.py` | `SQLiteContinuation` |
| Circuit breaker and its sliding window | `breaker/` | `CircuitBreaker` |
| Executor's attempt loop, attempt ledger, policies, deadline | `execution/` | `Executor` |
| Budget reservations | `routing/budget.py` | `Executor` |
| Attempt store | `storage/sqlite.py` | `Executor` |
| Native streams and the handlers that relay them | `execution/executor.py`, `providers/adapters.py`, `proxy.py` | `NativeStream` |
| Route pools, version-1 dispatch loop | `pools.py`, `router.py` | `RoutePools` |
| Canary scheduler and quirks ledger | `canary.py` | `Canary` |
| Gateway facade, router filters, health flags, quota lockouts, restart | `gateway.py`, `routing/router.py`, `health/`, `storage/sqlite.py` | `Gateway` |
| Failure classifier | `classifier.py` | `FailureClassifier` |
| Context compaction | `agent/context.py` | `ContextManager` |
| Outgoing payload and its pruning | `protocol/openai.py`, `pruner.py`, `providers/adapters.py` | `Pruner` |
| Tool-call and response validation | `agent/tool_validation.py`, `validation/` | `ToolValidator` |
| One agent turn through the last four | `execution/executor.py`, `protocol/` | `AgentTurn` |

What is left out, and why, is under "Not modelled". Where a modelled component calls
one of those parts, its result is a nondeterministic choice.

How the parts meet: the front end (`proxy.py`) hands a completion to the gateway,
which opens a continuation turn (if the client asked for one), runs the executor's
attempt loop, and completes or interrupts the turn. The loop asks the router for a
candidate, reserves budget, asks the candidate's breaker for permission, persists
the attempt, calls the provider, and reports the outcome to all of them. Tool calls
in the answer pass through the tool ledger, which the client's tool runner and the
MCP proxy drive as well. A request for a stream runs a loop of its own and relays the
provider's bytes. Beside the requests, the version-1 dispatch loop and the nightly
canary act on the same pools.

The executor appears three times, because its state splits in three: `Executor` has
the control of the loop for concurrent requests, `NativeStream` the streaming loop,
and `AgentTurn` the data of one request (sizes, verdicts, tool calls). `Gateway` has
the state that outlives a request.

## Modules

### DurableToolLedger

What is durable: the status and receipt of every operation, the binding of call
ids to operations, the lease of every operation. What is process-local and lost in
a crash: the cached records and the remembered leases. An operation is a logical
operation id (with its tool) and an argument hash. Owner ids are fresh per ledger
object, so a process that restarts never owns its old leases; they belong to
`NoProcess`. Lease expiry is a bit that time may clear at any step.

Store operations (`Prepare`, `MarkOperation...`, `RecoverInflightOperations`) are
one SQLite transaction each and one step at most. The ledger methods (`Register`,
`MarkSubmitted`, ...) add the cache and remembered lease. The clients call them one
at a time:

* the executor: `ExecRegister`, `ExecCheckReceipt`, `ExecCheckIndeterminate`,
  `ExecBlock`, `ExecValidate`, `ExecReturn`;
* the MCP proxy: `McpCheckIndeterminate`, `McpCheckReceipt`, `McpRegister`,
  `McpValidate`, `McpSubmit`, `McpRun`, then `McpCommit` or `McpFail`, or
  `McpAcknowledge` when the tool has no handler;
* the tool runner, over HTTP and through any process: `HttpSubmit`, `HttpCommit`,
  `HttpIndeterminate`, with lost replies and repeated requests. The runner itself
  is external: it runs a tool once when it was told that its submission was accepted.

`Crash` and `Start` end and begin a process; `Start` runs the recovery of the
ledger's constructor. `effects` is a history variable that counts tool runs.

### Continuation and SQLiteContinuation

`Continuation` is what a session promises, taken from the in-memory store, whose
methods are atomic under one lock: one active turn, completed turns form a chain
of checkpoints, and the next turn needs the last checkpoint acknowledged and named
as parent. A digest is the identity of the turn it is computed from. `Turns` has what
the two modules share.

`SQLiteContinuation` has one step per statement of the SQLite store: threads of
several processes acquire the session lease, load, create, check, clear a crashed
turn, save under a revision comparison, remember the lease, and release it in the
`finally` blocks. `Crash` loses the process's threads and `_turn_leases`.
`ImplementsContract` maps the session row to the contract's variables.

### CircuitBreaker

One breaker, whose methods hold its lock and are one step each; what interleaves
is the calls, which are admitted in one state and reported in another. Timers are
flags raised some time after they start. `Abandon` is the executor leaving an
admitted attempt without a report (key rotation, blocked tool operation, stream
not opened). The window is count-based, the default; no cluster store.

### Executor

`GatewayExecutor.execute` for several concurrent requests of one process. `run[r]`
holds the local variables of a call of `execute` and its `AttemptLedger`; shared
are the policy's attempt limit, the reservations and spending of one budget scope,
and the durable attempt rows. The router, the breakers, the providers and the
classifier are the environment: the router offers any endpoint that is not excluded
or none, a breaker admits or refuses, a call ends in any kind of outcome the loop
tells apart (listed at `Outcome`). The deadline may pass at any check of it.

One pass of the loop is `Reject`, `Choose`, or `Rollover` (wait for rate limits and
readmit endpoints); then `Reserve`, `Admit` or `Refuse`, `Prepare`, `Send`,
`Return`, `Settle`, and one of `Finish`, `Rotate`, `Adapt` (clamp the output or
shrink the window), `FallBack`, `Retry`. `PrepareFails`, `LockoutFails` and
`FinishFails` are a store that raises; `AnswerLost` is `finish_attempt` raising after
a valid answer, which the handler at `executor.py:952` takes for a failed
normalisation: the answer is dropped and the attempt entered twice. `Crash` ends
the process; the rows stay.

`excluded_endpoints` is a list that can name an endpoint twice, which is why a
rollover can leave one excluded: the model counts. `_endpoints_attempted` is the set
`kept` of positions in `attempts`. `sent`, `era` and `how` are history. Two branches
of the code are unreachable and appear as such: every classification sets
`should_fallback`, so the non-recoverable error is never raised (it has no action),
and a rollover never finds the limit reached, so it never raises the shared policy
limit (`AttemptsBounded`).

### NativeStream

One request for a streamed answer, from the HTTP handler to the end of its thread:
`open_native_stream` (its loop of candidate, breaker, row, connection and first
chunk, with the rollover), the `NativeStreamHandle` the handler iterates, the byte
stream of the adapter, and the handler that writes headers, chunks and, after a
failure, one interruption event. `log` is what was written about each admission:
row, ledger entry, breaker report. `client` is what the client got and whether it
still reads. The provider may fail at every point, the store may raise at every
write, and the client may leave or stall while the handler writes. A read may end
cleanly although the answer was cut: `http.client` returns `b''` for a body that is not
chunked and ends early, and the adapter takes it for the end (`adapters.py:118`).

### RoutePools, Canary and Gateway

Each extends the one before. `RoutePools` is the pool manager and the version-1
dispatch loop, with one step per call that takes the manager's lock. `Canary` has
the scheduler's threads, its lock, stop event and thread handle, and the steps of a
probe: read the ledger file, ping, enter results in the pools, write the file. `stop`
waits two seconds for a thread that sleeps ten, so a thread can outlive it.
`Gateway` composes both with the executor's view: `synced` (endpoints registered
from the pools), `dead` (the router's dead list), `health`, and the lockout rows of
the database, `row` and `rowAll`. A row names what follows the last colon of the
endpoint's id, which for a `:free` model is no route (`CutId`). `Restart` keeps the rows and the ledger file and
reloads the rest from them, as the constructor does. The executor's two loops differ
in the marks that they leave, so a request has a `path`. Time is a tick that shortens
every daily lockout; cooldowns are kept in the order in which they end. `learnt` and
`gone` are history.

### FailureClassifier, ContextManager, Pruner, ToolValidator and AgentTurn

The first four are operators. A refusal is its status code and the set of patterns
found in its text; the verdict is the first rule that applies. A text is its length
in characters, and the limits are those of the code; floating-point factors are
integer divisions, so a size may differ from the code's by one. A message keeps its
position in the client's conversation as its id, which is how a property can say
what was dropped. A JSON value has a type, a text by which the validator tells values
apart (digits, a superscript digit, true in any case, a comma before a bracket, ...) and
members; schemas are two deep. A source of arguments is JSON, loose JSON with control
characters in strings, fenced, with commas or quotes to mend, empty, or no object.

`AgentTurn` runs them as the executor does: `Try`, which is compaction for the window
assumed of the endpoint, conversion and pruning, the call, then the verdict, which
shrinks the window, clamps the output, retries, retires or excludes the endpoint; or the
validation of an answer, which is delivered, rejected, or raises. When no candidate is
left, `Rollover` waits for a rate limit: it takes each limited endpoint off the exclusion
list once and forgets its attempts, while windows and clamps stay. There is one request;
every endpoint has a provider and one key of its own; there is no budget, breaker or hop
limit (three endpoints never reach the default of eight), and the deadline is only felt
as too short for another wait: `Executor` has those. Cooldowns do not hide candidates
from the router, and the success rates that `record_failure` lowers only rank them.
Providers are honest: they refuse a prompt for its size only if it exceeds their real
limit, and the limits they name are real. `named`, `capped`, `refused`, `counted` and
`last` are history.

## Runs

| Run | Question | Result |
| --- | --- | --- |
| `ledger` | two gateways, one completion and one MCP request, two call ids, one operation, with crashes | the tool runs at most once, after a durable submission; what was acknowledged or committed stays |
| `ledger_recovery` | one call id, two argument hashes; a gateway that dies is restarted | submissions of a dead gateway get resolved |
| `ledger_wrong_receipt` | is an operation's receipt of that operation? | violated |
| `sqlite_continuation` | two processes, two threads, three turns, crashes, expiry | implements the contract; an acknowledgement marks the checkpoint it names |
| `sqlite_continuation_one_live` | is there one live turn? | violated |
| `breaker` | two callers, dropped permits, an operator | permit accounting, tripping, closing; OPEN ends, and HALF_OPEN unless probes keep ending without a counted outcome |
| `breaker_stuck` | permits may be dropped: does HALF_OPEN end? | violated: HALF_OPEN for ever |
| `executor` | one request, four endpoints, a rollover, a crash, store failures | calls and retries bounded; no return to an endpoint; rows written ahead; every step nearer to the end |
| `executor_budget` | two requests, one budget scope, every outcome | reservations follow attempts; a scope exceeds its limit only by what single turns cost beyond their estimates |
| `native_stream` | one streamed request, three endpoints, failures of provider, store and client | no two answers in one, no failed relay that looks like a whole answer, connections closed, attempts settled, the request ends |
| `gateway` | two pools, both loops, canary threads, restarts | exhausted, gone and retired models are not used; pools mark nothing of each other but accounts and dead models; the scheduler stops; lockouts end |
| `agent_turn` | one turn, 24 conversations, three endpoints with different windows, a rollover | size refusals are bounded, named limits and caps are honoured for the rest of the turn, the oldest goes first, the root objective stays, endpoints are blamed only for their own failures, delivered tool calls conform |

The three violated properties state what a document or comment of the repository
says; `PROJECT.json` quotes the line and the code that disagrees.

The types of the ledger, the sessions, the executor, the breaker and the streams are
proved, so the runs do not check them again. Every property of a passing run has a
mutant: a plausible slip in one definition under which TLC finds it violated.

### Bounds

Two processes suffice for every race over the database: one that acts and one that
recovers, restarts or competes. Two calls for one operation give every duplicate;
two argument hashes under one call give every confusion of operations. Three turns
reach begin, crash, begin again, complete, acknowledge, begin. Fencing tokens are
capped by `MaxToken`.

The breaker's window of three with a minimum of two calls reaches eviction; two
callers with two permits reach a probe that overlaps a late report of a call admitted
before the trip. Its permit accounting and thresholds are proved for any number.

Four endpoints and four attempts let a request use up its hops before its endpoints
and take a rollover. The code allows three; a second starts from a state of the same
shape, so the run has one. Its outcomes are one of each kind the loop treats
differently; `executor_budget` takes all of them on two endpoints. A limit of five
for turns estimated at two makes the third reservation fail unless an earlier turn
cost less; a turn costs one to three.

A stream of two chunks has a first chunk, one relayed after it, and an end. Three
endpoints, of which two suit the request, with three attempts and one rollover,
reach every way into and out of the streaming loop.

In `gateway` one model is a route of both pools, another comes from the ledger file,
a third is found by the canary and a fourth is retired. Each run of the system takes
one `Workload`: how often it serves, dispatches, starts, stops, probes, restarts and
fails. There are seven, one for each pair or triple of activities that share state;
all of them at once would be out of reach. A lockout lasts at most two ticks, so one
can end while another holds.

The windows of `agent_turn` are real ones (8192, 32768, 131072), with real limits
below them, and the texts lie on both sides of every limit in the code that the
phases of compaction and pruning test. `MaxMishaps` allows one refusal or bad answer
that no limit explains. Four attempts, three of them at one endpoint, and one wait reach
clamps by two endpoints, a size rejection after a shrunk window, and shrunken and
clamped endpoints that are asked again after a rollover. A third size rejection is not
reached on this instance; the bound is proved for any.

Symmetry is declared over interchangeable processes, calls, requests and endpoints,
and never in a run with a liveness property (`Progress` is an action property).

What each property excepts is in its comment. Three exceptions are the code's own:

* `WithinBudget` adds `overrun`, what turns cost beyond their estimates:
  `estimated_cost_usd` assumes at most 4096 output tokens when the request names no
  limit, so an estimate can be too low. What the property says is that concurrency adds
  nothing to that.
* `NamedLimitHonoured` is about the prompts whose uncounted part (tool definitions, JSON)
  is within the 15 % that the loop keeps free for it, and excepts the floors of 1000
  tokens, a tenth of the window, and prompts of 512.
* `ClampKept` is about a cap that the loop acted on. A cap that is named after a clamp to
  the default of 1024 is not acted on: an endpoint is clamped once in a turn.

### Fairness

* `DurableToolLedger!FairSpec`: a process that is down is started again (an operator
  or supervisor does; recovery is the first thing a ledger object does). Nothing is
  assumed about requests or runners.
* `CircuitBreaker!FairSpec`: time passes, requests keep coming, and every admitted
  call ends, because each attempt has a timeout (`execution/deadline.py`).
* `NativeStream!Spec`: the handler's thread runs on. Its waits for the provider have
  timeouts; a write to a client that stalls has none, and is not enabled while the
  client stalls. `RequestEnds` says so: a stalled client holds the thread.
* `Gateway!Spec`: the clock ticks, and a scheduler thread that is not blocked runs
  on. Nothing is assumed about requests, probes or restarts.

## Proofs

All theorems hold for any sets of processes, operations, calls, requests, threads,
turns, callers, endpoints, pools, routes, conversations and schemas, and any policy.
Assumptions are the named ones of the modules: absent values are not members of the
sets they are absent from, limits are natural numbers, the constants have the shape
their comments give them. Five theorems have a hypothesis of their own:

| Hypothesis | Theorem | Why the code justifies it |
| --- | --- | --- |
| `UniqueNames` | `ToolRunsAtMostOnce`, `AtMostOneLicence` | the executor scopes call ids by request and attempt, the MCP proxy by operation; `ledger_wrong_receipt` shows what a reused id does |
| `MaxSame >= 1` | `RetriesStayBounded` | the first call of an endpoint is not checked against the limit; the default is two |
| `ClientsSpeak`, `TailTurns >= 2` | `OldestAreDroppedFirst`, `RootStaysVerbatim` | a conversation starts with its objective; the converter passes over a message without text, and then the last two that are said need not be the last two that compaction keeps. `ContextManager` keeps six turns. The instance for TLC satisfies both (`MCAssumption`) |

* `DurableToolLedgerProofs`: `TypeCorrectness`, `LeaseMatchesSubmission`,
  `CommittedIsFinal`; `SuccessHasReceipt`; `ToolRunsAtMostOnce`, `AtMostOneLicence`.
  Common to the last three are the lemmas that whatever a client holds was presented
  under its call id. The inductive invariant `SafetyInv` of the last two adds to the
  type invariant that leases match submissions, that whatever a client holds was
  presented under its name (`Presented`), and `OnceInv`: runs so far plus licences
  outstanding are at most one, and zero while the operation is still submittable.
  Counting licences is what makes "at most once" inductive: a process that submitted
  and has not run yet is not visible in `effects`. `SuccessHasReceipt` needs no
  `UniqueNames`: a reply is given in the step that finds or writes the receipt, and
  after that `CommittedIsFinal` keeps it.
* `SQLiteContinuationProofs`, of the contract: `ContractTypes`, `OneChain`,
  `ChainGrowsByActiveTurn`. The strengthening in `ChainInv` says that a session without
  a checkpoint has nothing to acknowledge. Of the store: `RevisionGuardsSession`,
  `StoreImplementsContract`, `AcknowledgementIsOfTheNamedCheckpoint`,
  `StoredCheckpointsFormOneChain`, `StoredChainOnlyGrows`. The argument is the revision: whatever a thread read is still what the row says if the
  revision still matches (`FreshIfCurrent`), so a save that succeeds acts on the
  current row and is a step of the contract; every other statement is a stutter. The
  lease plays no part in it. What is said of the store's chain follows from the
  contract's theorems through the refinement.
* `ExecutorProofs`: `ExecutorTypes`, `AttemptsStayBounded`,
  `ReservationsFollowAttempts`, `RowsPrecedeCalls`, `LoopDoesNotReturn`,
  `RetriesStayBounded`, `BudgetHolds`, `LoopProgresses`. The invariant
  speaks of one request at a time: `LoopInv` (the endpoint of an attempt under way is
  not excluded, so excluding it is progress; attempts under way were within the
  limit), `RowInv` (calls, ledger entries and rows go in step), `Holds` (its
  reservation). A step of one request leaves the others alone, so every action is a
  lemma about one request, `Advances`. `PathInv` and `CallInv` tie the history of
  attempts to what the loop looks at: the attempts of this era are those in `kept`, an
  endpoint about to be called is new in this era or the latest, its calls are at most
  its count, and fewer than the limit while it may be called again. Without them
  neither `NoReturn` nor `RetriesBounded` is inductive. `BudgetInv` says that the
  holders of reservations are finitely many and that what they hold fits the limit and
  the overrun, whatever turns cost. `LoopProgresses`
  is the termination argument of ADR 0009 ("Guaranteed request termination") without
  fairness: rollovers, attempts, excluded endpoints and phases decrease
  lexicographically, so a request can only stop by reaching its end or by waiting for
  a step of its environment.
* `CircuitBreakerProofs`: `BreakerTypes`, `PermitsAccounted`, `TripsAtThreshold`,
  `RecoversClean`. The type invariant with the two run-checked invariants is already
  inductive. The breaker's methods are operators on its state, so the work is in one
  lemma for each of them (what a check, an admission, a probe's report and a report to
  the window leave behind), and the actions follow. Permits in use are compared with
  the cardinality of the set of callers that are probing.
* `NativeStreamProofs`: `StreamTypes`, `OneAnswer`, `TruncationTold`,
  `ConnectionsReleased`, `FallbacksSettle`, `RelaySettles`, `StreamAttemptsBounded`.
  The invariant `IInv` says for each point of the program what holds of the connection
  (`Connected`), of the bytes relayed (`Silent` before the first, `Relaying` after),
  and of the latest entry of the log (`Logged`). None of the five properties is
  inductive without it: each is about the end of the request, and what makes it true
  is decided when the stream is opened.
* `GatewayProofs`: `LockoutsHoldForBothLoops`, `QuotaIsHonoured`,
  `GoneModelsStayGone`, `RetirementsAreKept`, `PoolsAreIsolated`. The invariant `Inv`
  has five parts, each preserved by lemmas of its own: `LockInv` (what the executor
  learnt holds at least as long in the health table, and in the pools as the route's
  own lockout or its account's), `CallsInv` (a request or dispatch under way is at a
  route of its pool), `ListInv` (the pools list routes of their own), `GoneInv` (a model reported
  as gone is deprecated in its pool and, if the executor was told, on the dead list),
  and `FileInv` (only the holder of the canary's lock probes, what it is about to write
  keeps what the file says, and a file that cannot be read is being written or empty).
  Each part starts from a lemma that lists the few steps which touch its variables; all
  others are stutters for it.
* `AgentTurnProofs`: `BreakersAreFair` and `DeadAreGone` rest on the classifier: its
  cascade of rules is a sequence of groups, a group that is silent about a refusal
  passes it on, and for every cause one step of `VerdictsByCause` derives the verdict of
  each of its refusals. `DeadAreGone` is inductive once it is known that an endpoint on
  the dead list is not asked again. `DeliveriesConform` is about the validator alone:
  what is executable is well-typed after trimming, unwrapping and repair, and repair
  leaves what has its type. `SizeRefusalsAreBounded` needs `RefusalsInv`: an endpoint that
  is neither shrunk nor excluded refused at most as often as there were waits, one that is
  either at most once more; a rollover that readmits it adds a wait. `ClampIsKept` needs
  `CapInv`: whoever named a cap is clamped, and the request asks for no more; no later
  clamp raises it, and a rollover leaves request and clamps alone.
  `OldestAreDroppedFirst` and `RootStaysVerbatim` follow the messages through
  compaction, conversion and pruning, with the lemmas of `AgentTurnLemmas`. The state
  invariant `OrderInv` adds that the request itself is never cut (`Opened`): each
  attempt starts from the whole conversation.
* `AgentTurnLemmas` has the lemmas about the operators of `FailureClassifier`,
  `ContextManager`, `Pruner` and `ToolValidator`, for any request: what each phase does to sizes, and what it does to the order of
  messages. What all of them preserve is `Framed`: the
  messages are those of the conversation in order, without a gap but one right after
  the root objective, which leaves at least the last two. Evicting and shedding widen
  the gap (`CutFurther`), the phases that shorten change contents only and leave the
  root's alone (`Alike`), the converter says every message once and in its place
  (`SaidAs`), the prunings change contents only (`Retold`). `FramedDropsOldest` and
  `RootPlace` say what `Framed` means for the messages sent.

Sums and filters over sequences are recursive functions in the models. The proofs
show that such a function exists by extending it one element at a time, and facts
about all its values by taking a smallest counterexample; both use that the natural
numbers are well-founded and need no induction rule.

Left to TLC: liveness (`DeadSubmissionResolved`, `OpenEnds`, `HalfOpenEndsUnlessBenign`,
`RequestEnds`, `SchedulerStops`, `LockoutsEnd`), since the provers have no fairness or
ENABLED reasoning; and `NamedLimitHonoured`, which needs how each phase of pruning
changes sums of lengths. Every other safety property that a passing run checks has a
theorem.

## Remarks

Behaviour met while modelling that a reader of the code may not expect. The models
have it as the code does; no property claims otherwise.

Executor and streams:

* After a size rejection the same payload can be sent again: a conversation that was
  already compacted passes the test at `executor.py:688` even if compaction to the new
  budget leaves it as it was (the comment says "do not resend the same payload").
* The safety margin jumps from 512 to 2048 tokens at a window of 8000, and the input
  budget has a floor of 512, which a shrunken window may not have room for. A window is
  never shrunk below a tenth of its size nor below 1000 tokens, whatever limit was named.
* A rollover forgets the attempts at an endpoint but not its shrunken window, so a size
  rejection after it is not answered by compacting further (`SizeRefusalsBounded`).
* A 200 whose body is not JSON counts as a failure in the breaker's window, as does one
  with an argument that `int()` cannot read (`"²".isdigit()` holds);
  `docs/FAILURE_TAXONOMY.md:16` and `34` say that a corrupt 200 does not. `BreakerFair`
  states what the code does.
* A non-chunked answer that is cut short is relayed as whole.
* `open_native_stream` leaves a permit unreported when it gives up between admission
  and the row (`executor.py:403`, `409`), which is one way to `breaker_stuck`.
* A client that leaves during the relay counts as a failure of the provider. If it is
  gone when the headers are written, the handle is never iterated and the attempt
  stays as it was opened: `VisibleStreamSettled` is about streams the client saw.
* A late report can free a half-open permit it never took, so that for a moment more
  than `half_open_max_calls` probes run (`docs/RELIABILITY_MODEL.md:41`: "At most
  $K_{\text{probe}}$ simultaneous requests").

Pools and canary:

* `pools.py:7` and ADR 0010 speak of quotas isolated by pool; `account_lockouts` are
  shared on purpose. The router's dead list is shared as well: its key is provider and
  model (`routing/router.py:69`), so a model found gone in one pool is gone in the other.
  `PoolsIsolated` excepts both and nothing else.
* Cooldowns are entered under endpoint ids that name no route: they hide nothing and
  use up the relief of `pools.py:557`. `split(":")[-1]` takes the id of a `:free`
  model apart in the wrong place: its lockout is stored under `free`, and after a restart
  no endpoint has it (`learnt` forgets it there). A shorter lockout overwrites a longer one.
* Deprecations found by the canary do not reach registered endpoints before a restart.
* `stop` followed by `start` can leave two scheduler threads; a crash in `save_ledger`
  leaves a file that the next start ignores.

Conversation and tools:

* Eviction removes single messages, so a tool result can outlive its call;
  `agent/context.py:176` speaks of pairs.
* An OpenAI system message is condensed like a log in the first phase and counted
  twice; the pruner takes the message after it for the root objective. A pruned
  payload can still exceed the Groq target. A summary can be longer than a text just
  above its limit.
* A 403 of a firewall is classified as an authentication failure for good. The comma
  repair also changes strings; a boolean passes as an integer; nested envelopes are
  unwrapped once. Arguments are coerced to the type of the schema, numbers to strings
  included; `docs/TOOL_SAFETY.md` counts altered types among what is prohibited. Arguments
  with control characters in their strings go out as they came to OpenAI clients.
* ADR 0006:15 keeps the latest six turns intact; the pruners for Groq and NVIDIA keep
  fewer, so `OldestDroppedFirst` claims the last two messages.

## Not modelled

* Cluster store (`storage/cluster.py`): no code of the repository constructs it, so
  the order of its calls is not defined. It reads and then writes in two commands.
* In-memory tool ledger: stands in when there is no database, keeps no promise across
  a restart. Its check and submission are two steps without a common lock, and it
  evicts old records; the durable ledger's transaction is what `AtMostOnce` rests on.
* Time-based window of the breaker, and the registry of breakers (a dictionary under
  one lock).
* Lanes' and keys' own cooldown tables; floating-point scores and moving averages, which
  only order what is eligible.
* Streaming parser (not on the served path), connection accelerator (reuse changes no
  outcome), agent state and failover plan (written for observers and read by nothing).
* Responses of the codecs, the Gemini dialect, discovery, configuration, prompt
  defence, logging, demonstration: conversion of text and JSON, or input and output.

## Plan

1. Composition of `Executor` with `CircuitBreaker`: the reports of the loop as the
   breaker's calls, among them the two reports of an answer that is lost.
2. A budget scope as an abstract bound on spending, refined by the reservations.
3. The time-based window; the cluster store, once something uses it.
