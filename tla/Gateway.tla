------------------------------- MODULE Gateway --------------------------------
(***************************************************************************)
(* One gateway process and what its parts do to each other through shared  *)
(* state: ProxyGateway (gateway.py), which feeds the executor's registry   *)
(* from the pools; the filters of RequestRouter; the marks the executor's  *)
(* two loops leave on health, dead list, pools and the store of daily      *)
(* lockouts; the version-1 dispatch loop (RoutePools); the nightly probe   *)
(* (Canary); and a restart, which keeps only the store and the ledger file.*)
(*                                                                         *)
(* The loops themselves, their budgets and their limits are in Executor    *)
(* and NativeStream.  Breakers, requirements and lanes may hide any        *)
(* endpoint from a request; the health store's cooldowns are read by       *)
(* nobody.                                                                 *)
(***************************************************************************)
EXTENDS Canary

CONSTANTS Request,    \* requests that are served at one time
          Plain,      \* routes whose id has no colon in it
          Workload    \* how often each thing happens in a run, at most

Happening == {"serve", "dispatch", "start", "stop", "trigger", "restart", "failure"}

\* Only ids made from the aggregator's slugs hold a colon.
ASSUME GatewayAssumption ==
    /\ Plain \subseteq Route
    /\ \A r \in Route \ Plain : ProviderOf[r] = Aggregator
    /\ Workload \subseteq [Happening -> Nat]

VARIABLES
    synced,   \* the registered endpoints, one for each (pool, route)
    dead,     \* the endpoints whose id and "provider:model" are in dead_list
    health,   \* of each endpoint: quota_exhausted_until in ticks, is_dead
    row,      \* ticks left of the rows in provider_quota_lockouts, by the id they name
    rowAll,   \* and of the rows with route_id "*", by pool and provider
    req,      \* the requests being served
    left,     \* what is left of the workload
    learnt,   \* history: ticks left until the time that a refusal named to each endpoint,
              \* a refusal before the last restart only if a row names the route's id
    gone      \* history: routes found gone, and by which loop

\* The ids that rows name.  What follows the last colon is the same for all ids of a
\* pool with a colon in them.
CutId(p) == <<p, "free">>
RowIds == Route \cup {CutId(p) : p \in Pool}
RouteId(e) == IF e \in Plain THEN e ELSE CutId(PoolOf[e])

gateway == <<synced, dead, health, row, rowAll, req, learnt, gone>>
vars == <<pools, call, canary, gateway, left>>

NoRequest == [pool |-> None, path |-> None, excluded |-> {}, at |-> "idle"]

ProcessInit ==
    /\ CanaryStart
    /\ synced = {} /\ dead = {} /\ gone = {}
    /\ req = [x \in Request |-> NoRequest]

\* load_from_quirks_ledger on the default lists; a file that cannot be read is ignored.
Having(f, status) == {m \in DOMAIN LedgerRoute : f.ok /\ f.entries[m] = status}
QuirkRoutes(f) ==
    [p \in Pool |-> Listed[p] \o ListOf({r \in {LedgerRoute[m] : m \in Having(f, "active")} :
                                            PoolOf[r] = p})]
QuirkDeprecations(f) == {<<PoolOf[LedgerRoute[m]], m>> : m \in Having(f, "deprecated")}

Init ==
    /\ PoolsInit /\ CanaryInit /\ ProcessInit
    /\ routes = QuirkRoutes(file) /\ deprecated = QuirkDeprecations(file)
    /\ health = [r \in Route |-> [quota |-> 0, dead |-> FALSE]]
    /\ row = [k \in RowIds |-> 0]
    /\ rowAll = [k \in Pool \X Providers |-> 0]
    /\ learnt = [r \in Route |-> 0]
    /\ left \in Workload

Spends(h) == left[h] > 0 /\ left' = [left EXCEPT ![h] = @ - 1]

-----------------------------------------------------------------------------
(* ProxyGateway and RequestRouter *)

\* sync_endpoints registers the usable routes of both lists; none is ever removed.
Sync == synced' = synced \cup ((UNION {Range(routes[p]) : p \in Pool}) \cap Usable)

Serve(x, p, path) ==
    /\ req[x].at = "idle"
    /\ Sync
    /\ req' = [req EXCEPT ![x] = [pool |-> p, path |-> path, excluded |-> {},
                                  at |-> "choosing"]]
    /\ UNCHANGED <<dead, health, row, rowAll, learnt, gone>>
    /\ UNCHANGED <<pools, call, canary>>

SameModel(r, s) == ProviderOf[r] = ProviderOf[s] /\ ModelOf[r] = ModelOf[s]

\* Mutant: the dead list is read by endpoint id only.
IsDeadById(e) == health[e].dead \/ e \in dead

IsDead(e) == health[e].dead \/ \E r \in dead : r = e \/ SameModel(r, e)

\* What select_candidate's own marks leave of the pool's endpoints.
Eligible(x) == {e \in synced \ req[x].excluded :
                    PoolOf[e] = req[x].pool /\ ~IsDead(e) /\ health[e].quota = 0}

Pick(x, e) ==
    /\ req[x].at = "choosing"
    /\ e \in Eligible(x)
    /\ req' = [req EXCEPT ![x].at = e]
    /\ UNCHANGED <<synced, dead, health, row, rowAll, learnt, gone>>
    /\ UNCHANGED <<pools, call, canary>>

Done(x) == [req EXCEPT ![x] = NoRequest]

\* No candidate, a passed deadline or a spent budget.
GivesUp(x) ==
    /\ req[x].at = "choosing"
    /\ req' = Done(x)
    /\ UNCHANGED <<synced, dead, health, row, rowAll, learnt, gone>>
    /\ UNCHANGED <<pools, call, canary>>

-----------------------------------------------------------------------------
(* What an answer of endpoint e does *)

Using(x, e) == e \in Route /\ req[x].at = e
Excluding(x, es) == [req EXCEPT ![x].at = "choosing", ![x].excluded = @ \cup es]

\* execute notes the endpoint's id as the last success, which is the id of no route.
\* A stream notes nothing.
Answers(x, e) ==
    /\ Using(x, e)
    /\ sticky' = IF req[x].path = "complete" THEN [sticky EXCEPT ![req[x].pool] = None]
                 ELSE sticky
    /\ req' = Done(x)
    /\ UNCHANGED <<synced, dead, health, row, rowAll, learnt, gone>>
    /\ UNCHANGED <<routes, cooling, exhausted, account, deprecated, turn, call, canary>>

\* A retry goes through the router again.
Retries(x, e) ==
    /\ Using(x, e)
    /\ req' = Excluding(x, {})
    /\ UNCHANGED <<synced, dead, health, row, rowAll, learnt, gone>>
    /\ UNCHANGED <<pools, call, canary>>

\* A failure of the request's own, a breaker that refuses, a context that does not fit.
FallsBack(x, e) ==
    /\ Using(x, e)
    /\ req' = Excluding(x, {e})
    /\ UNCHANGED <<synced, dead, health, row, rowAll, learnt, gone>>
    /\ UNCHANGED <<pools, call, canary>>

\* A transient failure after the last retry, or one that execute raises on.
CoolsDown(x, e, raises) ==
    /\ Using(x, e)
    /\ raises => req[x].path = "complete"
    /\ MarkCooldown(e, "endpoint")
    /\ req' = IF raises THEN Done(x) ELSE Excluding(x, {e})
    /\ UNCHANGED <<synced, dead, health, row, rowAll, learnt, gone>>
    /\ UNCHANGED <<routes, exhausted, account, deprecated, sticky, turn, call, canary>>

\* mark_dead and mark_deprecated.
Buries(e, who) ==
    /\ dead' = dead \cup {e}
    /\ deprecated' = deprecated \cup {<<PoolOf[e], ModelOf[e]>>}
    /\ gone' = gone \cup {<<who, e>>}

Missing(x, e) ==
    /\ Using(x, e)
    /\ Buries(e, "executor")
    /\ health' = [health EXCEPT ![e].dead = TRUE]
    /\ req' = Excluding(x, {e})
    /\ UNCHANGED <<synced, row, rowAll, learnt>>
    /\ UNCHANGED <<routes, cooling, exhausted, account, sticky, turn, call, canary>>

\* A refusal of the account names the time for all that it has refused before.
Learns(r, own, wide, ticks) ==
    learnt' = [q \in Route |-> IF q \in own THEN ticks
                              ELSE IF wide /\ ProviderOf[q] = ProviderOf[r]
                              THEN Min({learnt[q], ticks}) ELSE learnt[q]]

\* A billing refusal, up to where the store is written.  The id that goes to the pool
\* manager and to the store is what follows the last colon.  All but the refusal of the
\* day's free requests are permanent.
Refusal(x, e, freeDaily, ticks) ==
    /\ Using(x, e)
    /\ LockedFor(freeDaily, ticks)
    /\ MarkQuota(e, {e} \cap Plain, AccountWide(e, freeDaily), ticks)
    /\ health' = [health EXCEPT ![e] = [quota |-> ticks, dead |-> @.dead \/ ~freeDaily]]
    /\ Learns(e, {e}, AccountWide(e, freeDaily), ticks)

Saved(e, ticks) == [row EXCEPT ![RouteId(e)] = ticks]

\* The whole handler.  Only execute writes to the store.
Refuses(x, e, freeDaily, ticks) ==
    LET wide == AccountWide(e, freeDaily)
        others == {q \in synced : PoolOf[q] = req[x].pool /\ ProviderOf[q] = ProviderOf[e]}
    IN  /\ Refusal(x, e, freeDaily, ticks)
        /\ IF req[x].path = "complete"
           THEN /\ row' = Saved(e, ticks)
                /\ rowAll' = IF wide THEN [rowAll EXCEPT ![<<PoolOf[e], ProviderOf[e]>>] = ticks]
                             ELSE rowAll
           ELSE UNCHANGED <<row, rowAll>>
        /\ IF freeDaily THEN UNCHANGED <<dead, deprecated, gone>> ELSE Buries(e, "executor")
        /\ req' = Excluding(x, IF wide THEN others \cup {e} ELSE {e})
        /\ UNCHANGED <<synced, routes, cooling, sticky, turn, call, canary>>

\* The store fails at its first write or at its second: the exception ends the request.
RefusesUnsaved(x, e, freeDaily, ticks, second) ==
    /\ req[x].path = "complete"
    /\ second => AccountWide(e, freeDaily)
    /\ Refusal(x, e, freeDaily, ticks)
    /\ row' = IF second THEN Saved(e, ticks) ELSE row
    /\ req' = Done(x)
    /\ UNCHANGED <<synced, dead, rowAll, gone, routes, cooling, deprecated, sticky, turn>>
    /\ UNCHANGED <<call, canary>>

-----------------------------------------------------------------------------
(* Restart and time *)

\* Mutant: the lockouts that are read at the start do not reach the health store.
ReloadedPoolsOnly ==
    LET all(r) == IF r \in Range(Listed[PoolOf[r]]) THEN rowAll[PoolOf[r], ProviderOf[r]]
                  ELSE 0
    IN  /\ exhausted' = [r \in Route |-> Max({row[r], all(r)})]
        /\ account' = [v \in Providers |-> Max({rowAll[p, v] : p \in Pool})]
        /\ health' = [r \in Route |-> [quota |-> 0, dead |-> FALSE]]

\* What the lockouts read at the start do to the default lists of the pools.  The query
\* follows the index on expires_at: of several rows for a route or an account, the one
\* that ends last comes last and counts.  A row with a cut id is read, and is the row of
\* no endpoint.
Reloaded ==
    LET all(r) == IF r \in Range(Listed[PoolOf[r]]) THEN rowAll[PoolOf[r], ProviderOf[r]]
                  ELSE 0
    IN  /\ exhausted' = [r \in Route |-> Max({row[r], all(r)})]
        /\ account' = [v \in Providers |-> Max({rowAll[p, v] : p \in Pool})]
        /\ health' = [r \in Route |-> [quota |-> row[r], dead |-> FALSE]]

\* A probe's write that the crash cuts short leaves a file that cannot be read.
FileLeft == IF \E a \in Actor : thread[a] = "truncated"
            THEN [ok |-> FALSE, entries |-> NoEntries] ELSE file

\* The process dies, in the middle of anything, and starts again.
Restart ==
    /\ Reloaded
    /\ file' = FileLeft
    /\ routes' = QuirkRoutes(FileLeft)
    /\ deprecated' = QuirkDeprecations(FileLeft)
    /\ cooling' = [p \in Pool |-> <<>>]
    /\ sticky' = [p \in Pool |-> None]
    /\ turn' = [p \in Pool |-> 0]
    /\ call' = [d \in Dispatcher |-> [pool |-> None, attempts |-> 0, at |-> "idle"]]
    /\ thread' = [a \in Actor |-> "unborn"]
    /\ stopped' = FALSE /\ handle' = None /\ lock' = None
    /\ work' = [a \in Actor |-> NoEntries]
    /\ synced' = {} /\ dead' = {} /\ gone' = {}
    /\ req' = [x \in Request |-> NoRequest]
    /\ learnt' = [r \in Route |-> row[r]]
    /\ UNCHANGED <<row, rowAll>>

\* Mutant: a lockout in the health store does not end.
TickPools ==
    /\ \/ \E r \in Route : exhausted[r] + account[ProviderOf[r]] + learnt[r] > 0
       \/ \E k \in RowIds : row[k] > 0
       \/ \E v \in Providers, p \in Pool : rowAll[p, v] > 0
    /\ exhausted' = Less(exhausted) /\ account' = Less(account)
    /\ row' = Less(row) /\ rowAll' = Less(rowAll) /\ learnt' = Less(learnt)
    /\ UNCHANGED <<routes, cooling, deprecated, sticky, turn, call, canary>>
    /\ UNCHANGED <<synced, dead, health, req, gone>>

\* The wall clock moves on.
Tick ==
    /\ \/ \E r \in Route :
              exhausted[r] + account[ProviderOf[r]] + health[r].quota + learnt[r] > 0
       \/ \E k \in RowIds : row[k] > 0
       \/ \E v \in Providers, p \in Pool : rowAll[p, v] > 0
    /\ exhausted' = Less(exhausted) /\ account' = Less(account)
    /\ row' = Less(row) /\ rowAll' = Less(rowAll) /\ learnt' = Less(learnt)
    /\ health' = [r \in Route |-> [health[r] EXCEPT !.quota = IF @ = 0 THEN 0 ELSE @ - 1]]
    /\ UNCHANGED <<routes, cooling, deprecated, sticky, turn, call, canary>>
    /\ UNCHANGED <<synced, dead, req, gone>>

-----------------------------------------------------------------------------
(* The process *)

\* Steps of the executor's requests.  Failures that leave a mark are counted.
RequestStep ==
    \/ \E x \in Request, p \in Pool, path \in {"complete", "stream"} :
           Serve(x, p, path) /\ Spends("serve")
    \/ /\ \E x \in Request :
             \/ GivesUp(x)
             \/ \E e \in synced : Pick(x, e) \/ Answers(x, e) \/ Retries(x, e) \/ FallsBack(x, e)
       /\ UNCHANGED left
    \/ /\ \E x \in Request, e \in synced :
             \/ Missing(x, e)
             \/ \E raises \in BOOLEAN : CoolsDown(x, e, raises)
             \/ \E freeDaily \in BOOLEAN, ticks \in 1 .. Hold :
                    \/ Refuses(x, e, freeDaily, ticks)
                    \/ \E second \in BOOLEAN : RefusesUnsaved(x, e, freeDaily, ticks, second)
       /\ Spends("failure")

\* Steps of the version-1 loop.
DispatchStep ==
    \/ /\ \E d \in Dispatcher, p \in Pool : Dispatch(d, p)
       /\ Spends("dispatch") /\ UNCHANGED <<canary, gateway>>
    \/ /\ \E d \in Dispatcher :
             Select(d) \/ Unavailable(d) \/ \E r \in Route : Served(d, r) \/ Unmarked(d, r)
       /\ UNCHANGED <<canary, gateway, left>>
    \/ /\ \E d \in Dispatcher, r \in Route :
             \/ Busy(d, r) /\ UNCHANGED <<gone, learnt>>
             \/ /\ NotFound(d, r)
                /\ gone' = gone \cup {<<"dispatch", r>>} /\ UNCHANGED learnt
             \/ \E freeDaily \in BOOLEAN, ticks \in 1 .. Hold :
                    /\ OutOfQuota(d, r, freeDaily, ticks)
                    /\ Learns(r, {}, AccountWide(r, freeDaily), ticks) /\ UNCHANGED gone
       /\ Spends("failure") /\ UNCHANGED <<canary, synced, dead, health, row, rowAll, req>>

\* Steps of whoever calls the scheduler.
CallerStep ==
    /\ \/ Spends("start") /\ \E t \in Thread, now \in BOOLEAN : Start(t, now)
       \/ Spends("stop") /\ StopSets
       \/ Spends("trigger") /\ Trigger
    /\ UNCHANGED <<pools, call, gateway>>

\* Steps of the scheduler's threads and of probes, which nobody has to ask for.
CanaryStep(a) ==
    /\ \/ /\ Wakes(a) \/ Due(a) \/ (a = Caller /\ StopReturns)
          /\ UNCHANGED <<pools, call>>
       \/ Loads(a) \/ Truncates(a) \/ Writes(a)
       \/ \E fetched \in BOOLEAN, found \in SUBSET DOMAIN CanaryRoute : Fetches(a, fetched, found)
       \/ \E up, down \in SUBSET Sampled : Pings(a, up, down)
    /\ UNCHANGED <<gateway, left>>

TimeStep ==
    /\ \/ Tick
       \/ (\E p \in Pool : CoolingEnds(p) \/ StickyEnds(p)) /\ UNCHANGED <<canary, gateway>>
    /\ UNCHANGED left

Next ==
    \/ RequestStep \/ DispatchStep \/ CallerStep \/ TimeStep
    \/ \E a \in Actor : CanaryStep(a)
    \/ \E a \in Actor : WriteFails(a) /\ Spends("failure") /\ UNCHANGED gateway
    \/ Restart /\ Spends("restart")

\* Time passes, and threads that are not blocked go on.
Spec ==
    /\ Init /\ [][Next]_vars
    /\ WF_vars(Tick /\ UNCHANGED left)
    /\ \A a \in Actor : WF_vars(CanaryStep(a))

-----------------------------------------------------------------------------

Picks(x) == req[x].at = "choosing" /\ req'[x].at \in Route
Sends(d) == call[d].at = "choosing" /\ call'[d].at \in Route

\* An endpoint that refused for want of quota is sent nothing more by the executor until
\* its lockout is over, not by any other request.  After a restart this still holds of
\* the routes whose id has no colon, if the refusal got into the store; of the others the
\* store has only a cut id, and the executor may ask them again (executor.py
\* record_quota_lockout, gateway.py's reload).
QuotaHonoured ==
    [][\A x \in Request : Picks(x) => learnt[req'[x].at] = 0]_vars

\* What the executor learns of a route's quota holds for the version-1 loop as well,
\* before and after a restart: the route is none of its pool's candidates.
LockoutsShared ==
    \A r \in Route : learnt[r] > 0 => r \notin Range(Candidates(PoolOf[r], cooling[PoolOf[r]]))

\* A model that the provider says is gone is not asked for again before a restart: by
\* the executor in no pool and under no route, by dispatch in no route of that pool.
GoneStaysGone ==
    [][/\ \A x \in Request : Picks(x) =>
             \A r \in Route : <<"executor", r>> \in gone => ~SameModel(r, req'[x].at)
       /\ \A d \in Dispatcher : Sends(d) =>
             \A g \in gone : ~(/\ PoolOf[g[2]] = PoolOf[call'[d].at]
                                /\ ModelOf[g[2]] = ModelOf[call'[d].at])]_vars

\* What happens to a request of one pool marks nothing in the other pool: no cooldown, no
\* lockout of a route, no retired model, nothing in the health of its endpoints
\* (docs/adr/0010-cross-agent-isolation.md).  Two things reach across, which the ADR does
\* not mention: the lockout of a shared account, and the dead list, which knows models by
\* provider.  An endpoint of the other pool dies only with the same model of the same
\* provider, which this pool has just found gone or unpaid for.
PoolsIsolated ==
    [][\A p \in Pool :
          (/\ \/ \E x \in Request : req[x].pool = p /\ req'[x] # req[x]
              \/ \E d \in Dispatcher : call[d].pool = p /\ call'[d] # call[d]
           /\ left'["restart"] = left["restart"])
          => \A q \in Pool \ {p} :
             /\ cooling'[q] = cooling[q] /\ sticky'[q] = sticky[q]
             /\ \A r \in Route : PoolOf[r] = q =>
                    /\ exhausted'[r] = exhausted[r] /\ health'[r] = health[r]
                    /\ IsDead(r)' # IsDead(r) =>
                           \E e \in dead' \ dead : PoolOf[e] = p /\ SameModel(e, r)
             /\ \A m \in Models : (<<q, m>> \in deprecated') <=> (<<q, m>> \in deprecated)]_vars

\* However many scheduler threads and callers probe, no probe writes over what another
\* one has entered in the ledger file: no entry is lost, and a retired model comes back
\* only when a ping finds it up.
RetirementKept ==
    [][\A m \in DOMAIN LedgerRoute : file'.ok =>
          /\ file.entries[m] # "none" => file'.entries[m] # "none"
          /\ file.entries[m] = "deprecated" /\ m \notin Sampled
                 => file'.entries[m] = "deprecated"]_vars

\* After stop every scheduler thread ends, also one that an earlier stop did not wait
\* for, unless start is called again.
SchedulerStops ==
    \A t \in Thread : (stopped /\ thread[t] \in Alive) ~> (~stopped \/ thread[t] \notin Alive)

\* No daily lockout is for ever, in the process or across restarts: when the refusals
\* end, there comes a time at which no route is locked out.
LockedOut(r) == exhausted[r] > 0 \/ account[ProviderOf[r]] > 0 \/ health[r].quota > 0

LockoutsEnd == []<>(\A r \in Route : ~LockedOut(r))
=============================================================================
