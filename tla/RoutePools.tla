------------------------------ MODULE RoutePools ------------------------------
(***************************************************************************)
(* IsolatedPoolManager of pools.py and the version-1 dispatch loop of      *)
(* router.py that selects with it.                                         *)
(*                                                                         *)
(* A route stands for one entry of one pool's list.  Cooldowns (30 to      *)
(* 120 s) are kept in the order in which they end: a new one may land      *)
(* anywhere in it.  Daily lockouts are counted in ticks of the wall clock. *)
(* An expired entry has no effect, so it goes when its time is up and not  *)
(* when auto_expire_cooldowns finds it.                                    *)
(***************************************************************************)
EXTENDS Integers, Sequences, FiniteSets, FiniteSetsExt, Functions

CONSTANTS Pool,         \* "coding" and "general_agent"
          Route,        \* the entries that some list may hold
          None,
          PoolOf, ProviderOf, ModelOf,   \* the fields of a route
          Listed,       \* the default lists
          Usable,       \* routes of an allowed provider whose key is set
          Aggregator,   \* "openrouter", whose quotas are the account's
          Hold,         \* the longest daily lockout, in ticks
          Dispatcher,   \* threads that call dispatch
          MaxAttempts   \* the attempts of one dispatch

ASSUME RouteAssumption ==
    /\ DOMAIN PoolOf = Route /\ Range(PoolOf) \subseteq Pool
    /\ DOMAIN ProviderOf = Route /\ DOMAIN ModelOf = Route
    /\ Listed \in [Pool -> Seq(Route)]
    /\ \A p \in Pool : IsInjective(Listed[p]) /\ \A r \in Range(Listed[p]) : PoolOf[r] = p
    /\ IsFiniteSet(Route) /\ Usable \subseteq Route
    /\ Route \cap {None, "idle", "choosing"} = {}
    /\ {Hold, MaxAttempts} \subseteq Nat \ {0}

VARIABLES
    routes,      \* the list of each pool
    cooling,     \* the cooldowns of each pool, the next one to end first
    exhausted,   \* ticks left of a route's own daily lockout
    account,     \* ticks left of a provider account's lockout
    deprecated,  \* pairs of a pool and a model
    sticky,      \* the last route that succeeded, while that is recent
    turn,        \* coding_index and agent_index
    call         \* the dispatch calls

pools == <<routes, cooling, exhausted, account, deprecated, sticky, turn>>

Providers == Range(ProviderOf)
Models == Range(ModelOf)

\* mark_cooldown writes the id it is given: a route's, or the endpoint's that the
\* executor passes ("pool:route"), which is the id of no route.
CooldownKey == Route \X {"route", "endpoint"}

\* routes and deprecated are set by whoever loads the ledger of quirks.
PoolsInit ==
    /\ cooling = [p \in Pool |-> <<>>]
    /\ exhausted = [r \in Route |-> 0]
    /\ account = [v \in Providers |-> 0]
    /\ sticky = [p \in Pool |-> None]
    /\ turn = [p \in Pool |-> 0]
    /\ call = [d \in Dispatcher |-> [pool |-> None, attempts |-> 0, at |-> "idle"]]

-----------------------------------------------------------------------------
(* The operations of the manager, each under its lock. *)

MarkCooldown(r, form) ==
    LET s == SelectSeq(cooling[PoolOf[r]], LAMBDA c : c # <<r, form>>)
    IN  \E i \in 0 .. Len(s) :
            cooling' = [cooling EXCEPT ![PoolOf[r]] =
                            SubSeq(s, 1, i) \o <<<<r, form>>>> \o SubSeq(s, i + 1, Len(s))]

\* Mutant: the route that met the refusal is left to the account's lockout.
MarkQuotaAccountOnly(r, named, wide, ticks) ==
    /\ exhausted' = exhausted
    /\ account' = IF wide THEN [account EXCEPT ![ProviderOf[r]] = ticks] ELSE account

\* Mutant: the routes of the account are locked in the lists of every pool.
MarkQuotaEverywhere(r, named, wide, ticks) ==
    /\ exhausted' = [q \in Route |-> IF q \in named \/ (wide /\ ProviderOf[q] = ProviderOf[r])
                                     THEN ticks ELSE exhausted[q]]
    /\ account' = IF wide THEN [account EXCEPT ![ProviderOf[r]] = ticks] ELSE account

\* mark_quota_exhausted for the routes in named, and for an account-wide refusal
\* mark_provider_quota_exhausted, which locks the account and the routes that this
\* pool lists of it.
MarkQuota(r, named, wide, ticks) ==
    LET hit == named \cup
               {q \in Range(routes[PoolOf[r]]) : wide /\ ProviderOf[q] = ProviderOf[r]}
    IN  /\ exhausted' = [q \in Route |-> IF q \in hit THEN ticks ELSE exhausted[q]]
        /\ account' = IF wide THEN [account EXCEPT ![ProviderOf[r]] = ticks] ELSE account

\* A lockout of the day's free requests, and any of the aggregator's, is the account's.
AccountWide(r, freeDaily) == freeDaily \/ ProviderOf[r] = Aggregator

\* A lockout lasts until midnight, or else a full day.
LockedFor(untilMidnight, ticks) == ticks \in 1 .. Hold /\ (untilMidnight \/ ticks = Hold)

\* The members of S in some order.
ListOf(S) == CHOOSE s \in [1 .. Cardinality(S) -> S] : IsInjective(s)

\* add_discovered_route, for several routes at once.
WithRoutes(p, new) == routes[p] \o ListOf({r \in new : PoolOf[r] = p} \ Range(routes[p]))

\* The entries of s that are in S, in their order.
Filtered(s, S) ==
    LET upTo[i \in 0 .. Len(s)] ==
            IF i = 0 THEN <<>>
            ELSE IF s[i] \in S THEN Append(upTo[i - 1], s[i]) ELSE upTo[i - 1]
    IN  upTo[Len(s)]

\* The candidates that get_candidate_routes finds when the cooldowns are cool.
Candidates(p, cool) ==
    Filtered(routes[p], {r \in Usable : /\ <<p, ModelOf[r]>> \notin deprecated
                                        /\ account[ProviderOf[r]] = 0 /\ exhausted[r] = 0
                                        /\ <<r, "route">> \notin Range(cool)})

\* select_route gives up the cooldown that ends first when it has no candidate.
Relieved(p) ==
    IF Candidates(p, cooling[p]) = <<>> /\ cooling[p] # <<>>
    THEN Tail(cooling[p]) ELSE cooling[p]

\* The choice among candidates c: the sticky route, or else the next in turn.
Selected(p, c) ==
    IF sticky[p] \in Range(c) THEN sticky[p] ELSE c[(turn[p] % Len(c)) + 1]

-----------------------------------------------------------------------------
(* UniversalFailoverRouter.dispatch *)

Dispatch(d, p) ==
    /\ call[d].at = "idle"
    /\ call' = [call EXCEPT ![d] = [pool |-> p, attempts |-> 0, at |-> "choosing"]]
    /\ UNCHANGED pools

Idle(d) == [call EXCEPT ![d] = [pool |-> None, attempts |-> 0, at |-> "idle"]]

Choosing(d) == call[d].at = "choosing" /\ call[d].attempts < MaxAttempts

Select(d) ==
    LET p == call[d].pool
        c == Candidates(p, Relieved(p))
    IN  /\ Choosing(d)
        /\ c # <<>>
        /\ cooling' = [cooling EXCEPT ![p] = Relieved(p)]
        /\ turn' = [turn EXCEPT ![p] = IF sticky[p] \in Range(c) THEN @
                                       ELSE (@ + 1) % Len(c)]
        /\ call' = [call EXCEPT ![d].at = Selected(p, c), ![d].attempts = @ + 1]
        /\ UNCHANGED <<routes, exhausted, account, deprecated, sticky>>

\* No candidate, not even after the relief, or no attempt left: 503.
Unavailable(d) ==
    LET p == call[d].pool
    IN  /\ call[d].at = "choosing"
        /\ \/ call[d].attempts = MaxAttempts /\ UNCHANGED cooling
           \/ /\ Choosing(d)
              /\ Candidates(p, Relieved(p)) = <<>>
              /\ cooling' = [cooling EXCEPT ![p] = Relieved(p)]
        /\ call' = Idle(d)
        /\ UNCHANGED <<routes, exhausted, account, deprecated, sticky, turn>>

At(d, r) == r \in Route /\ call[d].at = r
Again(d) == call' = [call EXCEPT ![d].at = "choosing"]

Served(d, r) ==
    /\ At(d, r)
    /\ call' = Idle(d)
    /\ sticky' = [sticky EXCEPT ![call[d].pool] = r]
    /\ UNCHANGED <<routes, cooling, exhausted, account, deprecated, turn>>

\* Billing: the marks of classify_api_error and those of dispatch.
OutOfQuota(d, r, freeDaily, ticks) ==
    /\ At(d, r)
    /\ LockedFor(AccountWide(r, freeDaily), ticks)
    /\ MarkQuota(r, {r}, AccountWide(r, freeDaily), ticks)
    /\ Again(d)
    /\ UNCHANGED <<routes, cooling, deprecated, sticky, turn>>

\* A rate limit, an overload, a server error, a time-out or a refused connection.
Busy(d, r) ==
    /\ At(d, r)
    /\ MarkCooldown(r, "route")
    /\ Again(d)
    /\ UNCHANGED <<routes, exhausted, account, deprecated, sticky, turn>>

NotFound(d, r) ==
    /\ At(d, r)
    /\ deprecated' = deprecated \cup {<<PoolOf[r], ModelOf[r]>>}
    /\ Again(d)
    /\ UNCHANGED <<routes, cooling, exhausted, account, sticky, turn>>

\* Any other failure leaves no mark: a smaller request, or the same one, goes out again.
Unmarked(d, r) ==
    /\ At(d, r)
    /\ Again(d)
    /\ UNCHANGED pools

-----------------------------------------------------------------------------
(* Time *)

CoolingEnds(p) ==
    /\ cooling[p] # <<>>
    /\ cooling' = [cooling EXCEPT ![p] = Tail(@)]
    /\ UNCHANGED <<routes, exhausted, account, deprecated, sticky, turn, call>>

\* STICKY_AFFINITY_SECONDS have passed since the success.
StickyEnds(p) ==
    /\ sticky[p] # None
    /\ sticky' = [sticky EXCEPT ![p] = None]
    /\ UNCHANGED <<routes, cooling, exhausted, account, deprecated, turn, call>>

\* What is left of some lockouts after a tick.
Less(left) == [x \in DOMAIN left |-> IF left[x] = 0 THEN 0 ELSE left[x] - 1]

=============================================================================
