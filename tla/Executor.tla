------------------------------ MODULE Executor ------------------------------
(***************************************************************************)
(* The attempt loop of GatewayExecutor.execute, for several concurrent     *)
(* requests of one gateway process, with what they share: the execution    *)
(* policy, the budget reservations of one scope and the durable attempt    *)
(* rows.                                                                   *)
(*                                                                         *)
(* The router, the breakers and the providers are the loop's environment:  *)
(* the router offers any endpoint that is not excluded or none, a breaker  *)
(* admits or refuses, a provider call ends in any kind of outcome the loop *)
(* tells apart.  CircuitBreaker models the breaker itself; its Abandon is  *)
(* the "rotate" and "blocked" outcomes here, which report nothing to it.   *)
(***************************************************************************)
EXTENDS Integers, Sequences, FiniteSets, FiniteSetsExt

CONSTANTS Request,      \* concurrent calls of execute
          Endpoint,     \* the endpoints of the pool
          NoEndpoint,   \* last_endpoint before the first choice
          NoOutcome,    \* no attempt is being settled
          Provider,     \* the provider of each endpoint
          Ends,         \* the outcomes that attempts may have
          MaxTotal,     \* policy.max_total_attempts
          MaxSame,      \* policy.retry.max_attempts_same_endpoint
          MaxHops,      \* policy.fallback.max_fallback_hops
          MaxWaits,     \* max_rate_limit_waits
          Estimate,     \* estimated_cost_usd of a turn on each endpoint
          Cost,         \* what a successful turn on each endpoint may cost
          Limit         \* budget_limit_usd of the scope

VARIABLES run,          \* the local state of each call of execute
          limit,        \* policy.max_total_attempts, which the policy object shares
          reserved,     \* requests with an entry in BudgetReservationStore._reserved
          spent,        \* BudgetReservationStore._spent of the scope
          overrun,      \* history: what turns in it cost beyond their estimates
          rows          \* the durable_attempts rows of each request, in order

vars == <<run, limit, reserved, spent, overrun, rows>>

-----------------------------------------------------------------------------
(* How an attempt ends, as far as the loop tells outcomes apart:           *)
(*   answered    a valid response                                          *)
(*   raised      the adapter raised                                        *)
(*   blocked     the response names a tool operation of unknown outcome    *)
(*   rotate      rate limited for less than 300 s (or without a Retry-     *)
(*               After), and another key of the endpoint is usable         *)
(*   rotateLong  the same, for longer                                      *)
(*   rateLimit   rate limited as in rotate, no other key                   *)
(*   retryable   any other failure that the classifier calls retryable     *)
(*   final       a failure it calls not retryable                          *)
(*   permanent   the same, and the endpoint is dead for good               *)
(*   account     quota of the whole provider account exhausted             *)
(*   size        payload or context too large (not retryable)              *)
(*   cap         output cap exceeded, said by the provider (retryable)     *)
(*   capBody     output cap exceeded, seen in the response (not retryable) *)
Raises == {"raised", "blocked"}
Rotates == {"rotate", "rotateLong"}
ShortRateLimit == {"rotate", "rateLimit"}
Retryable == {"rateLimit", "retryable", "cap"}
Failure == Retryable \cup {"final", "permanent", "account", "size", "capBody"}
Outcome == {"answered"} \cup Raises \cup Rotates \cup Failure

ASSUME ConstantsAssumption ==
    /\ NoEndpoint \notin Endpoint
    /\ MaxTotal \in Nat /\ MaxSame \in Nat /\ MaxHops \in Nat /\ MaxWaits \in Nat
    /\ Limit \in Nat
    /\ Estimate \in [Endpoint -> Nat]
    /\ Cost \in [Endpoint -> SUBSET Nat]
    /\ DOMAIN Provider = Endpoint
    /\ Ends \subseteq Outcome

Ended == {"answered", "failed", "storeError", "dead"}
InFlight == {"admit", "prepare", "send", "call", "settle"}
Pc == {"select", "reserve", "finish"} \cup InFlight \cup Ended

\* What later steps ask of an attempt.  how tells calls whose key was rotated, and
\* second entries of one call, from the other calls; era is the number of
\* rollovers before it.
How == {"call", "rotated", "again"}
Attempt == [ep : Endpoint, short : BOOLEAN, how : How, era : Nat]

Fresh == [pc |-> "select", ep |-> NoEndpoint, outcome |-> NoOutcome, sent |-> 0,
          excluded |-> [e \in Endpoint |-> 0], attempts |-> <<>>, kept |-> {},
          counts |-> [e \in Endpoint |-> 0], hops |-> 0, marked |-> FALSE,
          shrunk |-> {}, capped |-> {}, waits |-> 0]

Init ==
    /\ run = [r \in Request |-> Fresh]
    /\ limit = MaxTotal
    /\ reserved = {}
    /\ spent = 0 /\ overrun = 0
    /\ rows = [r \in Request |-> <<>>]

Become(r, s) == run' = [run EXCEPT ![r] = s]

Goto(r, pc) == Become(r, [run[r] EXCEPT !.pc = pc])

shared == <<limit, reserved, spent, overrun, rows>>

-----------------------------------------------------------------------------
(* Choosing a candidate                                                    *)

\* excluded_endpoints is a list that may hold an endpoint twice; what counts
\* is how often.
Offered(r) == {e \in Endpoint : run[r].excluded[e] = 0}

Exclude(excluded, e) == [excluded EXCEPT ![e] = @ + 1]

\* Mutated: off by one.
AttemptsLeftInclusive(r) == Len(run[r].attempts) <= limit

\* The deadline, the other half of the loop's condition, may pass at any time.
AttemptsLeft(r) == Len(run[r].attempts) < limit

\* Mutated: only the endpoint before is compared.
RevisitsNever(r, e) ==
    LET a == run[r].attempts
        kept == run[r].kept
    IN  \E last \in kept : /\ \A i \in kept : i <= last
                           /\ a[last].ep # e
                           /\ a[last].ep = e

\* validate_next_candidate: A -> B -> A is a cycle.  _endpoints_attempted is
\* kept, the positions of its entries in attempts.
Revisits(r, e) ==
    LET a == run[r].attempts
        kept == run[r].kept
    IN  \E last \in kept : /\ \A i \in kept : i <= last
                           /\ a[last].ep # e
                           /\ \E i \in kept : a[i].ep = e

Valid(r, e) ==
    /\ Len(run[r].attempts) < limit
    /\ run[r].hops < MaxHops
    /\ ~Revisits(r, e)

\* Mutated: the count of the endpoint is not compared.
CanAttemptAnyCount(r, e) == e \in Endpoint /\ Len(run[r].attempts) < limit

CanAttempt(r, e) ==
    /\ Len(run[r].attempts) < limit
    /\ run[r].counts[e] < MaxSame

\* Endpoints excluded after a short rate limit, whose cooldown may pass in time.
RateLimited(r) ==
    {e \in Endpoint : /\ run[r].excluded[e] > 0
                      /\ \E i \in 1 .. Len(run[r].attempts) :
                            /\ run[r].attempts[i].ep = e
                            /\ run[r].attempts[i].short}

\* The deadline passed (at the loop's condition, or at the attempt's timeout
\* after the choice), no attempt is left, or the router has no candidate and
\* there is no rate limit, or no time, to wait for.
GiveUp(r) ==
    /\ run[r].pc \in {"select", "reserve"}
    /\ Goto(r, "failed")
    /\ UNCHANGED shared

\* Mutated: the rollover is not counted.
RolloverUncounted(r) ==
    LET back == RateLimited(r)
        tried == run[r].attempts
    IN
    /\ run[r].pc = "select" /\ AttemptsLeft(r)
    /\ back # {} /\ run[r].waits < MaxWaits
    /\ Become(r, [run[r] EXCEPT
                !.excluded = [e \in Endpoint |-> IF e \in back THEN @[e] - 1 ELSE @[e]],
                !.counts = [e \in Endpoint |-> IF e \in back THEN 0 ELSE @[e]],
                !.kept = {i \in @ : tried[i].ep \notin back},
                !.hops = 0])
    /\ limit' = IF Len(tried) >= limit THEN Len(tried) + 2 * Cardinality(back) ELSE limit
    /\ UNCHANGED <<reserved, spent, overrun, rows>>

\* No candidate: wait for the rate limits and readmit their endpoints.
Rollover(r) ==
    LET back == RateLimited(r)
        tried == run[r].attempts
    IN
    /\ run[r].pc = "select" /\ AttemptsLeft(r)
    /\ back # {} /\ run[r].waits < MaxWaits
    /\ Become(r, [run[r] EXCEPT
                !.waits = @ + 1,
                !.excluded = [e \in Endpoint |-> IF e \in back THEN @[e] - 1 ELSE @[e]],
                !.counts = [e \in Endpoint |-> IF e \in back THEN 0 ELSE @[e]],
                !.kept = {i \in @ : tried[i].ep \notin back},
                !.hops = 0])
    /\ limit' = IF Len(tried) >= limit THEN Len(tried) + 2 * Cardinality(back) ELSE limit
    /\ UNCHANGED <<reserved, spent, overrun, rows>>

\* The candidate fails validation, or its context window is too small.
Reject(r, e) ==
    /\ run[r].pc = "select" /\ AttemptsLeft(r)
    /\ e \in Offered(r)
    /\ Become(r, [run[r] EXCEPT !.excluded = Exclude(@, e)])
    /\ UNCHANGED shared

Choose(r, e) ==
    LET switch == run[r].ep \notin {NoEndpoint, e} IN
    /\ run[r].pc = "select" /\ AttemptsLeft(r)
    /\ e \in Offered(r)
    /\ Valid(r, e)
    /\ Become(r, [run[r] EXCEPT
                !.pc = "reserve",
                !.ep = e,
                !.hops = IF switch /\ ~run[r].marked THEN @ + 1 ELSE @,
                !.marked = IF switch THEN FALSE ELSE @])
    /\ UNCHANGED shared

-----------------------------------------------------------------------------
(* One attempt                                                             *)

Reserved == MapThenSumSet(LAMBDA r : Estimate[run[r].ep], reserved)

\* Mutated: only what is spent counts.
AffordableAlone(r) == spent + Estimate[run[r].ep] <= Limit

Affordable(r) == spent + Reserved + Estimate[run[r].ep] <= Limit

Reserve(r) ==
    /\ run[r].pc = "reserve"
    /\ IF Affordable(r)
       THEN /\ reserved' = reserved \cup {r}
            /\ Goto(r, "admit")
       ELSE /\ Become(r, [run[r] EXCEPT !.pc = "select",
                                     !.excluded = Exclude(@, run[r].ep)])
            /\ UNCHANGED reserved
    /\ UNCHANGED <<limit, spent, overrun, rows>>

Admit(r) ==
    /\ run[r].pc = "admit"
    /\ Goto(r, "prepare")
    /\ UNCHANGED shared

\* Mutated: the reservation is kept.
RefuseKeepsReservation(r) ==
    /\ run[r].pc = "admit"
    /\ Become(r, [run[r] EXCEPT !.pc = "select",
                                !.excluded = Exclude(@, run[r].ep)])
    /\ UNCHANGED shared

\* The breaker refuses: the reservation is released.
Refuse(r) ==
    /\ run[r].pc = "admit"
    /\ reserved' = reserved \ {r}
    /\ Become(r, [run[r] EXCEPT !.pc = "select",
                                !.excluded = Exclude(@, run[r].ep)])
    /\ UNCHANGED <<limit, spent, overrun, rows>>

Prepare(r) ==
    /\ run[r].pc = "prepare"
    /\ rows' = [rows EXCEPT ![r] = Append(@, "prepared")]
    /\ Goto(r, "send")
    /\ UNCHANGED <<limit, reserved, spent, overrun>>

\* prepare_attempt raises: execute ends with its reservation and its permit
\* outstanding.
PrepareFails(r) ==
    /\ run[r].pc = "prepare"
    /\ Goto(r, "storeError")
    /\ UNCHANGED shared

\* sent is a history variable: provider calls begun.
Send(r) ==
    /\ run[r].pc = "send"
    /\ Become(r, [run[r] EXCEPT !.pc = "call", !.sent = @ + 1])
    /\ UNCHANGED shared

Counted(counts, e) == [counts EXCEPT ![e] = @ + 1]

Entry(r, outcome, how) ==
    [ep |-> run[r].ep, short |-> outcome \in ShortRateLimit, how |-> how,
     era |-> run[r].waits]

\* record_attempt
Recorded(r, outcome, how) ==
    [run[r] EXCEPT !.outcome = outcome,
                   !.attempts = Append(@, Entry(r, outcome, how)),
                   !.kept = @ \cup {Len(run[r].attempts) + 1},
                   !.counts = Counted(@, run[r].ep)]

\* The call ends and is entered in the attempt ledger.
Return(r, outcome) ==
    /\ run[r].pc = "call"
    /\ Become(r, [Recorded(r, outcome, IF outcome \in Rotates THEN "rotated" ELSE "call")
                    EXCEPT !.pc = "settle"])
    /\ UNCHANGED shared

\* record_quota_lockout raises before the settlement.
LockoutFails(r) ==
    /\ run[r].pc = "settle"
    /\ run[r].outcome \in {"account", "permanent", "final"}
    /\ Goto(r, "storeError")
    /\ UNCHANGED shared

\* A success settles its cost, anything else the whole estimate.
Settle(r) ==
    LET e == run[r].ep IN
    /\ run[r].pc = "settle"
    /\ reserved' = reserved \ {r}
    /\ \E c \in (IF run[r].outcome = "answered" THEN Cost[e] ELSE {Estimate[e]}) :
            /\ spent' = spent + c
            /\ overrun' = IF c > Estimate[e] THEN overrun + (c - Estimate[e]) ELSE overrun
    /\ Goto(r, "finish")
    /\ UNCHANGED <<limit, rows>>

\* Mutated: the row is left prepared.
FinishRowNothing(r) == rows' = [rows EXCEPT ![r] = @]

FinishRow(r) == rows' = [rows EXCEPT ![r] = [@ EXCEPT ![Len(@)] = "finished"]]

\* finish_attempt raises: the row stays prepared.
FinishFails(r) ==
    /\ run[r].pc = "finish" /\ run[r].outcome # "answered"
    /\ Goto(r, "storeError")
    /\ UNCHANGED shared

-----------------------------------------------------------------------------
(* After the attempt: return, raise, retry or fall back                    *)

\* After a success the exception of finish_attempt is caught as one of the
\* response's normalisation: the answer is dropped and the attempt entered once
\* more, as a failure.  The settlement that follows finds no reservation.
AnswerLost(r) ==
    /\ run[r].pc = "finish" /\ run[r].outcome = "answered"
    /\ Become(r, Recorded(r, "retryable", "again"))
    /\ UNCHANGED shared

Finish(r) ==
    /\ run[r].pc = "finish"
    /\ run[r].outcome \in {"answered"} \cup Raises
    /\ FinishRow(r)
    /\ Goto(r, IF run[r].outcome = "answered" THEN "answered" ELSE "failed")
    /\ UNCHANGED <<limit, reserved, spent, overrun>>

Again(r) == Become(r, [run[r] EXCEPT !.pc = "select", !.outcome = NoOutcome])

Rotate(r) ==
    /\ run[r].pc = "finish" /\ run[r].outcome \in Rotates
    /\ FinishRow(r)
    /\ Again(r)
    /\ UNCHANGED <<limit, reserved, spent, overrun>>

\* Clamp the output and try the same endpoint once more.
Clamps(r) ==
    /\ run[r].outcome \in {"cap", "capBody"}
    /\ run[r].ep \notin run[r].capped
    /\ CanAttempt(r, run[r].ep)

\* Shrink the assumed window and try the same endpoint once more.
Shrinks(r) ==
    /\ run[r].outcome = "size"
    /\ run[r].ep \notin run[r].shrunk
    /\ CanAttempt(r, run[r].ep)

Adapt(r) ==
    /\ run[r].pc = "finish"
    /\ Clamps(r) \/ Shrinks(r)
    /\ FinishRow(r)
    /\ Become(r, [run[r] EXCEPT
                !.pc = "select",
                !.outcome = NoOutcome,
                !.capped = IF Clamps(r) THEN @ \cup {run[r].ep} ELSE @,
                !.shrunk = IF Shrinks(r) THEN @ \cup {run[r].ep} ELSE @])
    /\ UNCHANGED <<limit, reserved, spent, overrun>>

MayRetry(r) == run[r].outcome \in Retryable /\ CanAttempt(r, run[r].ep)

\* The exclusions of an account-wide quota and of a dead endpoint, which come
\* before the one of the fallback itself.
ExcludedByKind(r) ==
    LET e == run[r].ep IN
    {f \in Endpoint : /\ run[r].excluded[f] = 0
                      /\ \/ run[r].outcome = "account" /\ Provider[f] = Provider[e]
                         \/ run[r].outcome = "permanent" /\ f = e}

\* Not retryable or no attempt left; or the backoff would pass the deadline.
FallBack(r) ==
    /\ run[r].pc = "finish" /\ run[r].outcome \in Failure
    /\ ~Clamps(r) /\ ~Shrinks(r)
    /\ FinishRow(r)
    /\ Become(r, [run[r] EXCEPT
                !.pc = "select",
                !.outcome = NoOutcome,
                !.excluded =
                    Exclude([e \in Endpoint |-> IF e \in ExcludedByKind(r) THEN 1 ELSE @[e]],
                            run[r].ep),
                !.hops = @ + 1,
                !.marked = TRUE])
    /\ UNCHANGED <<limit, reserved, spent, overrun>>

\* Back off and try the same endpoint again (if the router offers it).
Retry(r) ==
    /\ run[r].pc = "finish" /\ run[r].outcome \in Failure
    /\ ~Clamps(r) /\ ~Shrinks(r)
    /\ MayRetry(r)
    /\ FinishRow(r)
    /\ Again(r)
    /\ UNCHANGED <<limit, reserved, spent, overrun>>

-----------------------------------------------------------------------------
\* The process dies with its reservations; the rows stay.
Crash ==
    /\ \E r \in Request : run[r].pc \notin Ended
    /\ run' = [r \in Request |-> IF run[r].pc \in Ended THEN run[r]
                                 ELSE [run[r] EXCEPT !.pc = "dead"]]
    /\ reserved' = {}
    /\ spent' = 0 /\ overrun' = 0
    /\ UNCHANGED <<limit, rows>>

Step(r) ==
    \/ GiveUp(r) \/ Rollover(r)
    \/ \E e \in Endpoint : Reject(r, e) \/ Choose(r, e)
    \/ Reserve(r) \/ Admit(r) \/ Refuse(r)
    \/ Prepare(r) \/ PrepareFails(r) \/ Send(r)
    \/ \E outcome \in Ends : Return(r, outcome)
    \/ LockoutFails(r) \/ Settle(r) \/ FinishFails(r) \/ AnswerLost(r)
    \/ Finish(r) \/ Rotate(r) \/ Adapt(r) \/ FallBack(r) \/ Retry(r)

Next == Crash \/ \E r \in Request : Step(r)

Spec == Init /\ [][Next]_vars

-----------------------------------------------------------------------------
(* Properties                                                              *)

\* Every variable holds a value of its kind.
TypeOK ==
    /\ run \in [Request ->
            [pc : Pc, ep : Endpoint \cup {NoEndpoint}, outcome : Outcome \cup {NoOutcome},
             sent : Nat, excluded : [Endpoint -> Nat], attempts : Seq(Attempt),
             kept : SUBSET (Nat \ {0}), counts : [Endpoint -> Nat], hops : Nat,
             marked : BOOLEAN, shrunk : SUBSET Endpoint, capped : SUBSET Endpoint,
             waits : Nat]]
    /\ limit \in Nat
    /\ reserved \in SUBSET Request
    /\ spent \in Nat /\ overrun \in Nat
    /\ rows \in [Request -> Seq({"prepared", "finished"})]

\* A request makes at most max_total_attempts provider calls, although a rollover
\* clears its counters and may raise the limit of the policy object that all
\* requests share.
AttemptsBounded ==
    /\ limit = MaxTotal
    /\ \A r \in Request : run[r].sent <= MaxTotal

\* Between two rollovers the loop does not come back to an endpoint it left
\* for another (the cycle check of validate_next_candidate).
NoReturn ==
    \A r \in Request :
        LET a == run[r].attempts IN
        \A i, j, k \in 1 .. Len(a) :
            i < j /\ j < k /\ a[i].era = a[k].era /\ a[i].ep = a[k].ep => a[j].ep = a[i].ep

\* Between two rollovers an endpoint gets at most max_attempts_same_endpoint
\* calls, not counting those that ended in a rotation of its keys.
RetriesBounded ==
    \A r \in Request : \A e \in Endpoint : \A n \in 0 .. MaxWaits :
        LET a == run[r].attempts IN
        Cardinality({i \in 1 .. Len(a) : a[i].ep = e /\ a[i].era = n /\ a[i].how = "call"}) <= MaxSame

\* Budget is reserved exactly while an attempt is under way: every way out of
\* the loop settles or releases it, except an attempt store that fails after
\* the reservation.
ReservationsInFlight ==
    \A r \in Request :
        /\ run[r].pc \in InFlight => r \in reserved
        /\ r \in reserved => run[r].pc \in InFlight \cup {"storeError"}

\* Concurrent requests of one scope do not collectively overspend its limit: what
\* is spent and reserved exceeds it at most by what single turns cost beyond
\* their estimates, which assume an output (requirements.py "concurrent attempts
\* cannot collectively overspend", estimated_cost_usd).
WithinBudget == spent + Reserved <= Limit + overrun

\* A provider is called only after the attempt's row is durable, also seen after
\* a crash: without a row there was no call; and only the last attempt of a
\* request can have an unknown outcome.
AttemptsWrittenAhead ==
    \A r \in Request :
        /\ run[r].sent <= Len(rows[r])
        /\ Len(rows[r]) <= run[r].sent + 1
        /\ \A i \in 1 .. Len(rows[r]) - 1 : rows[r][i] = "finished"

\* The order of an attempt's phases, from the outcome of the one before.
Phase == [settle |-> 0, finish |-> 1, select |-> 2, reserve |-> 3, admit |-> 4,
          prepare |-> 5, send |-> 6, call |-> 7,
          answered |-> 8, failed |-> 8, storeError |-> 8, dead |-> 8]

ExcludedSet(s) == {e \in Endpoint : s.excluded[e] > 0}

\* From s to t the loop came nearer to its end.  The last call may be entered twice.
Nearer(s, t) ==
    \/ /\ s.waits < t.waits
       /\ t.waits <= MaxWaits
    \/ /\ s.waits = t.waits
       /\ Len(s.attempts) < Len(t.attempts)
       /\ Len(t.attempts) <= MaxTotal + 1
    \/ /\ s.waits = t.waits
       /\ Len(s.attempts) = Len(t.attempts)
       /\ ExcludedSet(s) \subseteq ExcludedSet(t)
       /\ ExcludedSet(s) # ExcludedSet(t) \/ Phase[s.pc] < Phase[t.pc]

\* "Guaranteed request termination": every step of the loop uses up a rollover,
\* an attempt, an endpoint or a phase, and there are finitely many of each.
Progress == [][\A r \in Request : run'[r] # run[r] => Nearer(run[r], run'[r])]_vars

=============================================================================
