---------------------------- MODULE CircuitBreaker ----------------------------
(***************************************************************************)
(* One CircuitBreaker (breaker/circuit_breaker.py, breaker/metrics.py) and *)
(* the gateway threads that ask it for permission and report to it.  Every *)
(* method runs under the breaker's lock and is one step; what interleaves  *)
(* is the calls: one admitted in some state is reported in another.        *)
(*                                                                         *)
(* The clock is two flags, each raised some time after its timer started.  *)
(* The window is the COUNT_BASED one of the default configuration, and     *)
(* there is no cluster store (CircuitBreakerRegistry passes none); no      *)
(* method enters METRICS_ONLY.                                             *)
(***************************************************************************)
EXTENDS Naturals, Sequences, FiniteSets

CONSTANTS
    Caller,            \* threads of the executor
    Outcome,           \* outcomes of upstream calls that are considered
    Abandons,          \* whether a permit may be dropped without a report
    Administered,      \* whether an operator forces, disables and resets
    WindowSize,        \* sliding_window_size
    MinCalls,          \* minimum_number_of_calls
    FailureThreshold,  \* failure_rate_threshold, in percent
    SlowThreshold,     \* slow_call_rate_threshold, in percent
    HalfOpenMax        \* half_open_max_calls

\* A CallOutcome: a benign failure does not poison health (a client's fault).
Outcomes == [result : {"success", "failure", "benign"}, slow : BOOLEAN]

ASSUME ConstantsAssumption ==
    /\ IsFiniteSet(Caller)
    /\ Outcome \subseteq Outcomes
    /\ {Abandons, Administered} \subseteq BOOLEAN
    /\ {WindowSize, MinCalls, HalfOpenMax} \subseteq Nat \ {0}
    /\ {FailureThreshold, SlowThreshold} \subseteq 1 .. 100

VARIABLES
    breaker,  \* _state, _half_open_in_flight, _half_open_successes and the timers
    samples,  \* SlidingWindowMetrics._samples
    call,     \* each thread's call: none, a probe of this half-open period, other
    dropped   \* history: permits of this half-open period that nobody will return

vars == <<breaker, samples, call, dropped>>

State == {"CLOSED", "OPEN", "HALF_OPEN", "FORCED_OPEN", "DISABLED"}
Breaker ==
    [state : State, inFlight : Nat, successes : Nat,
     waited : BOOLEAN,    \* wait_duration_open_ms passed since _opened_at
     overdue : BOOLEAN]   \* max_half_open_duration_ms passed in HALF_OPEN

-----------------------------------------------------------------------------
(* SlidingWindowMetrics.                                                   *)

Record(o) ==
    LET all == Append(samples, o) IN
    IF Len(all) > WindowSize THEN Tail(all) ELSE all

Failures(w) == Cardinality({i \in DOMAIN w : w[i].result = "failure"})
SlowCalls(w) == Cardinality({i \in DOMAIN w : w[i].slow})

-----------------------------------------------------------------------------
(* The state machine, as functions of the breaker's fields.                *)

\* _evaluate_closed_thresholds, on a window that is not empty.
Breached(w) ==
    /\ Len(w) >= MinCalls
    /\ \/ Failures(w) * 100 >= FailureThreshold * Len(w)
       \/ SlowCalls(w) * 100 >= SlowThreshold * Len(w)

Opened(b) == [b EXCEPT !.state = "OPEN", !.waited = FALSE]

\* Mutated: the permits of the last half-open period are not reset.
CheckedKeepsPermits(b) ==
    IF b.state = "OPEN" /\ b.waited
    THEN [b EXCEPT !.state = "HALF_OPEN", !.overdue = FALSE, !.successes = 0]
    ELSE IF b.state = "HALF_OPEN" /\ b.overdue /\ b.inFlight = 0 THEN Opened(b) ELSE b

\* Mutated: an elapsed wait is noticed only by an administrator.
CheckedNeverProbes(b) ==
    IF b.state = "HALF_OPEN" /\ b.overdue /\ b.inFlight = 0 THEN Opened(b) ELSE b

\* _check_and_update_state
Checked(b) ==
    IF b.state = "OPEN" /\ b.waited
    THEN [b EXCEPT !.state = "HALF_OPEN", !.overdue = FALSE, !.inFlight = 0, !.successes = 0]
    ELSE IF b.state = "HALF_OPEN" /\ b.overdue /\ b.inFlight = 0 THEN Opened(b) ELSE b

\* acquire_permission: whether the call is admitted, and the permit it takes.
Admits(b) ==
    \/ b.state \in {"CLOSED", "DISABLED"}
    \/ b.state = "HALF_OPEN" /\ b.inFlight < HalfOpenMax
Admitted(b) == IF b.state = "HALF_OPEN" THEN [b EXCEPT !.inFlight = @ + 1] ELSE b

Returned(b) == [b EXCEPT !.inFlight = IF @ = 0 THEN 0 ELSE @ - 1]

\* record_success in HALF_OPEN.
ProbeSucceeded(b) ==
    IF b.successes + 1 >= HalfOpenMax
    THEN [b EXCEPT !.state = "CLOSED", !.inFlight = 0, !.successes = 0]
    ELSE [Returned(b) EXCEPT !.successes = @ + 1]

\* Mutated: a failed probe only makes the count of successes start again.
ProbeFailedQuietly(b) == [Returned(b) EXCEPT !.successes = 0]

\* record_failure in HALF_OPEN.
ProbeFailed(b) == [Opened(b) EXCEPT !.inFlight = 0, !.successes = 0]

\* Mutated: closing keeps the samples.
ProbeReportKeepsWindow(b, o) ==
    CASE o.result = "success" -> <<ProbeSucceeded(b), samples>>
      [] o.result = "failure" -> <<ProbeFailed(b), samples>>
      [] o.result = "benign" -> <<Returned(b), samples>>

\* What a report leaves: the breaker and its window.
ProbeReport(b, o) ==
    CASE o.result = "success" ->
            <<ProbeSucceeded(b), IF ProbeSucceeded(b).state = "CLOSED" THEN <<>> ELSE samples>>
      [] o.result = "failure" -> <<ProbeFailed(b), samples>>
      [] o.result = "benign" -> <<Returned(b), samples>>

\* Mutated: the window is evaluated after failures only.
WindowReportFailuresOnly(b, o) ==
    <<IF b.state = "CLOSED" /\ o.result = "failure" /\ Breached(Record(o))
      THEN Opened(b) ELSE b, Record(o)>>

\* The reports in any other state: benign failures do not evaluate the window.
WindowReport(b, o) ==
    <<IF b.state = "CLOSED" /\ o.result # "benign" /\ Breached(Record(o))
      THEN Opened(b) ELSE b, Record(o)>>

-----------------------------------------------------------------------------
(* Steps.                                                                  *)

\* The breaker becomes b.  Entering HALF_OPEN starts a new period: the calls
\* that are still out belong to an earlier one.
Becomes(b, calls) ==
    /\ breaker' = b
    /\ IF breaker.state # "HALF_OPEN" /\ b.state = "HALF_OPEN"
       THEN dropped' = 0
       ELSE dropped' = dropped
    /\ call' = calls

Outdated ==
    IF breaker.state # "HALF_OPEN" /\ Checked(breaker).state = "HALF_OPEN"
    THEN [c \in Caller |-> IF call[c] = "probe" THEN "other" ELSE call[c]]
    ELSE call

Acquire(c) ==
    LET b == Checked(breaker) IN
    /\ call[c] = "none"
    /\ IF Admits(b)
       THEN Becomes(Admitted(b),
                    [Outdated EXCEPT ![c] = IF b.state = "HALF_OPEN" THEN "probe" ELSE "other"])
       ELSE Becomes(b, Outdated)
    /\ UNCHANGED samples

\* record_success and record_failure.
Report(c, o) ==
    LET b == Checked(breaker)
        r == IF b.state = "HALF_OPEN" THEN ProbeReport(b, o) ELSE WindowReport(b, o) IN
    /\ call[c] # "none"
    /\ Becomes(r[1], [Outdated EXCEPT ![c] = "none"])
    /\ samples' = r[2]

\* The executor gives the attempt up after admission without a report: a tool
\* call of unknown outcome, a key rotation, a stream that is not opened.
Abandon(c) ==
    /\ Abandons
    /\ call[c] # "none"
    /\ call' = [call EXCEPT ![c] = "none"]
    /\ dropped' = IF call[c] = "probe" /\ breaker.state = "HALF_OPEN"
                  THEN dropped + 1 ELSE dropped
    /\ UNCHANGED <<breaker, samples>>

\* The router reads `state`, the proxy takes a snapshot.
Observe == Becomes(Checked(breaker), Outdated) /\ UNCHANGED samples

ForceOpen ==
    /\ Administered
    /\ Becomes([breaker EXCEPT !.state = "FORCED_OPEN"], call)
    /\ UNCHANGED samples

ForceClosed ==
    /\ Administered
    /\ Becomes([breaker EXCEPT !.state = "CLOSED"], call)
    /\ samples' = <<>>

Disable ==
    /\ Administered
    /\ Becomes([breaker EXCEPT !.state = "DISABLED"], call)
    /\ UNCHANGED samples

Reset ==
    /\ Administered
    /\ Becomes([breaker EXCEPT !.state = "CLOSED", !.inFlight = 0, !.successes = 0], call)
    /\ samples' = <<>>

WaitElapses ==
    /\ breaker.state = "OPEN" /\ ~breaker.waited
    /\ breaker' = [breaker EXCEPT !.waited = TRUE]
    /\ UNCHANGED <<samples, call, dropped>>

ProbeTimeElapses ==
    /\ breaker.state = "HALF_OPEN" /\ ~breaker.overdue
    /\ breaker' = [breaker EXCEPT !.overdue = TRUE]
    /\ UNCHANGED <<samples, call, dropped>>

Init ==
    /\ breaker = [state |-> "CLOSED", inFlight |-> 0, successes |-> 0,
                  waited |-> FALSE, overdue |-> FALSE]
    /\ samples = <<>>
    /\ call = [c \in Caller |-> "none"]
    /\ dropped = 0

Finish(c) == Abandon(c) \/ \E o \in Outcome : Report(c, o)

Next ==
    \/ \E c \in Caller : Acquire(c) \/ Finish(c)
    \/ Observe
    \/ ForceOpen
    \/ ForceClosed
    \/ Disable
    \/ Reset
    \/ WaitElapses
    \/ ProbeTimeElapses

Spec == Init /\ [][Next]_vars

\* Time passes, requests keep coming and every attempt ends: the executor
\* gives each one a timeout.
FairSpec ==
    /\ Spec
    /\ WF_vars(WaitElapses) /\ WF_vars(ProbeTimeElapses)
    /\ \A c \in Caller : WF_vars(Acquire(c)) /\ WF_vars(Finish(c))

-----------------------------------------------------------------------------
(* Properties.                                                             *)

Probes == {c \in Caller : call[c] = "probe"}

\* Every variable holds a value of its kind, and the counters stay within
\* half_open_max_calls.
TypeOK ==
    /\ breaker \in Breaker
    /\ breaker.inFlight <= HalfOpenMax /\ breaker.successes < HalfOpenMax
    /\ samples \in Seq(Outcomes) /\ Len(samples) <= WindowSize
    /\ call \in [Caller -> {"none", "probe", "other"}]
    /\ dropped \in Nat

\* No permit is counted that nobody took: in HALF_OPEN the in-flight counter is
\* at most the number of probes still out or abandoned, whatever earlier calls
\* report meanwhile (acquire_permission, record_success, record_failure).
NoPhantomPermit ==
    breaker.state = "HALF_OPEN" => breaker.inFlight <= Cardinality(Probes) + dropped

\* Whenever the breaker becomes CLOSED its window is empty, although calls
\* reported in OPEN, FORCED_OPEN and DISABLED are recorded: old failures never
\* trip a breaker that has just recovered.
ClosesWithEmptyWindow ==
    [][breaker.state # "CLOSED" /\ breaker'.state = "CLOSED" => samples' = <<>>]_vars

\* A CLOSED breaker whose last call was not a benign failure has a window below
\* both thresholds: each such report evaluates it (_evaluate_closed_thresholds).
TripsWhenEvaluated ==
    breaker.state = "CLOSED" /\ samples # <<>> /\ samples[Len(samples)].result # "benign" =>
        ~Breached(samples)

\* The breaker does not stay OPEN: requests move it on once the wait is over.
OpenEnds == breaker.state = "OPEN" ~> breaker.state # "OPEN"

\* The breaker does not stay HALF_OPEN: its probes close it, reopen it or time
\* out.
HalfOpenEnds == breaker.state = "HALF_OPEN" ~> breaker.state # "HALF_OPEN"

\* A half-open period ends or loses a permit, unless failures that say nothing
\* of the provider's health keep coming: each of them returns its permit, and
\* the timeout needs a moment at which no permit is out.
HalfOpenEndsUnlessBenign ==
    \/ breaker.state = "HALF_OPEN" ~> breaker.state # "HALF_OPEN" \/ dropped > 0
    \/ []<><<\E c \in Caller, o \in Outcome : o.result = "benign" /\ Report(c, o)>>_vars

=============================================================================
