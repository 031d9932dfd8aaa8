----------------------------- MODULE MCExecutor -----------------------------
(* Instances of Executor for TLC.                                          *)
EXTENDS Executor, TLC

\* One outcome of each kind the loop treats differently, size excepted, which
\* it treats as cap.
KindsOfOutcome == {"answered", "raised", "rotate", "rateLimit", "retryable", "final",
                   "account", "cap"}

\* All endpoints belong to one provider account and cost the same, so they are
\* interchangeable.
OneProvider == [e \in Endpoint |-> "provider"]
UnitEstimate == [e \in Endpoint |-> 1]
UnitCost == [e \in Endpoint |-> {1}]
Symmetry == Permutations(Request) \cup Permutations(Endpoint)

\* A turn is estimated at 2, and costs less, that, or more.
DoubleEstimate == [e \in Endpoint |-> 2]
AnyCost == [e \in Endpoint |-> 1 .. 3]
=============================================================================
