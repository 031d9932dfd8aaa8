--------------------------- MODULE MCCircuitBreaker ---------------------------
(***************************************************************************)
(* CircuitBreaker for TLC.                                                 *)
(***************************************************************************)
EXTENDS CircuitBreaker, TLC

\* Only successes are also slow: a slow failure counts for the failure rate
\* alone already, a slow benign one behaves like the others.
MostOutcomes == {o \in Outcomes : o.slow => o.result = "success"}
=============================================================================
