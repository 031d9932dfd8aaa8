---------------------------- MODULE MCNativeStream ----------------------------
(***************************************************************************)
(* NativeStream for TLC.                                                   *)
(***************************************************************************)
EXTENDS NativeStream

CONSTANTS e1, e2, e3

\* e1 and e2 share an account; e3 does not stream.
MCProvider == [e \in {e1, e2, e3} |-> IF e = e3 THEN "q" ELSE "p"]

\* Every request but those that differ only in what their handler does not read.
MCQuery ==
    {q \in Queries :
        /\ q.path # "chat" => ~q.stream /\ ~q.acp /\ ~q.tools /\ q.mode = "atomic_buffered"
        /\ q.body = "bad" \/ q.headers = "bad" => ~q.stream /\ ~q.acp /\ ~q.tools}
=============================================================================
