--------------------------- MODULE ExecutorProofs ---------------------------
(***************************************************************************)
(* What the attempt loop guarantees for any number of requests, endpoints, *)
(* attempts, hops and rollovers.                                           *)
(*                                                                         *)
(* The invariant speaks of one request at a time: RunInv(s, w) relates its *)
(* local state s and its durable rows w, Holds(r, s) its reservation.  A   *)
(* step of one request changes nothing of another, so each action is a     *)
(* lemma about one request.                                                *)
(***************************************************************************)
EXTENDS Executor, FiniteSetTheorems, NaturalsInduction, WellFoundedInduction, TLAPS

RunState ==
    [pc : Pc, ep : Endpoint \cup {NoEndpoint}, outcome : Outcome \cup {NoOutcome},
     sent : Nat, excluded : [Endpoint -> Nat], attempts : Seq(Attempt),
     kept : SUBSET (Nat \ {0}), counts : [Endpoint -> Nat], hops : Nat,
     marked : BOOLEAN, shrunk : SUBSET Endpoint, capped : SUBSET Endpoint,
     waits : Nat]

Rows == Seq({"prepared", "finished"})

BeforeCall == {"reserve", "admit", "prepare", "send", "call"}
Chosen == BeforeCall \cup {"settle", "finish"}

\* The endpoint of an attempt under way is not excluded, so excluding it is
\* progress; an attempt is under way only if one was left; a lost answer is
\* entered a second time.
LoopInv(s) ==
    /\ s.pc \in Chosen => s.ep \in Endpoint /\ s.excluded[s.ep] = 0
    /\ s.pc \in BeforeCall => Len(s.attempts) < MaxTotal
    /\ s.pc = "settle" => Len(s.attempts) <= MaxTotal
    /\ s.pc = "finish" /\ s.outcome = "answered" => Len(s.attempts) <= MaxTotal
    /\ Len(s.attempts) <= MaxTotal + 1
    /\ s.waits <= MaxWaits

\* Calls, ledger entries and rows go in step.
RowInv(s, w) ==
    /\ s.sent <= Len(s.attempts) + 1
    /\ s.pc \notin {"call", "dead"} => s.sent <= Len(s.attempts)
    /\ s.sent <= MaxTotal
    /\ s.sent <= Len(w)
    /\ Len(w) <= s.sent + 1
    /\ s.pc \in {"select", "reserve", "admit", "prepare"} => Len(w) = s.sent
    /\ s.pc = "send" => Len(w) = s.sent + 1
    /\ s.pc \in {"call", "settle", "finish"} => Len(w) = s.sent /\ Len(w) > 0
    /\ \A i \in 1 .. Len(w) : i < Len(w) => w[i] = "finished"
    /\ s.pc \in {"select", "reserve", "admit", "prepare"} =>
            \A i \in 1 .. Len(w) : w[i] = "finished"

RunInv(s, w) ==
    /\ s \in RunState
    /\ w \in Rows
    /\ LoopInv(s)
    /\ RowInv(s, w)

Holds(r, s) ==
    /\ s.pc \in InFlight => r \in reserved
    /\ r \in reserved => s.pc \in InFlight \cup {"storeError"}

Inv ==
    /\ DOMAIN run = Request /\ run = [r \in Request |-> run[r]]
    /\ DOMAIN rows = Request /\ rows = [r \in Request |-> rows[r]]
    /\ limit = MaxTotal
    /\ reserved \in SUBSET Request
    /\ spent \in Nat
    /\ \A r \in Request : RunInv(run[r], rows[r]) /\ Holds(r, run[r])

-----------------------------------------------------------------------------

\* A step of r that ends in local state t and rows v.
Moved(r, t, v) ==
    /\ run' = [run EXCEPT ![r] = t]
    /\ rows' = [rows EXCEPT ![r] = v]
    /\ \A q \in Request : q # r => (q \in reserved' <=> q \in reserved)
    /\ reserved' \in SUBSET Request
    /\ limit' = MaxTotal
    /\ spent' \in Nat
    /\ t.pc \in InFlight => r \in reserved'
    /\ r \in reserved' => t.pc \in InFlight \cup {"storeError"}

Advances(r) == \E t, v : Moved(r, t, v) /\ RunInv(t, v) /\ Nearer(run[r], t)

LEMMA AdvancesInv ==
    ASSUME Inv, NEW r \in Request, Advances(r)
    PROVE  /\ Inv'
           /\ Nearer(run[r], run'[r])
           /\ \A q \in Request : q # r => run'[q] = run[q]
<1>a. PICK t, v : Moved(r, t, v) /\ RunInv(t, v) /\ Nearer(run[r], t)
  BY DEF Advances
<1>1. \A q \in Request : q # r => run'[q] = run[q] /\ rows'[q] = rows[q]
  BY <1>a DEF Inv, Moved
<1>2. run'[r] = t /\ rows'[r] = v
  BY <1>a DEF Inv, Moved
<1>3. ASSUME NEW q \in Request
      PROVE  RunInv(run'[q], rows'[q]) /\ Holds(q, run[q])'
  <2>1. CASE q = r
    BY <1>a, <1>2, <2>1 DEF Moved, Holds
  <2>2. CASE q # r
    BY <1>a, <1>1, <2>2 DEF Moved, Holds, Inv
  <2> QED BY <2>1, <2>2
<1>4. /\ DOMAIN run' = Request /\ run' = [q \in Request |-> run'[q]]
      /\ DOMAIN rows' = Request /\ rows' = [q \in Request |-> rows'[q]]
  BY <1>a, Zenon DEF Inv, Moved
<1>5. limit' = MaxTotal /\ reserved' \in SUBSET Request /\ spent' \in Nat
  BY <1>a DEF Moved
<1>6. Inv'
  BY <1>3, <1>4, <1>5 DEF Inv
<1> QED BY <1>a, <1>1, <1>2, <1>6

\* Steps that leave what is shared alone.
LEMMA LocalAdvances ==
    ASSUME Inv, NEW r \in Request, NEW t, Become(r, t), UNCHANGED shared,
           RunInv(t, rows[r]), Holds(r, t), Nearer(run[r], t)
    PROVE  Advances(r)
<1>1. Moved(r, t, rows[r])
  BY DEF Inv, Moved, Become, shared, Holds
<1> QED BY <1>1 DEF Advances

\* A request that ends before its call, or between call and row.
LEMMA EndInv ==
    ASSUME NEW s, NEW w, RunInv(s, w),
           s.pc \in {"select", "reserve", "prepare", "settle", "finish"},
           NEW pc \in {"failed", "storeError"}
    PROVE  /\ RunInv([s EXCEPT !.pc = pc], w)
           /\ Nearer(s, [s EXCEPT !.pc = pc])
           /\ [s EXCEPT !.pc = pc].pc = pc
<1> DEFINE t == [s EXCEPT !.pc = pc]
<1>1. t \in RunState
  BY Zenon DEF RunInv, RunState, Pc, Ended
<1>2. /\ t.pc = pc /\ t.attempts = s.attempts /\ t.waits = s.waits
      /\ t.sent = s.sent /\ t.excluded = s.excluded /\ t.ep = s.ep
  BY DEF RunInv, RunState
<1> HIDE DEF t
<1>3. LoopInv(t) /\ RowInv(t, w)
  BY <1>2 DEF RunInv, LoopInv, RowInv, Chosen, BeforeCall
<1>4. Phase[s.pc] < Phase[t.pc]
  BY <1>2 DEF Phase
<1>5. Nearer(s, t)
  BY <1>2, <1>4 DEF Nearer, ExcludedSet
<1> QED BY <1>1, <1>2, <1>3, <1>5 DEF RunInv, t

LEMMA GiveUpAdvances ==
    ASSUME Inv, NEW r \in Request, GiveUp(r)
    PROVE  Advances(r)
<1> DEFINE s == run[r]
           t == [s EXCEPT !.pc = "failed"]
<1>1. RunInv(s, rows[r]) /\ Holds(r, s)
  BY DEF Inv
<1>2. s.pc \in {"select", "reserve"} /\ Become(r, t) /\ UNCHANGED shared
  BY DEF GiveUp, Goto
<1>3. RunInv(t, rows[r]) /\ Nearer(s, t) /\ t.pc = "failed"
  BY <1>1, <1>2, EndInv, Zenon
<1>4. Holds(r, t)
  BY <1>1, <1>2, <1>3 DEF Holds, InFlight
<1> HIDE DEF t
<1> QED BY <1>2, <1>3, <1>4, LocalAdvances

LEMMA StoreFailureAdvances ==
    ASSUME Inv, NEW r \in Request, PrepareFails(r) \/ LockoutFails(r) \/ FinishFails(r)
    PROVE  Advances(r)
<1> DEFINE s == run[r]
           t == [s EXCEPT !.pc = "storeError"]
<1>1. RunInv(s, rows[r]) /\ Holds(r, s)
  BY DEF Inv
<1>2. s.pc \in {"prepare", "settle", "finish"} /\ Become(r, t) /\ UNCHANGED shared
  BY DEF PrepareFails, LockoutFails, FinishFails, Goto
<1>3. RunInv(t, rows[r]) /\ Nearer(s, t) /\ t.pc = "storeError"
  BY <1>1, <1>2, EndInv, Zenon
<1>4. Holds(r, t)
  BY <1>3 DEF Holds, InFlight
<1> HIDE DEF t
<1> QED BY <1>2, <1>3, <1>4, LocalAdvances

-----------------------------------------------------------------------------
(* Choosing a candidate                                                    *)

\* Selection keeps calls, ledger entries and rows.
LEMMA SelectedInv ==
    ASSUME NEW s, NEW w, RunInv(s, w), s.pc = "select",
           NEW t \in RunState, t.pc = "select" \/ t.pc = "reserve",
           t.attempts = s.attempts, t.sent = s.sent, t.waits <= MaxWaits,
           t.pc = "reserve" => /\ t.ep \in Endpoint /\ t.excluded[t.ep] = 0
                               /\ Len(t.attempts) < MaxTotal
    PROVE  RunInv(t, w)
<1>1. LoopInv(t)
  BY DEF RunInv, LoopInv, Chosen, BeforeCall
<1>2. RowInv(t, w)
  BY DEF RunInv, RowInv
<1> QED BY <1>1, <1>2 DEF RunInv

\* Excluding an endpoint that was not excluded is progress.
LEMMA ExcludeGrows ==
    ASSUME NEW s \in RunState, NEW e \in Endpoint, s.excluded[e] = 0,
           NEW t \in RunState, t.excluded = Exclude(s.excluded, e),
           t.attempts = s.attempts, t.waits = s.waits
    PROVE  Nearer(s, t)
<1>1. s.excluded \in [Endpoint -> Nat]
  BY DEF RunState
<1>2. /\ t.excluded[e] = 1
      /\ \A f \in Endpoint : f # e => t.excluded[f] = s.excluded[f]
  BY <1>1 DEF Exclude
<1>3. e \in ExcludedSet(t) /\ e \notin ExcludedSet(s) /\ ExcludedSet(s) \subseteq ExcludedSet(t)
  BY <1>1, <1>2 DEF ExcludedSet
<1> QED BY <1>3 DEF Nearer

LEMMA RejectAdvances ==
    ASSUME Inv, NEW r \in Request, NEW e \in Endpoint, Reject(r, e)
    PROVE  Advances(r)
<1> DEFINE s == run[r]
           t == [s EXCEPT !.excluded = Exclude(@, e)]
<1>1. RunInv(s, rows[r]) /\ Holds(r, s) /\ s \in RunState
  BY DEF Inv, RunInv
<1>2. s.pc = "select" /\ s.excluded[e] = 0 /\ Become(r, t) /\ UNCHANGED shared
  BY DEF Reject, Offered
<1>3. Exclude(s.excluded, e) \in [Endpoint -> Nat]
  <2>1. s.excluded \in [Endpoint -> Nat] /\ e \in Endpoint
    BY <1>1 DEF RunState
  <2> QED BY ONLY <2>1 DEF Exclude
<1>4. t \in RunState
  BY <1>1, <1>3, Zenon DEF RunState
<1>5. /\ t.pc = s.pc /\ t.attempts = s.attempts /\ t.waits = s.waits /\ t.sent = s.sent
      /\ t.excluded = Exclude(s.excluded, e)
  BY <1>1 DEF RunState
<1>6. s.waits <= MaxWaits
  BY <1>1 DEF RunInv, LoopInv
<1> HIDE DEF s, t
<1>7. RunInv(t, rows[r])
  BY <1>1, <1>2, <1>4, <1>5, <1>6, SelectedInv
<1>8. Nearer(s, t)
  BY <1>1, <1>2, <1>4, <1>5, ExcludeGrows
<1>9. Holds(r, t)
  BY <1>1, <1>5 DEF Holds
<1> QED BY <1>2, <1>7, <1>8, <1>9, LocalAdvances DEF s

LEMMA ChooseAdvances ==
    ASSUME Inv, NEW r \in Request, NEW e \in Endpoint, Choose(r, e)
    PROVE  Advances(r)
<1> DEFINE s == run[r]
<1>1. RunInv(s, rows[r]) /\ Holds(r, s) /\ s \in RunState
  BY DEF Inv, RunInv
<1> DEFINE switch == s.ep \notin {NoEndpoint, e}
           hops == IF switch /\ ~s.marked THEN s.hops + 1 ELSE s.hops
           marked == IF switch THEN FALSE ELSE s.marked
<1>2. hops \in Nat /\ marked \in BOOLEAN
  <2>1. s.hops \in Nat /\ s.marked \in BOOLEAN
    BY <1>1 DEF RunState
  <2>2. hops \in Nat
    BY <2>1
  <2>3. CASE switch
    <3>1. marked = FALSE
      BY <2>3
    <3> QED BY <2>2, <3>1, Zenon
  <2>4. CASE ~switch
    <3>1. marked = s.marked
      BY <2>4
    <3> HIDE DEF marked, hops, s
    <3> QED BY <2>1, <2>2, <3>1
  <2> QED BY <2>3, <2>4, Zenon
<1> DEFINE t == [s EXCEPT !.pc = "reserve", !.ep = e, !.hops = hops, !.marked = marked]
<1>3. /\ s.pc = "select" /\ s.excluded[e] = 0 /\ Become(r, t) /\ UNCHANGED shared
      /\ Len(s.attempts) < MaxTotal
  BY DEF Choose, Offered, AttemptsLeft, Inv
<1> HIDE DEF hops, marked
<1>4. t \in RunState
  BY <1>1, <1>2, Zenon DEF RunState, Pc
<1>5. /\ t.pc = "reserve" /\ t.attempts = s.attempts /\ t.waits = s.waits /\ t.sent = s.sent
      /\ t.excluded = s.excluded /\ t.ep = e
  BY <1>1 DEF RunState
<1>6. s.waits <= MaxWaits
  BY <1>1 DEF RunInv, LoopInv
<1> HIDE DEF s, t
<1>7. RunInv(t, rows[r])
  BY <1>1, <1>3, <1>4, <1>5, <1>6, SelectedInv
<1>8. Nearer(s, t)
  BY <1>3, <1>5 DEF Nearer, ExcludedSet, Phase
<1>9. Holds(r, t)
  BY <1>1, <1>3, <1>5 DEF Holds, InFlight
<1> QED BY <1>3, <1>7, <1>8, <1>9, LocalAdvances DEF s

LEMMA RolloverAdvances ==
    ASSUME Inv, NEW r \in Request, Rollover(r)
    PROVE  Advances(r)
<1> DEFINE s == run[r]
           back == RateLimited(r)
           excluded == [e \in Endpoint |-> IF e \in back THEN s.excluded[e] - 1 ELSE s.excluded[e]]
           counts == [e \in Endpoint |-> IF e \in back THEN 0 ELSE s.counts[e]]
           kept == {i \in s.kept : s.attempts[i].ep \notin back}
           waits == s.waits + 1
           t == [s EXCEPT !.waits = waits, !.excluded = excluded, !.counts = counts,
                          !.kept = kept, !.hops = 0]
<1>1. RunInv(s, rows[r]) /\ Holds(r, s) /\ s \in RunState
  BY DEF Inv, RunInv
<1>2. /\ s.pc = "select" /\ s.waits < MaxWaits /\ Become(r, t)
      /\ UNCHANGED <<reserved, spent, overrun, rows>>
  BY DEF Rollover
<1>3. Len(s.attempts) < limit /\ limit = MaxTotal
  BY DEF Rollover, AttemptsLeft, Inv
<1>4. UNCHANGED shared
  <2>1. Len(s.attempts) \in Nat /\ limit \in Nat
    BY <1>1, <1>3, ConstantsAssumption DEF RunState
  <2>2. limit' = limit
    BY <1>3, <2>1 DEF Rollover
  <2> QED BY <1>2, <2>2 DEF shared
<1>5. s.excluded \in [Endpoint -> Nat] /\ s.counts \in [Endpoint -> Nat] /\ s.kept \subseteq Nat \ {0}
  BY <1>1 DEF RunState
<1>6. \A e \in back : s.excluded[e] > 0
  BY DEF RateLimited
<1>7. excluded \in [Endpoint -> Nat]
  BY <1>5, <1>6
<1>8. counts \in [Endpoint -> Nat]
  BY <1>5
<1>9. kept \subseteq Nat \ {0}
  BY <1>5
<1>a. waits \in Nat
  BY <1>1 DEF RunState
<1>b. waits = s.waits + 1
  OBVIOUS
<1> HIDE DEF excluded, counts, kept, waits, s, back
<1>10. t \in RunState
  BY <1>1, <1>7, <1>8, <1>9, <1>a, Zenon DEF RunState
<1>11. /\ t.pc = s.pc /\ t.attempts = s.attempts /\ t.waits = s.waits + 1 /\ t.sent = s.sent
  BY <1>1, <1>b DEF RunState
<1>12. s.waits \in Nat
  BY <1>1 DEF RunState
<1> HIDE DEF t
<1>13. RunInv(t, rows[r])
  BY <1>1, <1>2, <1>10, <1>11, <1>12, ConstantsAssumption, SelectedInv
<1>14. Nearer(s, t)
  BY <1>2, <1>11, <1>12, ConstantsAssumption DEF Nearer
<1>15. Holds(r, t)
  BY <1>1, <1>11 DEF Holds
<1> QED BY <1>2, <1>4, <1>13, <1>14, <1>15, LocalAdvances DEF s

-----------------------------------------------------------------------------
(* One attempt                                                             *)

\* The endpoint is given up before its call.
LEMMA PassedOver ==
    ASSUME Inv, NEW r \in Request, run[r].pc = "reserve" \/ run[r].pc = "admit",
           Become(r, [run[r] EXCEPT !.pc = "select", !.excluded = Exclude(@, run[r].ep)]),
           reserved' = reserved \ {r}, UNCHANGED <<limit, spent, rows>>
    PROVE  Advances(r)
<1> DEFINE s == run[r]
           t == [s EXCEPT !.pc = "select", !.excluded = Exclude(@, s.ep)]
<1>1. RunInv(s, rows[r]) /\ Holds(r, s) /\ s \in RunState
  BY DEF Inv, RunInv
<1>2. s.ep \in Endpoint /\ s.excluded[s.ep] = 0
  BY <1>1 DEF RunInv, LoopInv, Chosen, BeforeCall
<1>3. Exclude(s.excluded, s.ep) \in [Endpoint -> Nat]
  BY <1>1, <1>2 DEF RunState, Exclude
<1>4. t \in RunState
  BY <1>1, <1>3, Zenon DEF RunState, Pc
<1>5. /\ t.pc = "select" /\ t.attempts = s.attempts /\ t.waits = s.waits /\ t.sent = s.sent
      /\ t.excluded = Exclude(s.excluded, s.ep)
  BY <1>1 DEF RunState
<1>6. Become(r, t) /\ (s.pc = "reserve" \/ s.pc = "admit")
  OBVIOUS
<1> HIDE DEF s, t
<1>7. Nearer(s, t)
  BY <1>1, <1>2, <1>4, <1>5, ExcludeGrows
<1>8. LoopInv(t) /\ RowInv(t, rows[r])
  BY <1>1, <1>5, <1>6 DEF RunInv, LoopInv, RowInv, Chosen, BeforeCall
<1>9. RunInv(t, rows[r])
  BY <1>1, <1>4, <1>8 DEF RunInv
<1>10. Moved(r, t, rows[r])
  BY <1>5, <1>6, Zenon DEF Inv, Moved, Become, InFlight
<1> QED BY <1>7, <1>9, <1>10 DEF Advances, s

\* The step to the next phase before the call.
LEMMA NextPhase ==
    ASSUME Inv, NEW r \in Request, NEW pc,
           \/ (run[r].pc = "reserve" /\ pc = "admit")
           \/ (run[r].pc = "admit" /\ pc = "prepare"),
           Goto(r, pc), reserved' = reserved \cup {r}, UNCHANGED <<limit, spent, rows>>
    PROVE  Advances(r)
<1> DEFINE s == run[r]
           t == [s EXCEPT !.pc = pc]
<1>1. RunInv(s, rows[r]) /\ s \in RunState
  BY DEF Inv, RunInv
<1>2. t \in RunState
  BY <1>1, Zenon DEF RunState, Pc, InFlight
<1>3. /\ t.pc = pc /\ t.attempts = s.attempts /\ t.waits = s.waits /\ t.sent = s.sent
      /\ t.excluded = s.excluded /\ t.ep = s.ep
  BY <1>1 DEF RunState
<1>4. Become(r, t)
  BY DEF Goto
<1>a. \/ (s.pc = "reserve" /\ pc = "admit")
      \/ (s.pc = "admit" /\ pc = "prepare")
  OBVIOUS
<1> HIDE DEF s, t
<1>5. Nearer(s, t)
  BY <1>3, <1>a DEF Nearer, ExcludedSet, Phase
<1>6. LoopInv(t) /\ RowInv(t, rows[r])
  BY <1>1, <1>3, <1>a DEF RunInv, LoopInv, RowInv, Chosen, BeforeCall
<1>7. RunInv(t, rows[r])
  BY <1>1, <1>2, <1>6 DEF RunInv
<1>8. Moved(r, t, rows[r])
  BY <1>3, <1>4, <1>a DEF Inv, Moved, Become, InFlight
<1> QED BY <1>5, <1>7, <1>8 DEF Advances, s

LEMMA AdmissionAdvances ==
    ASSUME Inv, NEW r \in Request, Reserve(r) \/ Admit(r) \/ Refuse(r)
    PROVE  Advances(r)
<1>1. Holds(r, run[r])
  BY DEF Inv
<1>2. CASE Reserve(r) /\ Affordable(r)
  <2>1. /\ run[r].pc = "reserve" /\ Goto(r, "admit") /\ reserved' = reserved \cup {r}
        /\ UNCHANGED <<limit, spent, rows>>
    BY <1>2, SMTT(20) DEF Reserve
  <2> QED BY <2>1, NextPhase
<1>3. CASE Reserve(r) /\ ~Affordable(r)
  <2>1. r \notin reserved
    BY <1>1, <1>3 DEF Reserve, Holds, InFlight
  <2> QED BY <1>3, <2>1, PassedOver, Zenon DEF Reserve
<1>4. CASE Admit(r)
  <2>1. r \in reserved
    BY <1>1, <1>4, SMTT(20) DEF Admit, Holds, InFlight
  <2> QED BY <1>4, <2>1, NextPhase DEF Admit, shared
<1>5. CASE Refuse(r)
  BY <1>5, PassedOver, Zenon DEF Refuse
<1> QED BY <1>2, <1>3, <1>4, <1>5

\* A row is appended before the call and completed after it.
LEMMA AppendedRow ==
    ASSUME NEW w \in Rows, \A i \in 1 .. Len(w) : w[i] = "finished"
    PROVE  LET v == Append(w, "prepared") IN
           /\ v \in Rows /\ Len(v) = Len(w) + 1
           /\ \A i \in 1 .. Len(v) : i < Len(v) => v[i] = "finished"
BY DEF Rows

LEMMA FinishedRow ==
    ASSUME NEW w \in Rows, Len(w) > 0,
           \A i \in 1 .. Len(w) : i < Len(w) => w[i] = "finished"
    PROVE  LET v == [w EXCEPT ![Len(w)] = "finished"] IN
           /\ v \in Rows /\ Len(v) = Len(w)
           /\ \A i \in 1 .. Len(v) : v[i] = "finished"
BY DEF Rows

LEMMA PrepareAdvances ==
    ASSUME Inv, NEW r \in Request, Prepare(r)
    PROVE  Advances(r)
<1> DEFINE s == run[r]
           t == [s EXCEPT !.pc = "send"]
           w == rows[r]
           v == Append(w, "prepared")
<1>1. RunInv(s, w) /\ Holds(r, s) /\ s \in RunState
  BY DEF Inv, RunInv
<1>2. s.pc = "prepare" /\ Become(r, t) /\ UNCHANGED <<limit, reserved, spent>>
  BY DEF Prepare, Goto
<1>3. rows' = [rows EXCEPT ![r] = v]
  BY DEF Prepare
<1>4. t \in RunState
  BY <1>1, Zenon DEF RunState, Pc, InFlight
<1>5. /\ t.pc = "send" /\ t.attempts = s.attempts /\ t.waits = s.waits /\ t.sent = s.sent
      /\ t.excluded = s.excluded /\ t.ep = s.ep
  BY <1>1 DEF RunState
<1>6. w \in Rows /\ \A i \in 1 .. Len(w) : w[i] = "finished"
  BY <1>1, <1>2 DEF RunInv, RowInv
<1>7. /\ v \in Rows /\ Len(v) = Len(w) + 1
      /\ \A i \in 1 .. Len(v) : i < Len(v) => v[i] = "finished"
  BY <1>6, AppendedRow
<1> HIDE DEF s, t, w, v
<1>8. Nearer(s, t)
  BY <1>2, <1>5 DEF Nearer, ExcludedSet, Phase
<1>9. LoopInv(t)
  BY <1>1, <1>2, <1>5 DEF RunInv, LoopInv, Chosen, BeforeCall
<1>10. RowInv(t, v)
  <2>1. s.sent \in Nat /\ Len(s.attempts) \in Nat /\ Len(w) \in Nat
    BY <1>1, <1>6 DEF RunState, Rows
  <2> QED BY <1>1, <1>2, <1>5, <1>7, <2>1 DEF RunInv, RowInv
<1>11. Moved(r, t, v)
  BY <1>1, <1>2, <1>3, <1>5 DEF Inv, Moved, Become, InFlight, Holds
<1> QED BY <1>4, <1>7, <1>8, <1>9, <1>10, <1>11 DEF Advances, RunInv, s

LEMMA SendAdvances ==
    ASSUME Inv, NEW r \in Request, Send(r)
    PROVE  Advances(r)
<1> DEFINE s == run[r]
           sent == s.sent + 1
           t == [s EXCEPT !.pc = "call", !.sent = sent]
<1>1. RunInv(s, rows[r]) /\ Holds(r, s) /\ s \in RunState
  BY DEF Inv, RunInv
<1>2. s.pc = "send" /\ Become(r, t) /\ UNCHANGED shared
  BY DEF Send
<1>a. sent \in Nat
  BY <1>1 DEF RunState
<1>b. sent = s.sent + 1
  OBVIOUS
<1> HIDE DEF sent
<1>3. t \in RunState
  BY <1>1, <1>a, Zenon DEF RunState, Pc, InFlight
<1>4. /\ t.pc = "call" /\ t.attempts = s.attempts /\ t.waits = s.waits
      /\ t.sent = s.sent + 1 /\ t.excluded = s.excluded /\ t.ep = s.ep
  BY <1>1, <1>b DEF RunState
<1>5. s.sent \in Nat /\ Len(s.attempts) \in Nat /\ Len(rows[r]) \in Nat
  BY <1>1 DEF RunInv, RunState, Rows
<1> HIDE DEF s, t
<1>6. Nearer(s, t)
  BY <1>2, <1>4 DEF Nearer, ExcludedSet, Phase
<1>7. LoopInv(t)
  BY <1>1, <1>2, <1>4, SMTT(30) DEF RunInv, LoopInv, Chosen, BeforeCall
<1>8. RowInv(t, rows[r])
  <2>1. LoopInv(s) /\ RowInv(s, rows[r])
    BY <1>1 DEF RunInv
  <2>2. s.sent <= Len(s.attempts) /\ Len(rows[r]) = s.sent + 1 /\ Len(s.attempts) < MaxTotal
    BY <1>2, <2>1 DEF LoopInv, RowInv, BeforeCall
  <2>3. /\ t.sent <= Len(t.attempts) + 1 /\ t.sent <= MaxTotal
        /\ t.sent = Len(rows[r]) /\ Len(rows[r]) <= t.sent + 1 /\ Len(rows[r]) > 0
    BY <1>4, <1>5, <2>2, ConstantsAssumption
  <2>4. \A i \in 1 .. Len(rows[r]) : i < Len(rows[r]) => rows[r][i] = "finished"
    BY <2>1 DEF RowInv
  <2> QED BY <1>4, <1>5, <2>3, <2>4 DEF RowInv
<1>9. RunInv(t, rows[r])
  BY <1>1, <1>3, <1>7, <1>8 DEF RunInv
<1>10. Holds(r, t)
  BY <1>1, <1>2, <1>4 DEF Holds, InFlight
<1> QED BY <1>2, <1>6, <1>9, <1>10, LocalAdvances DEF s

\* Entering an attempt adds one entry and touches nothing else of the loop.
LEMMA RecordedState ==
    ASSUME NEW r \in Request, run[r] \in RunState, run[r].ep \in Endpoint,
           NEW outcome \in Outcome, NEW how \in How
    PROVE  LET s == run[r]
               t == Recorded(r, outcome, how)
           IN  /\ t \in RunState
               /\ Len(t.attempts) = Len(s.attempts) + 1 /\ Len(s.attempts) \in Nat
               /\ t.outcome = outcome
               /\ t.pc = s.pc /\ t.ep = s.ep /\ t.sent = s.sent
               /\ t.excluded = s.excluded /\ t.waits = s.waits
<1> DEFINE s == run[r]
           a == Entry(r, outcome, how)
           attempts == Append(s.attempts, a)
           kept == s.kept \cup {Len(s.attempts) + 1}
           counts == Counted(s.counts, s.ep)
           t == [s EXCEPT !.outcome = outcome, !.attempts = attempts,
                          !.kept = kept, !.counts = counts]
<1>1. /\ s.attempts \in Seq(Attempt) /\ s.counts \in [Endpoint -> Nat] /\ s.waits \in Nat
      /\ s.kept \subseteq Nat \ {0}
  BY DEF RunState
<1>2. a \in Attempt
  <2>1. \A x \in Endpoint, n \in Nat, b \in BOOLEAN :
            [ep |-> x, short |-> b, how |-> how, era |-> n] \in Attempt
    BY DEF Attempt
  <2>2. (outcome \in ShortRateLimit) \in BOOLEAN
    OBVIOUS
  <2> QED BY <1>1, <2>1, <2>2, Zenon DEF Entry
<1>3. t = Recorded(r, outcome, how)
  BY DEF Recorded
<1> HIDE DEF a
<1>4. attempts \in Seq(Attempt) /\ Len(attempts) = Len(s.attempts) + 1 /\ Len(s.attempts) \in Nat
  BY <1>1, <1>2
<1>5. kept \subseteq Nat \ {0}
  BY <1>1
<1>6. counts \in [Endpoint -> Nat]
  BY <1>1 DEF Counted
<1> HIDE DEF attempts, kept, counts
<1>7. t \in RunState
  BY <1>4, <1>5, <1>6, Zenon DEF RunState
<1>8. /\ t.attempts = attempts /\ t.outcome = outcome /\ t.pc = s.pc /\ t.ep = s.ep
      /\ t.sent = s.sent /\ t.excluded = s.excluded /\ t.waits = s.waits
  BY DEF RunState
<1> HIDE DEF t
<1> QED BY <1>3, <1>4, <1>7, <1>8

LEMMA ReturnAdvances ==
    ASSUME Inv, NEW r \in Request, NEW outcome \in Ends, Return(r, outcome)
    PROVE  Advances(r)
<1> DEFINE s == run[r]
           how == IF outcome \in Rotates THEN "rotated" ELSE "call"
           u == Recorded(r, outcome, how)
           t == [u EXCEPT !.pc = "settle"]
<1>1. RunInv(s, rows[r]) /\ Holds(r, s) /\ s \in RunState
  BY DEF Inv, RunInv
<1>2. s.pc = "call" /\ Become(r, t) /\ UNCHANGED shared
  BY DEF Return
<1>3. s.ep \in Endpoint /\ s.excluded[s.ep] = 0 /\ Len(s.attempts) < MaxTotal
  BY <1>1, <1>2 DEF RunInv, LoopInv, Chosen, BeforeCall
<1>4. outcome \in Outcome /\ how \in How
  BY ConstantsAssumption DEF How
<1> HIDE DEF how
<1>5. /\ u \in RunState
      /\ Len(u.attempts) = Len(s.attempts) + 1 /\ Len(s.attempts) \in Nat
      /\ u.sent = s.sent /\ u.excluded = s.excluded /\ u.waits = s.waits /\ u.ep = s.ep
  BY <1>1, <1>3, <1>4, RecordedState
<1> HIDE DEF u
<1>6. t \in RunState
  BY <1>5, Zenon DEF RunState, Pc, InFlight
<1>7. /\ t.pc = "settle" /\ t.attempts = u.attempts /\ t.waits = s.waits
      /\ t.sent = s.sent /\ t.excluded = s.excluded /\ t.ep = s.ep
  BY <1>5 DEF RunState
<1>8. s.sent \in Nat /\ Len(rows[r]) \in Nat
  BY <1>1 DEF RunInv, RunState, Rows
<1> HIDE DEF s, t
<1>9. Nearer(s, t)
  BY <1>3, <1>5, <1>7, ConstantsAssumption DEF Nearer
<1>10. LoopInv(t)
  BY <1>1, <1>3, <1>5, <1>7, ConstantsAssumption DEF RunInv, LoopInv, Chosen, BeforeCall
<1>11. RowInv(t, rows[r])
  <2>1. RowInv(s, rows[r])
    BY <1>1 DEF RunInv
  <2>2. Len(rows[r]) = s.sent /\ s.sent <= Len(s.attempts) + 1 /\ s.sent > 0
    BY <1>2, <2>1 DEF RowInv
  <2> QED BY <1>5, <1>7, <1>8, <2>1, <2>2 DEF RowInv
<1>12. RunInv(t, rows[r])
  BY <1>1, <1>6, <1>10, <1>11 DEF RunInv
<1>13. Holds(r, t)
  BY <1>1, <1>2, <1>7 DEF Holds, InFlight
<1> QED BY <1>2, <1>9, <1>12, <1>13, LocalAdvances DEF s

LEMMA AnswerLostAdvances ==
    ASSUME Inv, NEW r \in Request, AnswerLost(r)
    PROVE  Advances(r)
<1> DEFINE s == run[r]
           t == Recorded(r, "retryable", "again")
<1>1. RunInv(s, rows[r]) /\ Holds(r, s) /\ s \in RunState
  BY DEF Inv, RunInv
<1>2. s.pc = "finish" /\ s.outcome = "answered" /\ Become(r, t) /\ UNCHANGED shared
  BY DEF AnswerLost
<1>3. s.ep \in Endpoint /\ s.excluded[s.ep] = 0 /\ Len(s.attempts) <= MaxTotal
  BY <1>1, <1>2 DEF RunInv, LoopInv, Chosen
<1>4. "retryable" \in Outcome /\ "again" \in How
  BY DEF Outcome, Failure, Retryable, How
<1>5. /\ t \in RunState
      /\ Len(t.attempts) = Len(s.attempts) + 1 /\ Len(s.attempts) \in Nat
      /\ t.outcome = "retryable" /\ t.pc = s.pc
      /\ t.sent = s.sent /\ t.excluded = s.excluded /\ t.waits = s.waits /\ t.ep = s.ep
  BY <1>1, <1>3, <1>4, RecordedState
<1>6. s.sent \in Nat
  BY <1>1 DEF RunState
<1> HIDE DEF s, t
<1>7. Nearer(s, t)
  BY <1>3, <1>5, ConstantsAssumption, SMTT(30) DEF Nearer
<1>8. LoopInv(t)
  BY <1>1, <1>2, <1>3, <1>5, ConstantsAssumption DEF RunInv, LoopInv, Chosen, BeforeCall
<1>9. RowInv(t, rows[r])
  <2>1. RowInv(s, rows[r])
    BY <1>1 DEF RunInv
  <2> QED BY <1>2, <1>5, <1>6, <2>1 DEF RowInv
<1>10. RunInv(t, rows[r])
  BY <1>1, <1>5, <1>8, <1>9 DEF RunInv
<1>11. Holds(r, t)
  BY <1>1, <1>5 DEF Holds
<1> QED BY <1>2, <1>7, <1>10, <1>11, LocalAdvances DEF s

LEMMA SettleAdvances ==
    ASSUME Inv, NEW r \in Request, Settle(r)
    PROVE  Advances(r)
<1> DEFINE s == run[r]
           t == [s EXCEPT !.pc = "finish"]
<1>1. RunInv(s, rows[r]) /\ s \in RunState
  BY DEF Inv, RunInv
<1>2. /\ s.pc = "settle" /\ Become(r, t) /\ reserved' = reserved \ {r}
      /\ UNCHANGED <<limit, rows>>
  BY DEF Settle, Goto
<1>3. s.ep \in Endpoint
  BY <1>1, <1>2 DEF RunInv, LoopInv, Chosen
<1>4. spent' \in Nat
  <2>1. PICK c \in (IF s.outcome = "answered" THEN Cost[s.ep] ELSE {Estimate[s.ep]}) :
            spent' = spent + c
    BY DEF Settle
  <2>2. c \in Nat
    BY <1>3, <2>1, ConstantsAssumption
  <2>3. spent \in Nat
    BY DEF Inv
  <2> QED BY <2>1, <2>2, <2>3
<1>5. t \in RunState
  BY <1>1, Zenon DEF RunState, Pc
<1>6. /\ t.pc = "finish" /\ t.attempts = s.attempts /\ t.waits = s.waits /\ t.sent = s.sent
      /\ t.excluded = s.excluded /\ t.ep = s.ep
  BY <1>1 DEF RunState
<1> HIDE DEF s, t
<1>7. Nearer(s, t)
  BY <1>2, <1>6 DEF Nearer, ExcludedSet, Phase
<1>8. LoopInv(t) /\ RowInv(t, rows[r])
  BY <1>1, <1>2, <1>6 DEF RunInv, LoopInv, RowInv, Chosen, BeforeCall
<1>9. RunInv(t, rows[r])
  BY <1>1, <1>5, <1>8 DEF RunInv
<1>10. Moved(r, t, rows[r])
  BY <1>2, <1>4, <1>6, Zenon DEF Inv, Moved, Become, InFlight
<1> QED BY <1>7, <1>9, <1>10 DEF Advances, s

-----------------------------------------------------------------------------
(* After the attempt                                                       *)

\* Every way on completes the row, keeps the ledger and lifts no exclusion.
LEMMA RowFinishes ==
    ASSUME Inv, NEW r \in Request, run[r].pc = "finish",
           NEW t \in RunState, t.pc \in {"select", "answered", "failed"},
           t.attempts = run[r].attempts, t.waits = run[r].waits, t.sent = run[r].sent,
           ExcludedSet(run[r]) \subseteq ExcludedSet(t),
           Become(r, t), FinishRow(r), UNCHANGED <<limit, reserved, spent>>
    PROVE  Advances(r)
<1> DEFINE s == run[r]
           w == rows[r]
           v == [w EXCEPT ![Len(w)] = "finished"]
<1>1. RunInv(s, w) /\ Holds(r, s) /\ s \in RunState
  BY DEF Inv, RunInv
<1>2. rows' = [rows EXCEPT ![r] = v]
  BY Zenon DEF FinishRow
<1>3. /\ w \in Rows /\ Len(w) > 0 /\ Len(w) = s.sent
      /\ \A i \in 1 .. Len(w) : i < Len(w) => w[i] = "finished"
  BY <1>1, Zenon DEF RunInv, RowInv
<1>4. /\ v \in Rows /\ Len(v) = Len(w)
      /\ \A i \in 1 .. Len(v) : v[i] = "finished"
  BY <1>3, FinishedRow
<1>5. /\ s.pc = "finish" /\ t.attempts = s.attempts /\ t.waits = s.waits /\ t.sent = s.sent
      /\ ExcludedSet(s) \subseteq ExcludedSet(t)
  OBVIOUS
<1> HIDE DEF s, w, v
<1>6. Nearer(s, t)
  <2>1. Phase[s.pc] < Phase[t.pc]
    BY <1>5 DEF Phase
  <2> QED BY <1>5, <2>1 DEF Nearer
<1>7. LoopInv(t)
  BY <1>1, <1>5 DEF RunInv, LoopInv, Chosen, BeforeCall
<1>8. RowInv(t, v)
  <2>1. s.sent \in Nat /\ Len(s.attempts) \in Nat /\ Len(w) \in Nat
    BY <1>1, <1>3 DEF RunState, Rows
  <2> QED BY <1>1, <1>3, <1>4, <1>5, <2>1, ZenonT(30) DEF RunInv, RowInv
<1>9. Moved(r, t, v)
  BY <1>1, <1>2, <1>5 DEF Inv, Moved, Become, InFlight, Holds
<1> QED BY <1>4, <1>6, <1>7, <1>8, <1>9 DEF Advances, RunInv, s

LEMMA FinishAdvances ==
    ASSUME Inv, NEW r \in Request, Finish(r)
    PROVE  Advances(r)
<1> DEFINE s == run[r]
           pc == IF s.outcome = "answered" THEN "answered" ELSE "failed"
           t == [s EXCEPT !.pc = pc]
<1>1. s \in RunState
  BY DEF Inv, RunInv
<1>2. pc \in {"answered", "failed"}
  OBVIOUS
<1>3. /\ s.pc = "finish" /\ Become(r, t) /\ FinishRow(r)
      /\ UNCHANGED <<limit, reserved, spent>>
  BY DEF Finish, Goto
<1> HIDE DEF pc
<1>4. t \in RunState
  BY <1>1, <1>2, Zenon DEF RunState, Pc, Ended
<1>5. /\ t.pc = pc /\ t.attempts = s.attempts /\ t.waits = s.waits /\ t.sent = s.sent
      /\ t.excluded = s.excluded
  BY <1>1 DEF RunState
<1> HIDE DEF t
<1>6. ExcludedSet(s) \subseteq ExcludedSet(t)
  BY <1>5 DEF ExcludedSet
<1> QED BY <1>2, <1>3, <1>4, <1>5, <1>6, RowFinishes

LEMMA AgainAdvances ==
    ASSUME Inv, NEW r \in Request, Rotate(r) \/ Retry(r)
    PROVE  Advances(r)
<1> DEFINE s == run[r]
           t == [s EXCEPT !.pc = "select", !.outcome = NoOutcome]
<1>1. s \in RunState
  BY DEF Inv, RunInv
<1>2. /\ s.pc = "finish" /\ Become(r, t) /\ FinishRow(r)
      /\ UNCHANGED <<limit, reserved, spent>>
  BY DEF Rotate, Retry, Again
<1>3. t \in RunState
  BY <1>1, Zenon DEF RunState, Pc
<1>4. /\ t.pc = "select" /\ t.attempts = s.attempts /\ t.waits = s.waits /\ t.sent = s.sent
      /\ t.excluded = s.excluded
  BY <1>1 DEF RunState
<1> HIDE DEF t
<1>5. ExcludedSet(s) \subseteq ExcludedSet(t)
  BY <1>4 DEF ExcludedSet
<1> QED BY <1>2, <1>3, <1>4, <1>5, RowFinishes

LEMMA AdaptAdvances ==
    ASSUME Inv, NEW r \in Request, Adapt(r)
    PROVE  Advances(r)
<1> DEFINE s == run[r]
           capped == IF Clamps(r) THEN s.capped \cup {s.ep} ELSE s.capped
           shrunk == IF Shrinks(r) THEN s.shrunk \cup {s.ep} ELSE s.shrunk
           t == [s EXCEPT !.pc = "select", !.outcome = NoOutcome,
                          !.capped = capped, !.shrunk = shrunk]
<1>1. s \in RunState /\ LoopInv(s)
  BY DEF Inv, RunInv
<1>2. /\ s.pc = "finish" /\ Become(r, t) /\ FinishRow(r)
      /\ UNCHANGED <<limit, reserved, spent>>
  BY DEF Adapt
<1>3. s.ep \in Endpoint
  BY <1>1, <1>2 DEF LoopInv, Chosen
<1>4. s.capped \subseteq Endpoint /\ s.shrunk \subseteq Endpoint
  BY <1>1 DEF RunState
<1>5. capped \in SUBSET Endpoint /\ shrunk \in SUBSET Endpoint
  BY <1>3, <1>4
<1> HIDE DEF capped, shrunk
<1>6. t \in RunState
  BY <1>1, <1>5, Zenon DEF RunState, Pc
<1>7. /\ t.pc = "select" /\ t.attempts = s.attempts /\ t.waits = s.waits /\ t.sent = s.sent
      /\ t.excluded = s.excluded
  BY <1>1 DEF RunState
<1> HIDE DEF t
<1>8. ExcludedSet(s) \subseteq ExcludedSet(t)
  BY <1>7 DEF ExcludedSet
<1> QED BY <1>2, <1>6, <1>7, <1>8, RowFinishes

LEMMA FallBackAdvances ==
    ASSUME Inv, NEW r \in Request, FallBack(r)
    PROVE  Advances(r)
<1> DEFINE s == run[r]
           byKind == [e \in Endpoint |-> IF e \in ExcludedByKind(r) THEN 1 ELSE s.excluded[e]]
           excluded == Exclude(byKind, s.ep)
           hops == s.hops + 1
           t == [s EXCEPT !.pc = "select", !.outcome = NoOutcome,
                          !.excluded = excluded, !.hops = hops, !.marked = TRUE]
<1>1. s \in RunState /\ LoopInv(s)
  BY DEF Inv, RunInv
<1>2. /\ s.pc = "finish" /\ Become(r, t) /\ FinishRow(r)
      /\ UNCHANGED <<limit, reserved, spent>>
  BY DEF FallBack
<1>3. s.ep \in Endpoint
  BY <1>1, <1>2 DEF LoopInv, Chosen
<1>4. s.excluded \in [Endpoint -> Nat] /\ hops \in Nat
  BY <1>1 DEF RunState
<1>5. /\ byKind \in [Endpoint -> Nat]
      /\ \A e \in Endpoint : s.excluded[e] > 0 => byKind[e] > 0
  BY <1>4
<1> HIDE DEF byKind
<1>6. /\ excluded \in [Endpoint -> Nat]
      /\ \A e \in Endpoint : s.excluded[e] > 0 => excluded[e] > 0
  BY <1>3, <1>5 DEF Exclude
<1> HIDE DEF excluded, hops
<1>7. t \in RunState
  BY <1>1, <1>4, <1>6, Zenon DEF RunState, Pc
<1>8. /\ t.pc = "select" /\ t.attempts = s.attempts /\ t.waits = s.waits /\ t.sent = s.sent
      /\ t.excluded = excluded
  BY <1>1 DEF RunState
<1> HIDE DEF t
<1>9. ExcludedSet(s) \subseteq ExcludedSet(t)
  BY <1>6, <1>8 DEF ExcludedSet
<1> QED BY <1>2, <1>7, <1>8, <1>9, RowFinishes

-----------------------------------------------------------------------------
(* All requests                                                            *)

LEMMA StepAdvances ==
    ASSUME Inv, NEW r \in Request, Step(r)
    PROVE  Advances(r)
BY GiveUpAdvances, RolloverAdvances, RejectAdvances, ChooseAdvances, AdmissionAdvances,
   PrepareAdvances, StoreFailureAdvances, SendAdvances, ReturnAdvances, SettleAdvances,
   AnswerLostAdvances, FinishAdvances, AgainAdvances, AdaptAdvances, FallBackAdvances DEF Step

\* A request that dies keeps what it had sent and written.
LEMMA DeadInv ==
    ASSUME NEW s, NEW w, RunInv(s, w), s.pc \notin Ended
    PROVE  LET t == [s EXCEPT !.pc = "dead"] IN
           RunInv(t, w) /\ Nearer(s, t) /\ t.pc = "dead"
<1> DEFINE t == [s EXCEPT !.pc = "dead"]
<1>1. s \in RunState
  BY DEF RunInv
<1>2. t \in RunState
  BY <1>1, Zenon DEF RunState, Pc, Ended
<1>3. /\ t.pc = "dead" /\ t.attempts = s.attempts /\ t.waits = s.waits
      /\ t.sent = s.sent /\ t.excluded = s.excluded /\ t.ep = s.ep
  BY <1>1 DEF RunState
<1> HIDE DEF t
<1>4. LoopInv(t) /\ RowInv(t, w)
  BY <1>3 DEF RunInv, LoopInv, RowInv, Chosen, BeforeCall
<1>5. s.pc \in {"select", "reserve", "finish"} \cup InFlight
  BY <1>1 DEF RunState, Pc
<1>6. Phase[s.pc] < Phase[t.pc]
  BY <1>3, <1>5 DEF Phase, InFlight
<1>7. Nearer(s, t)
  BY <1>3, <1>6 DEF Nearer, ExcludedSet
<1> QED BY <1>2, <1>3, <1>4, <1>7 DEF RunInv, t

LEMMA CrashAdvances ==
    ASSUME Inv, Crash
    PROVE  Inv' /\ \A r \in Request : run'[r] # run[r] => Nearer(run[r], run'[r])
<1>1. /\ reserved' = {} /\ spent' = 0 /\ UNCHANGED <<limit, rows>>
      /\ run' = [r \in Request |-> IF run[r].pc \in Ended THEN run[r]
                                   ELSE [run[r] EXCEPT !.pc = "dead"]]
  BY DEF Crash
<1>2. ASSUME NEW r \in Request
      PROVE  /\ RunInv(run'[r], rows'[r]) /\ Holds(r, run[r])'
             /\ run'[r] # run[r] => Nearer(run[r], run'[r])
  <2>1. RunInv(run[r], rows[r])
    BY DEF Inv
  <2>2. CASE run[r].pc \in Ended
    BY <1>1, <2>1, <2>2 DEF Holds, Ended, InFlight
  <2>3. CASE run[r].pc \notin Ended
    <3>1. run'[r] = [run[r] EXCEPT !.pc = "dead"]
      BY <1>1, <2>3
    <3>2. RunInv(run'[r], rows[r]) /\ Nearer(run[r], run'[r]) /\ run'[r].pc = "dead"
      BY <2>1, <2>3, <3>1, DeadInv
    <3> QED BY <1>1, <3>2 DEF Holds, InFlight
  <2> QED BY <2>2, <2>3
<1>3. /\ DOMAIN run' = Request /\ run' = [q \in Request |-> run'[q]]
      /\ DOMAIN rows' = Request /\ rows' = [q \in Request |-> rows'[q]]
      /\ limit' = MaxTotal /\ reserved' \in SUBSET Request /\ spent' \in Nat
  BY <1>1 DEF Inv
<1> QED BY <1>2, <1>3 DEF Inv

LEMMA InitInv ==
    ASSUME Init
    PROVE  Inv
<1>1. <<>> \in Rows /\ Len(<<>>) = 0 /\ <<>> \in Seq(Attempt)
  BY DEF Rows
<1>2. [e \in Endpoint |-> 0] \in [Endpoint -> Nat]
  OBVIOUS
<1>3. Fresh \in RunState
  BY <1>1, <1>2 DEF Fresh, RunState, Pc
<1>4. /\ Fresh.pc = "select" /\ Fresh.attempts = <<>> /\ Fresh.waits = 0 /\ Fresh.sent = 0
  BY DEF Fresh
<1>5. RunInv(Fresh, <<>>)
  <2>1. LoopInv(Fresh)
    BY <1>1, <1>4, ConstantsAssumption DEF LoopInv, Chosen, BeforeCall
  <2>2. RowInv(Fresh, <<>>)
    BY <1>1, <1>4, ConstantsAssumption DEF RowInv
  <2> QED BY <1>1, <1>3, <2>1, <2>2 DEF RunInv
<1>6. ASSUME NEW r \in Request
      PROVE  RunInv(run[r], rows[r]) /\ Holds(r, run[r])
  <2>1. run[r] = Fresh /\ rows[r] = <<>> /\ reserved = {}
    BY DEF Init
  <2> QED BY <1>4, <1>5, <2>1 DEF Holds, InFlight
<1> QED BY <1>6, ConstantsAssumption DEF Inv, Init

LEMMA NextInv ==
    ASSUME Inv, [Next]_vars
    PROVE  Inv' /\ \A r \in Request : run'[r] # run[r] => Nearer(run[r], run'[r])
<1>1. CASE Crash
  BY <1>1, CrashAdvances
<1>2. ASSUME NEW r \in Request, Step(r)
      PROVE  Inv' /\ \A q \in Request : run'[q] # run[q] => Nearer(run[q], run'[q])
  BY <1>2, StepAdvances, AdvancesInv
<1>3. CASE UNCHANGED vars
  BY <1>3 DEF vars, Inv, Holds
<1> QED BY <1>1, <1>2, <1>3 DEF Next

LEMMA Invariance == Spec => []Inv
<1>1. Init => Inv
  BY InitInv
<1>2. Inv /\ [Next]_vars => Inv'
  BY NextInv
<1> QED BY <1>1, <1>2, PTL DEF Spec

-----------------------------------------------------------------------------
(* The trail of attempts.  The ledger's entries of the era under way are   *)
(* all kept, so the cycle check sees them; the entries of an endpoint do   *)
(* not go past its count, and an endpoint that may still be chosen has a   *)
(* call left.                                                              *)

Trail(a, kept, n) ==
    /\ kept \subseteq 1 .. Len(a)
    /\ \A i \in 1 .. Len(a) : a[i].era <= n /\ (a[i].era = n => i \in kept)
    /\ \A i, j \in 1 .. Len(a) : i < j => a[i].era <= a[j].era
    /\ \A i, j, k \in 1 .. Len(a) :
            i < j /\ j < k /\ a[i].era = a[k].era /\ a[i].ep = a[k].ep => a[j].ep = a[i].ep

\* The endpoint is new in era n, or it is the one of the last entry.
Joins(a, n, e) ==
    \/ \A i \in 1 .. Len(a) : a[i].era = n => a[i].ep # e
    \/ Len(a) > 0 /\ a[Len(a)].ep = e

PathInv(s) ==
    /\ Trail(s.attempts, s.kept, s.waits)
    /\ s.pc \in BeforeCall => Joins(s.attempts, s.waits, s.ep)
    /\ s.pc \in {"settle", "finish"} => Len(s.attempts) > 0 /\ s.attempts[Len(s.attempts)].ep = s.ep

CallsOf(a, e, n) == {i \in 1 .. Len(a) : a[i].ep = e /\ a[i].era = n /\ a[i].how = "call"}

\* The endpoint may be called again without being let off its count.
Open(s, e) ==
    \/ s.pc = "select" \/ s.pc \in BeforeCall
    \/ s.pc \in {"settle", "finish"} /\ (e # s.ep \/ s.outcome \in Rotates)

CallInv(s) ==
    /\ \A e \in Endpoint, n \in Nat : Cardinality(CallsOf(s.attempts, e, n)) <= MaxSame
    /\ \A e \in Endpoint : Cardinality(CallsOf(s.attempts, e, s.waits)) <= s.counts[e]
    /\ \A e \in Endpoint : s.excluded[e] = 0 /\ Open(s, e) =>
            Cardinality(CallsOf(s.attempts, e, s.waits)) < MaxSame

\* The steps that enter no attempt and choose no endpoint.
Quiet(s, t) ==
    /\ t.attempts = s.attempts /\ t.kept = s.kept /\ t.waits = s.waits /\ t.counts = s.counts
    /\ \/ t.pc \in Ended
       \/ /\ t.pc = "select"
          /\ \A e \in Endpoint : t.excluded[e] = 0 =>
                 (s.excluded[e] = 0 /\ Open(s, e)) \/ s.counts[e] < MaxSame
       \/ /\ \/ s.pc \in BeforeCall /\ t.pc \in BeforeCall
             \/ s.pc = "settle" /\ t.pc = "finish"
          /\ t.ep = s.ep /\ t.excluded = s.excluded /\ t.outcome = s.outcome

\* Calls of an endpoint are counted one entry at a time.
LEMMA CallsFinite ==
    ASSUME NEW a \in Seq(Attempt), NEW e, NEW n
    PROVE  IsFiniteSet(CallsOf(a, e, n)) /\ Cardinality(CallsOf(a, e, n)) \in Nat
<1>1. IsFiniteSet(1 .. Len(a))
  BY FS_Interval
<1>2. CallsOf(a, e, n) \subseteq 1 .. Len(a)
  BY DEF CallsOf
<1> QED BY <1>1, <1>2, FS_Subset, FS_CardinalityType

LEMMA CallsAppend ==
    ASSUME NEW a \in Seq(Attempt), NEW x \in Attempt, NEW e, NEW n
    PROVE  Cardinality(CallsOf(Append(a, x), e, n)) =
             IF x.ep = e /\ x.era = n /\ x.how = "call" THEN Cardinality(CallsOf(a, e, n)) + 1
             ELSE Cardinality(CallsOf(a, e, n))
<1> DEFINE b == Append(a, x)
<1>1. /\ Len(b) = Len(a) + 1 /\ Len(a) \in Nat /\ b[Len(a) + 1] = x
      /\ \A i \in 1 .. Len(a) : b[i] = a[i]
  OBVIOUS
<1>2. Len(a) + 1 \notin CallsOf(a, e, n)
  BY <1>1 DEF CallsOf
<1> HIDE DEF b
<1>3. CASE x.ep = e /\ x.era = n /\ x.how = "call"
  <2>1. CallsOf(b, e, n) = CallsOf(a, e, n) \cup {Len(a) + 1}
    BY <1>1, <1>3 DEF CallsOf
  <2>2. IsFiniteSet(CallsOf(a, e, n))
    BY CallsFinite
  <2>3. Cardinality(CallsOf(a, e, n) \cup {Len(a) + 1}) = Cardinality(CallsOf(a, e, n)) + 1
    BY <1>2, <2>2, FS_AddElement, Zenon
  <2> QED BY <1>3, <2>1, <2>3 DEF b
<1>4. CASE ~(x.ep = e /\ x.era = n /\ x.how = "call")
  <2>1. CallsOf(b, e, n) = CallsOf(a, e, n)
    BY <1>1, <1>4 DEF CallsOf
  <2> QED BY <1>4, <2>1 DEF b
<1> QED BY <1>3, <1>4

LEMMA QuietPath ==
    ASSUME NEW s, NEW t, Quiet(s, t), PathInv(s)
    PROVE  PathInv(t)
BY DEF Quiet, PathInv, Ended, BeforeCall

LEMMA QuietCalls ==
    ASSUME NEW s \in RunState, NEW t \in RunState, Quiet(s, t), CallInv(s)
    PROVE  CallInv(t)
<1>1. \A e \in Endpoint : Cardinality(CallsOf(s.attempts, e, s.waits)) \in Nat /\ s.counts[e] \in Nat
  BY CallsFinite, Zenon DEF RunState
<1>2. ASSUME NEW e \in Endpoint, t.excluded[e] = 0, Open(t, e)
      PROVE  Cardinality(CallsOf(s.attempts, e, s.waits)) < MaxSame
  <2>1. (s.excluded[e] = 0 /\ Open(s, e)) \/ s.counts[e] < MaxSame
    BY <1>2 DEF Quiet, Open, Ended, BeforeCall
  <2> QED BY <1>1, <2>1, ConstantsAssumption DEF CallInv
<1> QED BY <1>2 DEF Quiet, CallInv

LEMMA EraType ==
    ASSUME NEW a \in Seq(Attempt), NEW i \in 1 .. Len(a)
    PROVE  a[i].era \in Nat
<1>1. a[i] \in Attempt
  OBVIOUS
<1> QED BY <1>1 DEF Attempt

\* Entering an attempt extends the trail by the endpoint that joined it.
LEMMA TrailAppend ==
    ASSUME NEW a \in Seq(Attempt), NEW kept, NEW n \in Nat, Trail(a, kept, n),
           NEW x \in Attempt, x.era = n, Joins(a, n, x.ep)
    PROVE  LET b == Append(a, x) IN
           /\ Trail(b, kept \cup {Len(a) + 1}, n)
           /\ Len(b) > 0 /\ b[Len(b)] = x
<1> DEFINE b == Append(a, x)
           L == Len(a)
<1>1. /\ Len(b) = L + 1 /\ L \in Nat /\ b[L + 1] = x
      /\ \A i \in 1 .. L : b[i] = a[i]
  OBVIOUS
<1>2. \A i \in 1 .. L : a[i].era \in Nat
  BY EraType
<1>3. \A i \in 1 .. L + 1 : i \in 1 .. L \/ i = L + 1
  BY <1>1
<1>4. /\ kept \subseteq 1 .. L
      /\ \A i \in 1 .. L : a[i].era <= n /\ (a[i].era = n => i \in kept)
      /\ \A i, j \in 1 .. L : i < j => a[i].era <= a[j].era
      /\ \A i, j, k \in 1 .. L :
            i < j /\ j < k /\ a[i].era = a[k].era /\ a[i].ep = a[k].ep => a[j].ep = a[i].ep
  BY DEF Trail
<1>5. Joins(a, n, x.ep)
  OBVIOUS
<1> HIDE DEF b, L
<1>6. kept \cup {L + 1} \subseteq 1 .. Len(b)
  BY <1>1, <1>4
<1>7. \A i \in 1 .. Len(b) : b[i].era <= n /\ (b[i].era = n => i \in kept \cup {L + 1})
  BY <1>1, <1>3, <1>4
<1>8. ASSUME NEW i \in 1 .. Len(b), NEW j \in 1 .. Len(b), i < j
      PROVE  b[i].era <= b[j].era
  <2>1. i \in 1 .. L
    BY <1>1, <1>8
  <2> QED BY <1>1, <1>3, <1>4, <1>8, <2>1
<1>9. ASSUME NEW i \in 1 .. Len(b), NEW j \in 1 .. Len(b), NEW k \in 1 .. Len(b),
             i < j, j < k, b[i].era = b[k].era, b[i].ep = b[k].ep
      PROVE  b[j].ep = b[i].ep
  <2>1. i \in 1 .. L /\ j \in 1 .. L
    BY <1>1, <1>9
  <2>2. CASE k \in 1 .. L
    BY <1>1, <1>4, <1>9, <2>1, <2>2, ZenonT(30)
  <2>3. CASE k = L + 1
    <3>1. a[i].era = n /\ a[i].ep = x.ep
      BY <1>1, <1>9, <2>1, <2>3, Zenon
    <3>2. L \in 1 .. L /\ a[L].ep = x.ep
      BY <1>1, <1>5, <2>1, <3>1, SMTT(30) DEF Joins, L
    <3>3. a[L].era = n
      <4>1. i = L \/ i < L
        BY <1>1, <2>1
      <4>2. CASE i = L
        BY <3>1, <4>2, Zenon
      <4>3. CASE i < L
        <5>1. a[i].era <= a[L].era /\ a[L].era <= n /\ a[L].era \in Nat
          BY <1>2, <1>4, <2>1, <3>2, <4>3, Zenon
        <5> QED BY ONLY <3>1, <5>1, n \in Nat
      <4> QED BY <4>1, <4>2, <4>3, Zenon
    <3>4. CASE j = L
      BY <1>1, <2>1, <3>1, <3>2, <3>4, Zenon
    <3>5. CASE j < L
      BY <1>1, <1>4, <1>9, <2>1, <3>1, <3>2, <3>3, <3>5, ZenonT(30)
    <3> QED BY <1>1, <2>1, <3>4, <3>5
  <2> QED BY <1>1, <1>3, <2>2, <2>3
<1> QED BY <1>1, <1>6, <1>7, <1>8, <1>9 DEF Trail, b, L

\* ... and uses up a call of it, unless its key was rotated or the call was
\* entered before.
LEMMA CallsRecorded ==
    ASSUME NEW s \in RunState, CallInv(s), s.pc = "call" \/ s.pc = "finish",
           s.ep \in Endpoint, s.excluded[s.ep] = 0,
           NEW x \in Attempt, x.ep = s.ep, x.era = s.waits, x.how = "call" => s.pc = "call",
           NEW t, t.attempts = Append(s.attempts, x), t.waits = s.waits, t.ep = s.ep,
           t.counts = Counted(s.counts, s.ep), t.excluded = s.excluded,
           t.pc = "settle" \/ t.pc = "finish",
           t.outcome \in Rotates => x.how # "call" /\ s.pc = "call"
    PROVE  CallInv(t)
<1> DEFINE old(e, n) == Cardinality(CallsOf(s.attempts, e, n))
           now(e, n) == Cardinality(CallsOf(t.attempts, e, n))
<1>1. s.attempts \in Seq(Attempt) /\ s.counts \in [Endpoint -> Nat] /\ s.waits \in Nat
  BY DEF RunState
<1>2. \A e \in Endpoint, n \in Nat : old(e, n) \in Nat
  BY <1>1, CallsFinite, Zenon
<1>3. ASSUME NEW e \in Endpoint, NEW n \in Nat
      PROVE  now(e, n) = IF x.ep = e /\ x.era = n /\ x.how = "call" THEN old(e, n) + 1
                         ELSE old(e, n)
  BY <1>1, CallsAppend, SMTT(30)
<1>4. /\ \A e \in Endpoint, n \in Nat : old(e, n) <= MaxSame
      /\ \A e \in Endpoint : old(e, s.waits) <= s.counts[e]
      /\ \A e \in Endpoint : s.excluded[e] = 0 /\ Open(s, e) => old(e, s.waits) < MaxSame
  BY DEF CallInv
<1> HIDE DEF old, now
<1>5. s.pc = "call" => old(s.ep, s.waits) < MaxSame
  BY <1>4, Zenon DEF Open, BeforeCall
<1>6. ASSUME NEW e \in Endpoint, NEW n \in Nat
      PROVE  now(e, n) <= MaxSame
  <2>1. CASE s.ep = e /\ s.waits = n /\ x.how = "call"
    <3>1. old(e, n) < MaxSame /\ now(e, n) = old(e, n) + 1 /\ old(e, n) \in Nat
      BY <1>2, <1>3, <1>5, <2>1, ZenonT(30)
    <3> QED BY <3>1, ConstantsAssumption, SMTT(30)
  <2>2. CASE ~(s.ep = e /\ s.waits = n /\ x.how = "call")
    <3>1. now(e, n) = old(e, n)
      BY <1>3, <2>2, SMTT(30)
    <3> QED BY <1>4, <3>1
  <2> QED BY <2>1, <2>2, Zenon
<1>7. ASSUME NEW e \in Endpoint
      PROVE  now(e, t.waits) <= t.counts[e]
  <2>1. /\ s.counts[e] \in Nat
        /\ t.counts[e] = IF e = s.ep THEN s.counts[e] + 1 ELSE s.counts[e]
    BY <1>1, ZenonT(30) DEF Counted
  <2>2. old(e, s.waits) \in Nat /\ old(e, s.waits) <= s.counts[e]
    BY <1>1, <1>2, <1>4, Zenon
  <2>3. CASE e = s.ep
    <3>1. now(e, s.waits) <= old(e, s.waits) + 1 /\ now(e, s.waits) \in Nat
      BY <1>1, <1>3, <2>2
    <3> QED BY <2>1, <2>2, <2>3, <3>1
  <2>4. CASE e # s.ep
    <3>1. now(e, s.waits) = old(e, s.waits)
      BY <1>1, <1>3, <2>4, Zenon
    <3> QED BY <2>1, <2>2, <2>4, <3>1, Zenon
  <2> QED BY <2>3, <2>4
<1>8. ASSUME NEW e \in Endpoint, t.excluded[e] = 0, Open(t, e)
      PROVE  now(e, t.waits) < MaxSame
  <2>1. s.excluded[e] = 0 /\ (e # s.ep \/ (x.how # "call" /\ s.pc = "call"))
    BY <1>8 DEF Open, BeforeCall
  <2>2. Open(s, e)
    BY <2>1 DEF Open, BeforeCall
  <2>3. now(e, s.waits) = old(e, s.waits)
    BY <1>1, <1>3, <2>1, ZenonT(30)
  <2> QED BY <1>4, <2>1, <2>2, <2>3, Zenon
<1> QED BY <1>6, <1>7, <1>8, Zenon DEF CallInv, now

\* A candidate that passes the cycle check joins the trail.
LEMMA ChoiceJoins ==
    ASSUME NEW r, NEW e, ~Revisits(r, e), run[r] \in RunState,
           Trail(run[r].attempts, run[r].kept, run[r].waits)
    PROVE  Joins(run[r].attempts, run[r].waits, e)
<1> DEFINE a == run[r].attempts
           kept == run[r].kept
           n == run[r].waits
<1>1. a \in Seq(Attempt) /\ Len(a) \in Nat /\ n \in Nat
  BY SMTT(30) DEF RunState
<1>2. /\ kept \subseteq 1 .. Len(a)
      /\ \A i \in 1 .. Len(a) : a[i].era <= n /\ (a[i].era = n => i \in kept)
      /\ \A i, j \in 1 .. Len(a) : i < j => a[i].era <= a[j].era
  BY DEF Trail
<1>3. \A last \in kept : (\A i \in kept : i <= last) /\ a[last].ep # e =>
            \A i \in kept : a[i].ep # e
  BY DEF Revisits
<1> HIDE DEF a, kept, n
<1>4. ASSUME NEW i \in 1 .. Len(a), a[i].era = n, a[i].ep = e
      PROVE  Len(a) > 0 /\ a[Len(a)].ep = e
  <2>1. Len(a) \in 1 .. Len(a)
    BY <1>1
  <2>2. a[Len(a)].era = n
    <3>1. a[Len(a)].era \in Nat
      BY <1>1, <2>1, EraType
    <3>2. i = Len(a) \/ a[i].era <= a[Len(a)].era
      BY <1>1, <1>2, <2>1
    <3> QED BY <1>1, <1>2, <1>4, <2>1, <3>1, <3>2
  <2>3. Len(a) \in kept /\ \A j \in kept : j <= Len(a)
    BY <1>1, <1>2, <2>1, <2>2, SMTT(30)
  <2>4. i \in kept
    BY <1>2, <1>4
  <2> QED BY <1>1, <1>3, <1>4, <2>1, <2>3, <2>4
<1> QED BY <1>4 DEF Joins, a, n

\* A rollover opens an era that has no entry yet.
LEMMA NewEra ==
    ASSUME NEW s \in RunState, PathInv(s),
           NEW t \in RunState, t.pc = "select", t.attempts = s.attempts,
           t.kept \subseteq s.kept, t.waits = s.waits + 1
    PROVE  PathInv(t) /\ (MaxSame >= 1 /\ CallInv(s) => CallInv(t))
<1> DEFINE a == s.attempts
<1>1. /\ a \in Seq(Attempt) /\ s.waits \in Nat /\ t.waits \in Nat
      /\ t.counts \in [Endpoint -> Nat]
  BY DEF RunState
<1>2. \A i \in 1 .. Len(a) : a[i].era \in Nat /\ a[i].era <= s.waits
  BY <1>1, EraType DEF PathInv, Trail
<1>3. \A i \in 1 .. Len(a) : a[i].era <= t.waits /\ a[i].era # t.waits
  BY <1>1, <1>2, SMTT(30)
<1>4. PathInv(t)
  BY <1>3 DEF PathInv, Trail, BeforeCall
<1>5. \A e \in Endpoint : Cardinality(CallsOf(a, e, t.waits)) = 0
  <2>1. \A e \in Endpoint : CallsOf(a, e, t.waits) = {}
    BY <1>3, Zenon DEF CallsOf
  <2> QED BY <2>1, FS_EmptySet
<1>6. ASSUME MaxSame >= 1, CallInv(s) PROVE CallInv(t)
  BY <1>1, <1>5, <1>6, ConstantsAssumption DEF CallInv
<1> QED BY <1>4, <1>6

TrailInv(s) == PathInv(s) /\ (MaxSame >= 1 => CallInv(s))

LEMMA QuietTrail ==
    ASSUME NEW s \in RunState, NEW t \in RunState, Quiet(s, t), TrailInv(s)
    PROVE  TrailInv(t)
BY QuietPath, QuietCalls DEF TrailInv

LEMMA EndQuiet ==
    ASSUME Inv, NEW r \in Request,
           GiveUp(r) \/ PrepareFails(r) \/ LockoutFails(r) \/ FinishFails(r) \/ Finish(r)
    PROVE  Quiet(run[r], run'[r])
<1> DEFINE s == run[r]
<1>1. s \in RunState /\ DOMAIN run = Request
  BY DEF Inv, RunInv
<1>2. PICK pc \in Ended : Become(r, [s EXCEPT !.pc = pc])
  BY DEF GiveUp, PrepareFails, LockoutFails, FinishFails, Finish, Goto, Ended
<1>3. run'[r] = [s EXCEPT !.pc = pc]
  BY <1>1, <1>2 DEF Become
<1>4. LET t == run'[r] IN /\ t.pc = pc /\ t.attempts = s.attempts /\ t.kept = s.kept
                          /\ t.waits = s.waits /\ t.counts = s.counts
  BY <1>1, <1>3 DEF RunState
<1> QED BY <1>2, <1>4 DEF Quiet

LEMMA PhaseQuiet ==
    ASSUME Inv, NEW r \in Request,
           \/ Reserve(r) /\ Affordable(r)
           \/ Admit(r) \/ Prepare(r) \/ Send(r) \/ Settle(r)
    PROVE  Quiet(run[r], run'[r])
<1> DEFINE s == run[r]
<1>1. s \in RunState /\ DOMAIN run = Request
  BY SMTT(30) DEF Inv, RunInv
<1>2. PICK pc, sent : /\ \/ s.pc \in BeforeCall /\ pc \in BeforeCall
                         \/ s.pc = "settle" /\ pc = "finish"
                      /\ \/ run' = [run EXCEPT ![r] = [s EXCEPT !.pc = pc]]
                         \/ run' = [run EXCEPT ![r] = [s EXCEPT !.pc = pc, !.sent = sent]]
  <2>1. CASE Reserve(r) /\ Affordable(r)
    BY <2>1, ZenonT(30) DEF Reserve, Goto, Become, BeforeCall
  <2>2. CASE Admit(r) \/ Prepare(r)
    BY <2>2, ZenonT(30) DEF Admit, Prepare, Goto, Become, BeforeCall
  <2>3. CASE Send(r)
    BY <2>3, ZenonT(30) DEF Send, Become, BeforeCall
  <2>4. CASE Settle(r)
    BY <2>4, Zenon DEF Settle, Goto, Become
  <2> QED BY <2>1, <2>2, <2>3, <2>4, ZenonT(30)
<1>3. \/ run'[r] = [s EXCEPT !.pc = pc]
      \/ run'[r] = [s EXCEPT !.pc = pc, !.sent = sent]
  BY <1>1, <1>2
<1>4. LET t == run'[r] IN /\ t.pc = pc /\ t.attempts = s.attempts /\ t.kept = s.kept
                          /\ t.waits = s.waits /\ t.counts = s.counts
                          /\ t.ep = s.ep /\ t.excluded = s.excluded /\ t.outcome = s.outcome
  BY <1>1, <1>3, Zenon DEF RunState
<1> QED BY <1>2, <1>4 DEF Quiet

\* An endpoint is excluded before its call, or not offered at all.
LEMMA PassedOverQuiet ==
    ASSUME Inv, NEW r \in Request,
           \/ \E e \in Endpoint : Reject(r, e)
           \/ Reserve(r) /\ ~Affordable(r)
           \/ Refuse(r)
    PROVE  Quiet(run[r], run'[r])
<1> DEFINE s == run[r]
<1>1. s \in RunState /\ DOMAIN run = Request /\ LoopInv(s)
  BY DEF Inv, RunInv
<1>2. PICK e \in Endpoint : /\ \A f \in Endpoint : Open(s, f)
                            /\ run' = [run EXCEPT ![r] = [s EXCEPT !.pc = "select",
                                                             !.excluded = Exclude(@, e)]]
  <2>1. ASSUME NEW e \in Endpoint, Reject(r, e)
        PROVE  /\ \A f \in Endpoint : Open(s, f)
               /\ run' = [run EXCEPT ![r] = [s EXCEPT !.pc = "select",
                                                      !.excluded = Exclude(@, e)]]
    <3>1. s.pc = "select" /\ run' = [run EXCEPT ![r] = [s EXCEPT !.excluded = Exclude(@, e)]]
      BY <2>1 DEF Reject, Become
    <3>2. [s EXCEPT !.excluded = Exclude(@, e)] =
          [s EXCEPT !.pc = "select", !.excluded = Exclude(@, e)]
      BY <1>1, <3>1, Zenon DEF RunState
    <3> QED BY <3>1, <3>2, Zenon DEF Open
  <2>2. CASE Reserve(r) /\ ~Affordable(r)
    <3>1. s.pc = "reserve"
      BY <2>2 DEF Reserve
    <3>2. s.ep \in Endpoint
      BY <1>1, <3>1 DEF LoopInv, Chosen, BeforeCall
    <3>3. run' = [run EXCEPT ![r] = [s EXCEPT !.pc = "select", !.excluded = Exclude(@, s.ep)]]
      BY <2>2, SMTT(30) DEF Reserve, Become
    <3> QED BY <3>1, <3>2, <3>3, Zenon DEF Open, BeforeCall
  <2>3. CASE Refuse(r)
    <3>1. s.pc = "admit"
      BY <2>3 DEF Refuse
    <3>2. s.ep \in Endpoint
      BY <1>1, <3>1 DEF LoopInv, Chosen, BeforeCall
    <3>3. run' = [run EXCEPT ![r] = [s EXCEPT !.pc = "select", !.excluded = Exclude(@, s.ep)]]
      BY <2>3 DEF Refuse, Become
    <3> QED BY <3>1, <3>2, <3>3, Zenon DEF Open, BeforeCall
  <2> QED BY <2>1, <2>2, <2>3, Zenon
<1>3. run'[r] = [s EXCEPT !.pc = "select", !.excluded = Exclude(@, e)]
  BY <1>1, <1>2
<1>4. LET t == run'[r] IN /\ t.pc = "select" /\ t.attempts = s.attempts /\ t.kept = s.kept
                          /\ t.waits = s.waits /\ t.counts = s.counts
                          /\ t.excluded = Exclude(s.excluded, e)
  BY <1>1, <1>3, Zenon DEF RunState
<1>5. s.excluded \in [Endpoint -> Nat]
  BY <1>1 DEF RunState
<1>6. \A f \in Endpoint : Exclude(s.excluded, e)[f] = 0 => s.excluded[f] = 0
  BY <1>5, SMTT(30) DEF Exclude
<1> QED BY <1>2, <1>4, <1>6 DEF Quiet

\* The loop goes on with the same endpoint only if a call of it is left.
LEMMA GoOnQuiet ==
    ASSUME Inv, NEW r \in Request, Rotate(r) \/ Retry(r) \/ Adapt(r)
    PROVE  Quiet(run[r], run'[r])
<1> DEFINE s == run[r]
<1>1. s \in RunState /\ DOMAIN run = Request
  BY Zenon DEF Inv, RunInv
<1>2. /\ s.pc = "finish"
      /\ s.outcome \in Rotates \/ s.counts[s.ep] < MaxSame
  BY SMTT(30) DEF Rotate, Retry, Adapt, MayRetry, Clamps, Shrinks, CanAttempt
<1>3. PICK capped, shrunk :
          \/ run' = [run EXCEPT ![r] = [s EXCEPT !.pc = "select", !.outcome = NoOutcome]]
          \/ run' = [run EXCEPT ![r] = [s EXCEPT !.pc = "select", !.outcome = NoOutcome,
                                                 !.capped = capped, !.shrunk = shrunk]]
  BY Zenon DEF Rotate, Retry, Adapt, Again, Become
<1>4. \/ run'[r] = [s EXCEPT !.pc = "select", !.outcome = NoOutcome]
      \/ run'[r] = [s EXCEPT !.pc = "select", !.outcome = NoOutcome,
                             !.capped = capped, !.shrunk = shrunk]
  BY <1>1, <1>3
<1>5. LET t == run'[r] IN /\ t.pc = "select" /\ t.attempts = s.attempts /\ t.kept = s.kept
                          /\ t.waits = s.waits /\ t.counts = s.counts
                          /\ t.excluded = s.excluded
  BY <1>1, <1>4, ZenonT(30) DEF RunState
<1> QED BY <1>2, <1>5 DEF Quiet, Open

LEMMA FallBackQuiet ==
    ASSUME Inv, NEW r \in Request, FallBack(r)
    PROVE  Quiet(run[r], run'[r])
<1> DEFINE s == run[r]
           byKind == [e \in Endpoint |-> IF e \in ExcludedByKind(r) THEN 1 ELSE s.excluded[e]]
           excluded == Exclude(byKind, s.ep)
           hops == s.hops + 1
           t == [s EXCEPT !.pc = "select", !.outcome = NoOutcome,
                          !.excluded = excluded, !.hops = hops, !.marked = TRUE]
<1>1. s \in RunState /\ DOMAIN run = Request /\ LoopInv(s)
  BY DEF Inv, RunInv
<1>2. s.pc = "finish" /\ run' = [run EXCEPT ![r] = t]
  BY DEF FallBack, Become
<1>3. s.ep \in Endpoint /\ s.excluded \in [Endpoint -> Nat]
  BY <1>1, <1>2 DEF LoopInv, Chosen, RunState
<1>4. /\ byKind \in [Endpoint -> Nat]
      /\ \A e \in Endpoint : byKind[e] = 0 => s.excluded[e] = 0
  BY <1>3
<1> HIDE DEF byKind
<1>5. \A e \in Endpoint : excluded[e] = 0 => e # s.ep /\ s.excluded[e] = 0
  BY <1>3, <1>4 DEF Exclude
<1> HIDE DEF excluded, hops
<1>6. /\ t.pc = "select" /\ t.attempts = s.attempts /\ t.kept = s.kept
      /\ t.waits = s.waits /\ t.counts = s.counts /\ t.excluded = excluded
  BY <1>1 DEF RunState
<1>7. run'[r] = t
  BY <1>1, <1>2
<1> HIDE DEF t
<1> QED BY <1>2, <1>5, <1>6, <1>7, ZenonT(30) DEF Quiet, Open

LEMMA ChooseTrail ==
    ASSUME Inv, NEW r \in Request, NEW e \in Endpoint, Choose(r, e), TrailInv(run[r])
    PROVE  TrailInv(run'[r])
<1> DEFINE s == run[r]
<1>1. s \in RunState /\ DOMAIN run = Request
  BY DEF Inv, RunInv
<1>2. s.pc = "select" /\ ~Revisits(r, e)
  BY SMTT(30) DEF Choose, Valid
<1>3. PICK hops, marked :
        run' = [run EXCEPT ![r] = [s EXCEPT !.pc = "reserve", !.ep = e, !.hops = hops,
                                            !.marked = marked]]
  BY Zenon DEF Choose, Become
<1> DEFINE t == [s EXCEPT !.pc = "reserve", !.ep = e, !.hops = hops, !.marked = marked]
<1>4. run'[r] = t
  BY <1>1, <1>3
<1>5. /\ t.pc = "reserve" /\ t.ep = e /\ t.attempts = s.attempts /\ t.kept = s.kept
      /\ t.waits = s.waits /\ t.counts = s.counts /\ t.excluded = s.excluded
  BY <1>1, Zenon DEF RunState
<1>6. Joins(s.attempts, s.waits, e)
  BY <1>1, <1>2, ChoiceJoins DEF TrailInv, PathInv
<1>7. TrailInv(s)
  BY Zenon
<1> HIDE DEF s, t
<1>8. PathInv(t)
  BY <1>2, <1>5, <1>6, <1>7, Zenon DEF TrailInv, PathInv, BeforeCall
<1>9. CallInv(s) => CallInv(t)
  BY <1>2, <1>5, Zenon DEF CallInv, Open
<1> QED BY <1>4, <1>7, <1>8, <1>9, ZenonT(30) DEF TrailInv

LEMMA RolloverTrail ==
    ASSUME Inv, Inv', NEW r \in Request, Rollover(r), TrailInv(run[r])
    PROVE  TrailInv(run'[r])
<1> DEFINE s == run[r]
           t == run'[r]
<1>1. s \in RunState /\ t \in RunState /\ DOMAIN run = Request
  BY DEF Inv, RunInv
<1>2. s.pc = "select"
  BY SMTT(30) DEF Rollover
<1>3. PICK excluded, counts :
        run' = [run EXCEPT ![r] = [s EXCEPT
                    !.waits = @ + 1, !.excluded = excluded, !.counts = counts,
                    !.kept = {i \in @ : s.attempts[i].ep \notin RateLimited(r)}, !.hops = 0]]
  BY Zenon DEF Rollover, Become
<1>4. t = [s EXCEPT !.waits = @ + 1, !.excluded = excluded, !.counts = counts,
                    !.kept = {i \in @ : s.attempts[i].ep \notin RateLimited(r)}, !.hops = 0]
  BY <1>1, <1>3
<1> DEFINE kept == {i \in s.kept : s.attempts[i].ep \notin RateLimited(r)}
           waits == s.waits + 1
<1>5. t = [s EXCEPT !.waits = waits, !.excluded = excluded, !.counts = counts, !.kept = kept,
                    !.hops = 0]
  BY <1>4
<1>6. kept \subseteq s.kept
  OBVIOUS
<1> HIDE DEF t, kept, waits
<1>7. t.pc = s.pc /\ t.attempts = s.attempts /\ t.kept = kept /\ t.waits = waits
  BY <1>1, <1>5, Zenon DEF RunState
<1> QED BY <1>1, <1>2, <1>6, <1>7, NewEra, ZenonT(30) DEF TrailInv, t, waits

\* What record_attempt enters.
LEMMA RecordedTrail ==
    ASSUME NEW r \in Request, run[r] \in RunState, run[r].ep \in Endpoint,
           NEW outcome \in Outcome, NEW how \in How
    PROVE  LET s == run[r]
               t == Recorded(r, outcome, how)
               x == Entry(r, outcome, how)
           IN  /\ x \in Attempt /\ x.ep = s.ep /\ x.era = s.waits /\ x.how = how
               /\ t.attempts = Append(s.attempts, x) /\ t.kept = s.kept \cup {Len(s.attempts) + 1}
               /\ t.counts = Counted(s.counts, s.ep)
<1> DEFINE s == run[r]
           x == Entry(r, outcome, how)
           attempts == Append(s.attempts, x)
           kept == s.kept \cup {Len(s.attempts) + 1}
           counts == Counted(s.counts, s.ep)
           t == [s EXCEPT !.outcome = outcome, !.attempts = attempts,
                          !.kept = kept, !.counts = counts]
<1>1. s.waits \in Nat
  BY DEF RunState
<1>2. x \in Attempt
  <2>1. \A y \in Endpoint, n \in Nat, b \in BOOLEAN :
            [ep |-> y, short |-> b, how |-> how, era |-> n] \in Attempt
    BY DEF Attempt
  <2>2. (outcome \in ShortRateLimit) \in BOOLEAN
    OBVIOUS
  <2> QED BY <1>1, <2>1, <2>2, ZenonT(30) DEF Entry
<1>3. x.ep = s.ep /\ x.era = s.waits /\ x.how = how
  BY DEF Entry
<1>4. t = Recorded(r, outcome, how)
  BY DEF Recorded
<1> HIDE DEF x, attempts, kept, counts
<1>5. t.attempts = attempts /\ t.kept = kept /\ t.counts = counts
  BY Zenon DEF RunState
<1> HIDE DEF t
<1> QED BY <1>2, <1>3, <1>4, <1>5, Zenon DEF attempts, kept, counts, x

LEMMA RecordTrail ==
    ASSUME Inv, NEW r \in Request, TrailInv(run[r]), NEW t,
           NEW outcome \in Outcome, NEW how \in How,
           run[r].pc = "call" \/ (run[r].pc = "finish" /\ how # "call" /\ outcome \notin Rotates),
           outcome \in Rotates => how # "call",
           LET u == Recorded(r, outcome, how) IN
               /\ t.attempts = u.attempts /\ t.kept = u.kept /\ t.counts = u.counts
               /\ t.waits = u.waits /\ t.ep = u.ep /\ t.excluded = u.excluded
               /\ t.outcome = outcome /\ (t.pc = "settle" \/ t.pc = "finish")
    PROVE  TrailInv(t)
<1> DEFINE s == run[r]
           u == Recorded(r, outcome, how)
           x == Entry(r, outcome, how)
<1>1. s \in RunState /\ LoopInv(s) /\ TrailInv(s)
  BY Zenon DEF Inv, RunInv
<1>2. s.ep \in Endpoint /\ s.excluded[s.ep] = 0
  BY <1>1, ZenonT(30) DEF LoopInv, Chosen, BeforeCall
<1>3. /\ x \in Attempt /\ x.ep = s.ep /\ x.era = s.waits /\ x.how = how
      /\ u.attempts = Append(s.attempts, x) /\ u.kept = s.kept \cup {Len(s.attempts) + 1}
      /\ u.counts = Counted(s.counts, s.ep)
  <2>1. r \in Request /\ outcome \in Outcome /\ how \in How
    BY Zenon
  <2> QED BY ONLY <1>1, <1>2, <2>1, RecordedTrail, SMTT(30)
<1>4. u.waits = s.waits /\ u.ep = s.ep /\ u.excluded = s.excluded
  BY <1>1, <1>2, RecordedState, ZenonT(30)
<1>5. /\ t.attempts = u.attempts /\ t.kept = u.kept /\ t.counts = u.counts
      /\ t.waits = u.waits /\ t.ep = u.ep /\ t.excluded = u.excluded
      /\ t.outcome = outcome /\ (t.pc = "settle" \/ t.pc = "finish")
  OBVIOUS
<1>6. s.pc = "call" \/ (s.pc = "finish" /\ how # "call" /\ outcome \notin Rotates)
  BY Zenon
<1> HIDE DEF s, u, x
<1>7. PathInv(t)
  <2>1. s.attempts \in Seq(Attempt) /\ s.waits \in Nat
    BY <1>1, SMTT(30) DEF RunState
  <2>2. Trail(s.attempts, s.kept, s.waits) /\ Joins(s.attempts, s.waits, x.ep)
    BY <1>1, <1>3, <1>6, ZenonT(30) DEF TrailInv, PathInv, Joins, BeforeCall
  <2>3. LET b == Append(s.attempts, x) IN
        /\ Trail(b, s.kept \cup {Len(s.attempts) + 1}, s.waits)
        /\ Len(b) > 0 /\ b[Len(b)] = x
    BY <1>3, <2>1, <2>2, TrailAppend, Zenon
  <2> QED BY <1>3, <1>4, <1>5, <2>3, ZenonT(30) DEF PathInv, BeforeCall
<1>8. CallInv(s) => CallInv(t)
  BY <1>1, <1>2, <1>3, <1>4, <1>5, <1>6, CallsRecorded, ZenonT(30)
<1> QED BY <1>1, <1>7, <1>8, Zenon DEF TrailInv

LEMMA ReturnTrail ==
    ASSUME Inv, NEW r \in Request, NEW outcome \in Ends, Return(r, outcome), TrailInv(run[r])
    PROVE  TrailInv(run'[r])
<1> DEFINE s == run[r]
           how == IF outcome \in Rotates THEN "rotated" ELSE "call"
           u == Recorded(r, outcome, how)
           t == [u EXCEPT !.pc = "settle"]
<1>1. s \in RunState /\ LoopInv(s) /\ DOMAIN run = Request
  BY DEF Inv, RunInv
<1>2. s.pc = "call" /\ run' = [run EXCEPT ![r] = t]
  BY DEF Return, Become
<1>3. s.ep \in Endpoint
  BY <1>1, <1>2 DEF LoopInv, Chosen, BeforeCall
<1>4. outcome \in Outcome /\ how \in How /\ (outcome \in Rotates => how # "call")
  BY ConstantsAssumption DEF How
<1>5. run'[r] = t
  BY <1>1, <1>2
<1> HIDE DEF how
<1>6. u \in RunState /\ u.outcome = outcome
  BY <1>1, <1>3, <1>4, RecordedState
<1> DEFINE v == Recorded(r, outcome, how)
<1>a. u = v
  OBVIOUS
<1> HIDE DEF u, v
<1>7. /\ t.attempts = u.attempts /\ t.kept = u.kept /\ t.counts = u.counts
      /\ t.waits = u.waits /\ t.ep = u.ep /\ t.excluded = u.excluded
      /\ t.outcome = outcome /\ t.pc = "settle"
  BY <1>6 DEF RunState
<1> HIDE DEF t, s
<1> QED BY <1>2, <1>4, <1>5, <1>7, <1>a, RecordTrail, ZenonT(30) DEF s, v

LEMMA AnswerLostTrail ==
    ASSUME Inv, NEW r \in Request, AnswerLost(r), TrailInv(run[r])
    PROVE  TrailInv(run'[r])
<1> DEFINE s == run[r]
           t == Recorded(r, "retryable", "again")
<1>1. s \in RunState /\ LoopInv(s) /\ DOMAIN run = Request
  BY DEF Inv, RunInv
<1>2. s.pc = "finish" /\ run' = [run EXCEPT ![r] = t]
  BY Zenon DEF AnswerLost, Become
<1>3. s.ep \in Endpoint
  BY <1>1, <1>2 DEF LoopInv, Chosen
<1>4. "retryable" \in Outcome /\ "again" \in How /\ "retryable" \notin Rotates
  BY DEF Outcome, Failure, Retryable, How, Rotates
<1>5. run'[r] = t
  BY <1>1, <1>2, Zenon
<1>6. t.outcome = "retryable" /\ t.pc = s.pc
  BY <1>1, <1>3, <1>4, RecordedState, ZenonT(30)
<1> QED BY <1>2, <1>4, <1>5, <1>6, RecordTrail, Zenon

\* One request's step leaves the trails of the others alone.
LEMMA StepTrail ==
    ASSUME Inv, NEW r \in Request, Step(r), TrailInv(run[r])
    PROVE  TrailInv(run'[r])
<1>1. Inv'
  BY StepAdvances, AdvancesInv, SMTT(30)
<1>2. run[r] \in RunState /\ run'[r] \in RunState
  BY <1>1, SMTT(30) DEF Inv, RunInv
<1>3. \/ Quiet(run[r], run'[r])
      \/ Rollover(r)
      \/ \E e \in Endpoint : Choose(r, e)
      \/ \E outcome \in Ends : Return(r, outcome)
      \/ AnswerLost(r)
  BY EndQuiet, PhaseQuiet, PassedOverQuiet, GoOnQuiet, FallBackQuiet, ZenonT(30) DEF Step
<1> QED BY <1>1, <1>2, <1>3, QuietTrail, RolloverTrail, ChooseTrail, ReturnTrail, AnswerLostTrail, Zenon

LEMMA CrashQuiet ==
    ASSUME Inv, Crash, NEW r \in Request
    PROVE  run'[r] = run[r] \/ Quiet(run[r], run'[r])
<1>1. run[r] \in RunState
  BY DEF Inv, RunInv
<1>2. run'[r] = run[r] \/ run'[r] = [run[r] EXCEPT !.pc = "dead"]
  BY Zenon DEF Crash
<1>3. CASE run'[r] = [run[r] EXCEPT !.pc = "dead"]
  <2>1. LET t == run'[r] s == run[r] IN
        t.pc = "dead" /\ t.attempts = s.attempts /\ t.kept = s.kept
          /\ t.waits = s.waits /\ t.counts = s.counts
    BY <1>1, <1>3 DEF RunState
  <2> QED BY <2>1 DEF Quiet, Ended
<1> QED BY <1>2, <1>3

TrailsInv == \A r \in Request : TrailInv(run[r])

LEMMA InitTrails ==
    ASSUME Init
    PROVE  TrailsInv
<1>1. /\ Fresh.pc = "select" /\ Fresh.attempts = <<>> /\ Fresh.kept = {} /\ Fresh.waits = 0
      /\ Fresh.counts = [e \in Endpoint |-> 0]
  BY DEF Fresh
<1>2. Len(<<>>) = 0 /\ 1 .. 0 = {}
  BY SMTT(30)
<1>3. PathInv(Fresh)
  BY <1>1, <1>2, ZenonT(30) DEF PathInv, Trail, BeforeCall
<1>4. MaxSame >= 1 => CallInv(Fresh)
  <2>1. \A e, n : CallsOf(<<>>, e, n) = {}
    BY <1>2 DEF CallsOf
  <2>2. \A e, n : Cardinality(CallsOf(<<>>, e, n)) = 0
    BY <2>1, FS_EmptySet
  <2> QED BY <1>1, <2>2, ConstantsAssumption DEF CallInv
<1> QED BY <1>3, <1>4, Zenon DEF Init, TrailsInv, TrailInv

LEMMA NextTrails ==
    ASSUME Inv, TrailsInv, [Next]_vars
    PROVE  TrailsInv'
<1>1. ASSUME NEW r \in Request, Step(r)
      PROVE  TrailsInv'
  <2>1. \A q \in Request : q # r => run'[q] = run[q]
    BY <1>1, StepAdvances, AdvancesInv
  <2>2. TrailInv(run'[r])
    BY <1>1, StepTrail DEF TrailsInv
  <2> QED BY <2>1, <2>2, ZenonT(30) DEF TrailsInv
<1>2. CASE Crash
  <2>1. Inv'
    BY <1>2, CrashAdvances
  <2>2. ASSUME NEW r \in Request PROVE TrailInv(run'[r])
    <3>1. run[r] \in RunState /\ run'[r] \in RunState /\ TrailInv(run[r])
      BY <2>1 DEF Inv, RunInv, TrailsInv
    <3> QED BY <1>2, <3>1, CrashQuiet, QuietTrail, ZenonT(30)
  <2> QED BY <2>2 DEF TrailsInv
<1>3. CASE UNCHANGED vars
  BY <1>3 DEF vars, TrailsInv
<1> QED BY <1>1, <1>2, <1>3 DEF Next

LEMMA TrailsInvariance == Spec => []TrailsInv
<1>1. Init => TrailsInv
  BY InitTrails
<1>2. Inv /\ TrailsInv /\ [Next]_vars => TrailsInv'
  BY NextTrails
<1> QED BY <1>1, <1>2, Invariance, PTL DEF Spec

-----------------------------------------------------------------------------
(* Sums over finite sets.  Reserved is the value at `reserved' of the      *)
(* function that a fold defines; f is such a function for the weights w on *)
(* the subsets of S.  What it computes is shown from the smallest set for  *)
(* which it would fail.                                                    *)

First(s) == CHOOSE x \in s : TRUE

Sums(w, S, f) ==
    f = [s \in SUBSET S |-> IF s = {} THEN 0 ELSE w[First(s)] + f[s \ {First(s)}]]

LEMMA NatMin ==
    ASSUME NEW T \in SUBSET Nat, T # {}
    PROVE  \E x \in T : \A y \in T : x <= y
<1> DEFINE R == OpToRel(<, Nat)
<1>1. IsWellFoundedOn(R, Nat)
  BY NatLessThanWellFounded
<1>2. PICK x \in T : \A y \in T : ~(<<y, x>> \in R)
  <2> HIDE DEF R
  <2> QED BY <1>1, WFMin, Zenon
<1>3. ASSUME NEW y \in T PROVE x <= y
  <2>1. ~(<<y, x>> \in R)
    BY <1>2
  <2>2. x \in Nat /\ y \in Nat
    OBVIOUS
  <2>3. CASE y < x
    BY <2>1, <2>2, <2>3 DEF OpToRel
  <2> QED BY <2>2, <2>3
<1> QED BY <1>3

\* Of a set of finite sets that is not empty some member is no larger than any.
LEMMA SmallestSet ==
    ASSUME NEW B, B # {}, \A s \in B : IsFiniteSet(s)
    PROVE  \E s \in B : \A u \in B : Cardinality(s) <= Cardinality(u)
<1> DEFINE T == {Cardinality(s) : s \in B}
<1>1. T \in SUBSET Nat /\ T # {}
  BY FS_CardinalityType
<1>2. PICK n \in T : \A m \in T : n <= m
  BY <1>1, NatMin, Zenon
<1> QED BY <1>2

LEMMA FirstOf ==
    ASSUME NEW S, IsFiniteSet(S), NEW s \in SUBSET S, s # {}
    PROVE  /\ First(s) \in s
           /\ \A y \in s : /\ s \ {y} \in SUBSET S /\ IsFiniteSet(s \ {y}) /\ IsFiniteSet(s)
                           /\ Cardinality(s \ {y}) < Cardinality(s)
<1>1. First(s) \in s
  BY DEF First
<1>2. IsFiniteSet(s) /\ Cardinality(s) \in Nat
  BY FS_Subset, FS_CardinalityType
<1>3. ASSUME NEW y \in s
      PROVE  IsFiniteSet(s \ {y}) /\ Cardinality(s \ {y}) = Cardinality(s) - 1
  BY <1>2, FS_RemoveElement, ZenonT(30)
<1> QED BY <1>1, <1>2, <1>3

LEMMA SumsAt ==
    ASSUME NEW w, NEW S, NEW f, Sums(w, S, f), NEW s \in SUBSET S
    PROVE  f[s] = IF s = {} THEN 0 ELSE w[First(s)] + f[s \ {First(s)}]
<1> DEFINE F(g) == [u \in SUBSET S |-> IF u = {} THEN 0 ELSE w[First(u)] + g[u \ {First(u)}]]
<1>1. f = F(f)
  BY Zenon DEF Sums
<1>2. F(f)[s] = IF s = {} THEN 0 ELSE w[First(s)] + f[s \ {First(s)}]
  OBVIOUS
<1> HIDE DEF F
<1> QED BY <1>1, <1>2

LEMMA SumsNat ==
    ASSUME NEW S, IsFiniteSet(S), NEW w, w \in [S -> Nat], NEW f, Sums(w, S, f)
    PROVE  \A s \in SUBSET S : f[s] \in Nat
<1> DEFINE B == {s \in SUBSET S : f[s] \notin Nat}
<1>1. SUFFICES ASSUME B # {} PROVE FALSE
  OBVIOUS
<1>2. \A s \in B : IsFiniteSet(s)
  BY FS_Subset
<1>3. PICK s \in B : \A u \in B : Cardinality(s) <= Cardinality(u)
  <2> HIDE DEF B
  <2> QED BY <1>1, <1>2, SmallestSet, Zenon
<1>4. s # {} /\ f[s] = w[First(s)] + f[s \ {First(s)}]
  BY SumsAt, SMTT(30)
<1> DEFINE u == s \ {First(s)}
<1>5. First(s) \in s /\ u \in SUBSET S /\ Cardinality(u) < Cardinality(s) /\ IsFiniteSet(u) /\ IsFiniteSet(s)
  BY <1>4, FirstOf, Zenon
<1>6. u \notin B
  BY <1>3, <1>5, FS_CardinalityType, SMTT(30)
<1>7. f[u] \in Nat /\ w[First(s)] \in Nat
  BY <1>5, <1>6, Zenon
<1> QED BY <1>4, <1>7

\* The elements may be added in any order.
LEMMA SumsAny ==
    ASSUME NEW S, IsFiniteSet(S), NEW w, w \in [S -> Nat], NEW f, Sums(w, S, f),
           NEW u, u \in SUBSET S, NEW z, z \in u
    PROVE  f[u] = w[z] + f[u \ {z}]
<1> DEFINE B == {s \in SUBSET S : \E y \in s : f[s] # w[y] + f[s \ {y}]}
<1>1. SUFFICES ASSUME B # {} PROVE FALSE
  BY Zenon
<1>2. \A s \in B : IsFiniteSet(s)
  BY FS_Subset
<1>3. PICK s \in B : \A v \in B : Cardinality(s) <= Cardinality(v)
  <2> HIDE DEF B
  <2> QED BY <1>1, <1>2, SmallestSet
<1>4. PICK y \in s : f[s] # w[y] + f[s \ {y}]
  OBVIOUS
<1> DEFINE x == First(s)
<1>a. s \in SUBSET S /\ s # {}
  BY <1>4
<1>b. f[s] = w[x] + f[s \ {x}]
  BY <1>a, SumsAt, SMTT(30)
<1>5. x \in s /\ f[s] = w[x] + f[s \ {x}] /\ x # y
  BY <1>4, <1>a, <1>b, FirstOf, Zenon
<1> HIDE DEF x
<1>6. /\ s \ {x} \in SUBSET S /\ Cardinality(s \ {x}) < Cardinality(s) /\ IsFiniteSet(s \ {x})
      /\ s \ {y} \in SUBSET S /\ Cardinality(s \ {y}) < Cardinality(s) /\ IsFiniteSet(s \ {y})
      /\ IsFiniteSet(s)
  BY <1>4, <1>5, FirstOf, ZenonT(30)
<1>7. s \ {x} \notin B /\ s \ {y} \notin B
  <2>1. Cardinality(s) \in Nat /\ Cardinality(s \ {x}) \in Nat /\ Cardinality(s \ {y}) \in Nat
    BY <1>6, FS_CardinalityType, Zenon
  <2> HIDE DEF B
  <2>2. ASSUME s \ {x} \in B PROVE FALSE
    BY <1>3, <1>6, <2>1, <2>2, SMTT(30)
  <2>3. ASSUME s \ {y} \in B PROVE FALSE
    BY <1>3, <1>6, <2>1, <2>3, SMTT(30)
  <2> QED BY <2>2, <2>3, Zenon
<1>8. f[s \ {x}] = w[y] + f[(s \ {x}) \ {y}]
  BY <1>4, <1>5, <1>6, <1>7, Zenon
<1>9. f[s \ {y}] = w[x] + f[(s \ {y}) \ {x}]
  BY <1>4, <1>5, <1>6, <1>7, ZenonT(30)
<1>10. (s \ {x}) \ {y} = (s \ {y}) \ {x}
  BY Zenon
<1>11. /\ w[x] \in Nat /\ w[y] \in Nat /\ f[(s \ {x}) \ {y}] \in Nat /\ f[s] \in Nat
       /\ f[s \ {y}] \in Nat
  BY <1>4, <1>5, <1>6, SumsNat
<1> DEFINE rest == f[(s \ {x}) \ {y}]
<1>12. /\ f[s] = w[x] + f[s \ {x}] /\ f[s \ {x}] = w[y] + rest /\ f[s \ {y}] = w[x] + rest
       /\ rest \in Nat /\ w[x] \in Nat /\ w[y] \in Nat
  BY <1>5, <1>8, <1>9, <1>10, <1>11, ZenonT(30)
<1> HIDE DEF rest
<1>13. f[s] = w[y] + f[s \ {y}]
  BY <1>12
<1> QED BY <1>4, <1>13, SMTT(30)

\* The sum over a set depends on its weights only.
LEMMA SumsAgree ==
    ASSUME NEW S, IsFiniteSet(S), NEW w, NEW f, Sums(w, S, f),
           NEW T, NEW v, NEW g, Sums(v, T, g)
    PROVE  \A s \in SUBSET S : s \subseteq T /\ (\A x \in s : w[x] = v[x]) => f[s] = g[s]
<1> DEFINE B == {s \in SUBSET S : s \subseteq T /\ (\A x \in s : w[x] = v[x]) /\ f[s] # g[s]}
<1>1. SUFFICES ASSUME B # {} PROVE FALSE
  BY Zenon
<1>2. \A s \in B : IsFiniteSet(s)
  BY FS_Subset
<1>3. PICK s \in B : \A u \in B : Cardinality(s) <= Cardinality(u)
  <2> HIDE DEF B
  <2> QED BY <1>1, <1>2, SmallestSet, Zenon
<1>4. s \in SUBSET S /\ s \in SUBSET T
  BY Zenon
<1> DEFINE u == s \ {First(s)}
<1>a. f[s] = IF s = {} THEN 0 ELSE w[First(s)] + f[u]
  BY <1>4, SumsAt, SMTT(30)
<1>b. g[s] = IF s = {} THEN 0 ELSE v[First(s)] + g[u]
  BY <1>4, SumsAt, SMTT(30)
<1>5. s # {}
  BY <1>a, <1>b, Zenon
<1>6. f[s] = w[First(s)] + f[u] /\ g[s] = v[First(s)] + g[u]
  BY <1>5, <1>a, <1>b, Zenon
<1>7. First(s) \in s /\ u \in SUBSET S /\ Cardinality(u) < Cardinality(s) /\ IsFiniteSet(u) /\ IsFiniteSet(s)
  BY <1>4, <1>5, FirstOf, ZenonT(30)
<1>8. u \notin B
  BY <1>3, <1>7, FS_CardinalityType, SMTT(30)
<1>9. f[u] = g[u]
  BY <1>4, <1>7, <1>8, SMTT(30)
<1> QED BY <1>6, <1>7, <1>9, Zenon

UpTo(S, n) == {s \in SUBSET S : Cardinality(s) <= n}

SumsUpTo(w, S, n, f) ==
    /\ f \in [UpTo(S, n) -> Nat]
    /\ \A s \in UpTo(S, n) : f[s] = IF s = {} THEN 0 ELSE w[First(s)] + f[s \ {First(s)}]

LEMMA SumsExtend ==
    ASSUME NEW S, IsFiniteSet(S), NEW w, w \in [S -> Nat], NEW k \in Nat, NEW f, SumsUpTo(w, S, k, f)
    PROVE  \E g : SumsUpTo(w, S, k + 1, g)
<1> DEFINE g == [s \in UpTo(S, k + 1) |-> IF s = {} THEN 0 ELSE w[First(s)] + f[s \ {First(s)}]]
<1>1. ASSUME NEW s \in UpTo(S, k + 1)
      PROVE  /\ s \in SUBSET S
             /\ s # {} => First(s) \in S /\ s \ {First(s)} \in UpTo(S, k)
  <2>1. s \in SUBSET S /\ Cardinality(s) <= k + 1
    BY DEF UpTo
  <2>2. CASE s # {}
    <3>1. /\ First(s) \in s /\ s \ {First(s)} \in SUBSET S /\ IsFiniteSet(s \ {First(s)})
          /\ IsFiniteSet(s) /\ Cardinality(s \ {First(s)}) < Cardinality(s)
      BY <2>1, <2>2, FirstOf, Zenon
    <3>2. Cardinality(s) \in Nat /\ Cardinality(s \ {First(s)}) \in Nat
      BY <3>1, FS_CardinalityType
    <3>3. Cardinality(s \ {First(s)}) <= k
      BY <2>1, <3>1, <3>2, SMTT(30)
    <3> QED BY <2>1, <3>1, <3>3, Zenon DEF UpTo
  <2> QED BY <2>1, <2>2
<1>2. \A s \in UpTo(S, k) : s \in UpTo(S, k + 1) /\ f[s] = g[s]
  <2>1. ASSUME NEW s \in UpTo(S, k) PROVE s \in UpTo(S, k + 1)
    <3>1. s \in SUBSET S /\ Cardinality(s) <= k /\ Cardinality(s) \in Nat
      BY FS_Subset, FS_CardinalityType, Zenon DEF UpTo
    <3> QED BY <3>1 DEF UpTo
  <2> QED BY <2>1 DEF SumsUpTo
<1>3. g \in [UpTo(S, k + 1) -> Nat]
  <2>1. ASSUME NEW s \in UpTo(S, k + 1), s # {}
        PROVE  w[First(s)] + f[s \ {First(s)}] \in Nat
    <3>1. w[First(s)] \in Nat /\ f[s \ {First(s)}] \in Nat
      BY <1>1, <2>1, ZenonT(30) DEF SumsUpTo
    <3> QED BY <3>1
  <2> QED BY <2>1
<1>4. ASSUME NEW s \in UpTo(S, k + 1)
      PROVE  g[s] = IF s = {} THEN 0 ELSE w[First(s)] + g[s \ {First(s)}]
  <2>1. s # {} => f[s \ {First(s)}] = g[s \ {First(s)}]
    BY <1>1, <1>2, Zenon
  <2>2. g[s] = IF s = {} THEN 0 ELSE w[First(s)] + f[s \ {First(s)}]
    OBVIOUS
  <2> HIDE DEF g
  <2> QED BY <2>1, <2>2, SMTT(30)
<1> HIDE DEF g
<1>5. SumsUpTo(w, S, k + 1, g)
  BY <1>3, <1>4 DEF SumsUpTo
<1> QED BY <1>5

LEMMA SumsExist ==
    ASSUME NEW S, IsFiniteSet(S), NEW w, w \in [S -> Nat]
    PROVE  \E f : Sums(w, S, f)
<1> DEFINE B == {n \in Nat : ~ \E f : SumsUpTo(w, S, n, f)}
<1>1. B = {}
  <2> SUFFICES ASSUME B # {} PROVE FALSE
    OBVIOUS
  <2>1. PICK n \in B : \A m \in B : n <= m
    <3>1. B \in SUBSET Nat
      OBVIOUS
    <3> HIDE DEF B
    <3> QED BY <3>1, NatMin
  <2>2. CASE n = 0
    <3> DEFINE f == [s \in UpTo(S, 0) |-> 0]
    <3>1. ASSUME NEW s \in UpTo(S, 0) PROVE s = {}
      <4>1. IsFiniteSet(s) /\ Cardinality(s) \in Nat /\ Cardinality(s) <= 0
        BY FS_Subset, FS_CardinalityType DEF UpTo
      <4>2. Cardinality(s) = 0
        BY <4>1
      <4> QED BY <4>1, <4>2, FS_EmptySet, ZenonT(30)
    <3>2. SumsUpTo(w, S, 0, f)
      BY <3>1 DEF SumsUpTo
    <3> QED BY <2>2, <3>2
  <2>3. CASE n # 0
    <3>1. n - 1 \in Nat /\ (n - 1) + 1 = n /\ ~(n <= n - 1)
      BY <2>3
    <3>2. n - 1 \notin B
      BY <2>1, <3>1
    <3>3. PICK f : SumsUpTo(w, S, n - 1, f)
      BY <3>1, <3>2
    <3>4. \E g : SumsUpTo(w, S, (n - 1) + 1, g)
      BY <3>1, <3>3, SumsExtend
    <3> QED BY <3>1, <3>4
  <2> QED BY <2>2, <2>3
<1>2. Cardinality(S) \in Nat
  BY FS_CardinalityType
<1>3. PICK f : SumsUpTo(w, S, Cardinality(S), f)
  BY <1>1, <1>2, ZenonT(30)
<1>4. UpTo(S, Cardinality(S)) = SUBSET S
  BY FS_Subset DEF UpTo
<1>5. f \in [SUBSET S -> Nat]
  BY <1>3, <1>4 DEF SumsUpTo
<1>6. \A s \in SUBSET S : f[s] = IF s = {} THEN 0 ELSE w[First(s)] + f[s \ {First(s)}]
  BY <1>3, <1>4 DEF SumsUpTo
<1>7. Sums(w, S, f)
  BY <1>5, <1>6, ZenonT(30) DEF Sums
<1> QED BY <1>7

-----------------------------------------------------------------------------
(* The budget                                                              *)

Weights(S, s) == [r \in S |-> Estimate[s[r].ep]]
Total(S, s) == MapThenSumSet(LAMBDA r : Estimate[s[r].ep], S)

\* The reservations S that requests in states s hold.
LEMMA TotalSums ==
    ASSUME NEW S, IsFiniteSet(S), NEW s, Weights(S, s) \in [S -> Nat]
    PROVE  \E f : Sums(Weights(S, s), S, f) /\ Total(S, s) = f[S]
<1> DEFINE w == Weights(S, s)
           F(g) == [u \in SUBSET S |-> IF u = {} THEN 0
                                       ELSE LET x == CHOOSE x \in u : TRUE
                                            IN  Estimate[s[x].ep] + g[u \ {x}]]
<1>1. ASSUME NEW g PROVE Sums(w, S, g) <=> g = F(g)
  <2>1. ASSUME NEW u \in SUBSET S, u # {}
        PROVE  w[First(u)] = Estimate[s[First(u)].ep]
    <3>1. First(u) \in S
      BY <2>1, FirstOf
    <3> QED BY <3>1 DEF Weights
  <2>2. F(g) = [u \in SUBSET S |->
                  IF u = {} THEN 0 ELSE Estimate[s[First(u)].ep] + g[u \ {First(u)}]]
    BY ZenonT(30) DEF First
  <2>3. F(g) = [u \in SUBSET S |-> IF u = {} THEN 0 ELSE w[First(u)] + g[u \ {First(u)}]]
    BY <2>1, <2>2
  <2> HIDE DEF F
  <2> QED BY <2>3 DEF Sums
<1>2. PICK f : Sums(w, S, f)
  <2> HIDE DEF w
  <2> QED BY SumsExist, SMTT(30) DEF w
<1>3. f = F(f)
  BY <1>1, <1>2, Zenon
<1>4. \E g : g = F(g) /\ Total(S, s) = g[S]
  BY <1>3, Zenon DEF Total, MapThenSumSet, MapThenFoldSet
<1> HIDE DEF F, w
<1> QED BY <1>1, <1>4 DEF w

LEMMA TotalNat ==
    ASSUME NEW S, IsFiniteSet(S), NEW s, \A r \in S : s[r].ep \in Endpoint
    PROVE  Weights(S, s) \in [S -> Nat] /\ Total(S, s) \in Nat
<1>1. Weights(S, s) \in [S -> Nat]
  BY ConstantsAssumption, Zenon DEF Weights
<1>2. PICK f : Sums(Weights(S, s), S, f) /\ Total(S, s) = f[S]
  BY <1>1, TotalSums, Zenon
<1> QED BY <1>1, <1>2, SumsNat

LEMMA TotalEmpty == ASSUME NEW s PROVE Total({}, s) = 0
<1>1. IsFiniteSet({}) /\ Weights({}, s) \in [{} -> Nat]
  BY FS_EmptySet, Zenon DEF Weights
<1>2. PICK f : Sums(Weights({}, s), {}, f) /\ Total({}, s) = f[{}]
  BY <1>1, TotalSums, Zenon
<1> QED BY <1>2, SumsAt, Zenon

\* The requests in S are at the same endpoints in s and in t.
Agree(S, s, t) == \A q \in S : s[q].ep \in Endpoint /\ t[q].ep = s[q].ep

\* Another reservation adds its estimate; requests that hold none do not count.
LEMMA TotalAdds ==
    ASSUME NEW S, IsFiniteSet(S), NEW r, r \notin S, NEW s, NEW t,
           Agree(S, s, t), NEW e \in Endpoint, t[r].ep = e, NEW S2, S2 = S \cup {r}
    PROVE  Total(S2, t) = Estimate[e] + Total(S, s)
<1> DEFINE w == Weights(S, s)
           v == Weights(S2, t)
<1>1. IsFiniteSet(S2) /\ \A q \in S2 : t[q].ep \in Endpoint
  BY FS_AddElement, SMTT(30) DEF Agree
<1>2. w \in [S -> Nat] /\ v \in [S2 -> Nat]
  BY <1>1, TotalNat, ZenonT(30) DEF Agree
<1>3. PICK f : Sums(w, S, f) /\ Total(S, s) = f[S]
  BY <1>2, TotalSums
<1>4. PICK g : Sums(v, S2, g) /\ Total(S2, t) = g[S2]
  BY <1>1, <1>2, TotalSums, ZenonT(30)
<1>5. \A q \in S : w[q] = v[q]
  BY DEF Weights, Agree
<1>6. v[r] = Estimate[e]
  BY DEF Weights
<1>7. S2 \ {r} = S /\ S \in SUBSET S2 /\ r \in S2
  BY Zenon
<1> HIDE DEF w, v
<1>8. f[S] = g[S]
  <2>1. \A z \in SUBSET S : z \subseteq S2 /\ (\A q \in z : w[q] = v[q]) => f[z] = g[z]
    BY ONLY IsFiniteSet(S), <1>3, <1>4, SumsAgree, SMTT(30)
  <2> QED BY <1>5, <1>7, <2>1, ZenonT(30)
<1>9. g[S2] = v[r] + g[S2 \ {r}]
  <2>1. S2 \in SUBSET S2 /\ r \in S2
    BY <1>7, Zenon
  <2>2. IsFiniteSet(S2) /\ v \in [S2 -> Nat] /\ Sums(v, S2, g)
    BY <1>1, <1>2, <1>4, ZenonT(30)
  <2> QED BY ONLY <2>1, <2>2, SumsAny
<1> QED BY <1>3, <1>4, <1>6, <1>7, <1>8, <1>9, ZenonT(30)

LEMMA TotalSame ==
    ASSUME NEW S, IsFiniteSet(S), NEW s, NEW t,
           Agree(S, s, t)
    PROVE  Total(S, t) = Total(S, s)
<1> DEFINE w == Weights(S, s)
           v == Weights(S, t)
<1>1. w = v
  BY DEF Weights, Agree
<1>2. w \in [S -> Nat]
  BY TotalNat, Zenon DEF Agree
<1>3. PICK f : Sums(w, S, f) /\ Total(S, s) = f[S]
  BY <1>2, TotalSums, Zenon
<1>4. PICK g : Sums(v, S, g) /\ Total(S, t) = g[S]
  BY <1>1, <1>2, TotalSums, Zenon
<1> HIDE DEF w, v
<1> QED BY <1>1, <1>3, <1>4, SumsAgree, SMTT(30)

BudgetInv ==
    /\ IsFiniteSet(reserved)
    /\ \A r \in reserved : run[r].ep \in Endpoint
    /\ overrun \in Nat
    /\ spent + Total(reserved, run) <= Limit + overrun

\* Other steps leave the reservations and the endpoints of their holders alone.
LEMMA UnreservedBudget ==
    ASSUME Inv, BudgetInv, UNCHANGED <<reserved, spent, overrun>>,
           \A r \in reserved : run'[r].ep = run[r].ep
    PROVE  BudgetInv'
<1>1. Total(reserved, run') = Total(reserved, run)
  <2>1. IsFiniteSet(reserved) /\ Agree(reserved, run, run')
    BY DEF BudgetInv, Agree
  <2> QED BY ONLY <2>1, TotalSame
<1> QED BY <1>1 DEF BudgetInv

LEMMA ReserveBudget ==
    ASSUME Inv, BudgetInv, NEW r \in Request, Reserve(r), Affordable(r)
    PROVE  BudgetInv'
<1> DEFINE s == run[r]
<1>1. s \in RunState /\ LoopInv(s) /\ Holds(r, s) /\ DOMAIN run = Request /\ reserved \subseteq Request
  BY DEF Inv, RunInv
<1>2. s.pc = "reserve" /\ reserved' = reserved \cup {r} /\ UNCHANGED <<spent, overrun>>
  BY DEF Reserve
<1>3. run' = [run EXCEPT ![r] = [s EXCEPT !.pc = "admit"]]
  BY Zenon DEF Reserve, Goto, Become
<1>4. s.ep \in Endpoint /\ r \notin reserved
  BY <1>1, <1>2 DEF LoopInv, Chosen, BeforeCall, Holds, InFlight
<1>5. run'[r].ep = s.ep /\ \A q \in reserved : run'[q] = run[q]
  BY <1>1, <1>3, <1>4, ZenonT(30) DEF RunState
<1>6. Total(reserved', run') = Estimate[s.ep] + Total(reserved, run)
  <2>1. IsFiniteSet(reserved) /\ s.ep \in Endpoint /\ run'[r].ep = s.ep /\ r \notin reserved
    BY <1>4, <1>5, Zenon DEF BudgetInv
  <2>2. Agree(reserved, run, run')
    BY <1>5 DEF BudgetInv, Agree
  <2> HIDE DEF s
  <2> QED BY ONLY <1>2, <2>1, <2>2, TotalAdds, SMTT(30)
<1>7. spent + Total(reserved, run) + Estimate[s.ep] <= Limit
  BY DEF Affordable, Reserved, Total
<1>8. spent \in Nat /\ Total(reserved, run) \in Nat /\ Estimate[s.ep] \in Nat /\ overrun \in Nat
  BY <1>4, TotalNat, ConstantsAssumption, ZenonT(30) DEF BudgetInv, Inv
<1>9. spent' + Total(reserved', run') <= Limit + overrun' /\ overrun' \in Nat
  BY ONLY <1>2, <1>6, <1>7, <1>8, ConstantsAssumption, SMTT(30)
<1>10. IsFiniteSet(reserved') /\ \A q \in reserved' : run'[q].ep \in Endpoint
  BY <1>2, <1>4, <1>5, FS_AddElement, Zenon DEF BudgetInv
<1> QED BY <1>9, <1>10 DEF BudgetInv

\* A reservation that is given back leaves room for its estimate; what is spent
\* beyond it is an overrun.
LEMMA ReleaseBudget ==
    ASSUME Inv, BudgetInv, NEW r \in Request, r \in reserved, reserved' = reserved \ {r},
           \A q \in reserved : run'[q].ep = run[q].ep,
           NEW c \in Nat, NEW d \in Nat, c <= Estimate[run[r].ep] + d,
           spent' = spent + c, overrun' = overrun + d
    PROVE  BudgetInv'
<1> DEFINE S == reserved \ {r}
<1>1. IsFiniteSet(S) /\ reserved = S \cup {r} /\ r \notin S /\ IsFiniteSet(reserved)
  BY FS_Subset, Zenon DEF BudgetInv
<1>2. \A q \in reserved : run[q].ep \in Endpoint /\ run'[q].ep \in Endpoint
  BY Zenon DEF BudgetInv
<1>3. Total(reserved, run) = Estimate[run[r].ep] + Total(S, run')
  <2>1. Agree(S, run', run)
    BY <1>2 DEF Agree
  <2>2. run[r].ep \in Endpoint
    BY <1>2, Zenon
  <2> HIDE DEF S
  <2> QED BY ONLY <1>1, <2>1, <2>2, TotalAdds, SMTT(30)
<1>4. Total(S, run') \in Nat /\ Estimate[run[r].ep] \in Nat /\ spent \in Nat /\ overrun \in Nat
  BY <1>1, <1>2, TotalNat, ConstantsAssumption, ZenonT(30) DEF Inv, BudgetInv
<1>5. spent + Total(reserved, run) <= Limit + overrun
  BY DEF BudgetInv
<1>6. spent' + Total(S, run') <= Limit + overrun' /\ overrun' \in Nat
  BY <1>3, <1>4, <1>5, ConstantsAssumption, SMTT(30)
<1> QED BY <1>1, <1>2, <1>6, Zenon DEF BudgetInv

LEMMA SettleBudget ==
    ASSUME Inv, BudgetInv, NEW r \in Request, Settle(r) \/ Refuse(r)
    PROVE  BudgetInv'
<1> DEFINE s == run[r]
<1>1. s \in RunState /\ LoopInv(s) /\ Holds(r, s) /\ DOMAIN run = Request /\ reserved \subseteq Request
  BY DEF Inv, RunInv
<1>2. (s.pc = "settle" \/ s.pc = "admit") /\ reserved' = reserved \ {r}
  BY Zenon DEF Settle, Refuse
<1>3. r \in reserved /\ s.ep \in Endpoint /\ Estimate[s.ep] \in Nat
  BY <1>1, <1>2, ConstantsAssumption, ZenonT(30) DEF Holds, InFlight, LoopInv, Chosen, BeforeCall
<1>4. \A q \in reserved : run'[q].ep = run[q].ep
  <2>1. run'[r].ep = s.ep
    <3>1. \/ run'[r] = [s EXCEPT !.pc = "finish"]
          \/ run'[r] = [s EXCEPT !.pc = "select", !.excluded = Exclude(@, s.ep)]
      BY <1>1 DEF Settle, Refuse, Goto, Become
    <3> QED BY <1>1, <3>1, Zenon DEF RunState
  <2>2. \A q \in Request : q # r => run'[q] = run[q]
    BY <1>1 DEF Settle, Refuse, Goto, Become
  <2> QED BY <1>1, <2>1, <2>2
<1>5. PICK c \in Nat, d \in Nat : /\ c <= Estimate[s.ep] + d
                                 /\ spent' = spent + c /\ overrun' = overrun + d
  <2>1. CASE Settle(r)
    <3>1. PICK c \in (IF s.outcome = "answered" THEN Cost[s.ep] ELSE {Estimate[s.ep]}) :
              /\ spent' = spent + c
              /\ overrun' = IF c > Estimate[s.ep] THEN overrun + (c - Estimate[s.ep])
                                                ELSE overrun
      BY <2>1, Zenon DEF Settle
    <3>2. Cost[s.ep] \subseteq Nat /\ overrun \in Nat
      BY <1>3, ConstantsAssumption DEF BudgetInv
    <3>3. c \in Cost[s.ep] \/ c = Estimate[s.ep]
      BY <3>1, ZenonT(30)
    <3>4. c \in Nat
      BY ONLY <1>3, <3>2, <3>3, SMTT(30)
    <3> DEFINE d == IF c > Estimate[s.ep] THEN c - Estimate[s.ep] ELSE 0
    <3>5. d \in Nat /\ c <= Estimate[s.ep] + d /\ overrun' = overrun + d
      BY ONLY <1>3, <3>1, <3>2, <3>4, SMTT(30)
    <3> HIDE DEF d
    <3> QED BY <3>1, <3>4, <3>5, Zenon
  <2>2. CASE Refuse(r)
    <3>1. UNCHANGED <<spent, overrun>> /\ spent \in Nat /\ overrun \in Nat
      BY <2>2, Zenon DEF Refuse, Inv, BudgetInv
    <3>2. spent' = spent + 0 /\ overrun' = overrun + 0 /\ 0 <= Estimate[s.ep] + 0
      BY ONLY <1>3, <3>1
    <3> QED BY <3>2
  <2> QED BY <2>1, <2>2, Zenon
<1> QED BY <1>2, <1>3, <1>4, <1>5, ReleaseBudget, ZenonT(30)

LEMMA StepBudget ==
    ASSUME Inv, BudgetInv, NEW r \in Request, Step(r), ~Settle(r), ~Refuse(r),
           ~(Reserve(r) /\ Affordable(r))
    PROVE  BudgetInv'
<1> DEFINE s == run[r]
<1>1. s \in RunState /\ Holds(r, s) /\ DOMAIN run = Request /\ reserved \subseteq Request
  BY Zenon DEF Inv, RunInv
<1>2. UNCHANGED <<reserved, spent, overrun>>
  <2>1. CASE GiveUp(r) \/ Rollover(r) \/ \E e \in Endpoint : Reject(r, e) \/ Choose(r, e)
    BY <2>1, Zenon DEF GiveUp, Rollover, Reject, Choose, shared
  <2>2. CASE Reserve(r) \/ Admit(r) \/ Prepare(r) \/ PrepareFails(r) \/ Send(r)
    BY <2>2 DEF Reserve, Admit, Prepare, PrepareFails, Send, shared
  <2>3. CASE \/ \E outcome \in Ends : Return(r, outcome)
             \/ LockoutFails(r) \/ FinishFails(r) \/ AnswerLost(r)
    BY <2>3, ZenonT(30) DEF Return, LockoutFails, FinishFails, AnswerLost, shared
  <2>4. CASE Finish(r) \/ Rotate(r) \/ Adapt(r) \/ FallBack(r) \/ Retry(r)
    BY <2>4, ZenonT(30) DEF Finish, Rotate, Adapt, FallBack, Retry
  <2> QED BY <2>1, <2>2, <2>3, <2>4, Zenon DEF Step
<1>3. \A q \in Request : q # r => run'[q] = run[q]
  BY StepAdvances, AdvancesInv
<1>4. r \in reserved => run'[r].ep = s.ep
  <2> SUFFICES ASSUME r \in reserved PROVE run'[r].ep = s.ep
    BY ZenonT(30)
  <2>1. s.pc \in InFlight \cup {"storeError"}
    BY <1>1, ZenonT(30) DEF Holds
  <2>2. \/ Admit(r) \/ Prepare(r) \/ PrepareFails(r) \/ Send(r) \/ LockoutFails(r)
        \/ \E outcome \in Ends : Return(r, outcome)
    <3>1. ~GiveUp(r) /\ ~Rollover(r) /\ \A e \in Endpoint : ~Reject(r, e) /\ ~Choose(r, e)
      BY <2>1, Zenon DEF GiveUp, Rollover, Reject, Choose, InFlight
    <3>2. ~Reserve(r) /\ ~FinishFails(r) /\ ~AnswerLost(r) /\ ~Finish(r) /\ ~Rotate(r)
      BY <2>1 DEF Reserve, FinishFails, AnswerLost, Finish, Rotate, InFlight
    <3>3. ~Adapt(r) /\ ~FallBack(r) /\ ~Retry(r)
      BY <2>1 DEF Adapt, FallBack, Retry, InFlight
    <3> QED BY <3>1, <3>2, <3>3, Zenon DEF Step
  <2>3. CASE Admit(r) \/ Prepare(r) \/ PrepareFails(r) \/ Send(r) \/ LockoutFails(r)
    <3>1. PICK pc, sent : \/ run'[r] = [s EXCEPT !.pc = pc]
                          \/ run'[r] = [s EXCEPT !.pc = pc, !.sent = sent]
      <4>1. CASE Send(r)
        BY <1>1, <4>1, ZenonT(30) DEF Send, Become
      <4>2. CASE Admit(r) \/ Prepare(r) \/ PrepareFails(r) \/ LockoutFails(r)
        <5>1. \E pc : run' = [run EXCEPT ![r] = [s EXCEPT !.pc = pc]]
          BY <4>2 DEF Admit, Prepare, PrepareFails, LockoutFails, Goto, Become
        <5> QED BY <1>1, <5>1, Zenon
      <4> QED BY <2>3, <4>1, <4>2, Zenon
    <3> QED BY <1>1, <3>1, ZenonT(30) DEF RunState
  <2>4. ASSUME NEW outcome \in Ends, Return(r, outcome)
        PROVE  run'[r].ep = s.ep
    <3> DEFINE how == IF outcome \in Rotates THEN "rotated" ELSE "call"
               u == Recorded(r, outcome, how)
    <3>1. run'[r] = [u EXCEPT !.pc = "settle"] /\ s.pc = "call"
      BY <1>1, <2>4, Zenon DEF Return, Become
    <3>2. outcome \in Outcome /\ how \in How /\ s.ep \in Endpoint
      BY <3>1, ConstantsAssumption, Zenon DEF How, Inv, RunInv, LoopInv, Chosen, BeforeCall
    <3> HIDE DEF how
    <3>3. u \in RunState /\ u.ep = s.ep
      BY <1>1, <3>2, RecordedState
    <3> HIDE DEF u
    <3> QED BY <3>1, <3>3 DEF RunState
  <2> QED BY <2>2, <2>3, <2>4, ZenonT(30)
<1> QED BY <1>1, <1>2, <1>3, <1>4, UnreservedBudget, Zenon

LEMMA BudgetInvariance == Spec => []BudgetInv
<1>1. Init => BudgetInv
  BY TotalEmpty, FS_EmptySet, ConstantsAssumption, SMTT(30) DEF Init, BudgetInv
<1>2. ASSUME Inv, BudgetInv, [Next]_vars
      PROVE  BudgetInv'
  <2>1. CASE Crash
    <3>1. reserved' = {} /\ spent' = 0 /\ overrun' = 0
      BY <2>1, Zenon DEF Crash
    <3>2. Total({}, run') = 0 /\ IsFiniteSet({})
      BY TotalEmpty, FS_EmptySet, Zenon
    <3> QED BY <3>1, <3>2, ConstantsAssumption, SMTT(30) DEF BudgetInv
  <2>2. ASSUME NEW r \in Request, Step(r)
        PROVE  BudgetInv'
    BY <1>2, <2>2, StepBudget, SettleBudget, ReserveBudget, ZenonT(30)
  <2>3. CASE UNCHANGED vars
    BY <1>2, <2>3 DEF vars, BudgetInv
  <2> QED BY <1>2, <2>1, <2>2, <2>3, Zenon DEF Next
<1> QED BY <1>1, <1>2, Invariance, PTL DEF Spec

-----------------------------------------------------------------------------
(* Theorems                                                                *)

\* The local state of every call of execute, the reservations and the rows
\* hold values of their kinds; above all, lifting exclusions in a rollover
\* never removes one that is not there.
THEOREM ExecutorTypes == Spec => []TypeOK
<1>1. Inv /\ BudgetInv => TypeOK
  <2> SUFFICES ASSUME Inv, BudgetInv PROVE TypeOK
    OBVIOUS
  <2>1. \A r \in Request : run[r] \in RunState /\ rows[r] \in Rows
    BY DEF Inv, RunInv
  <2>2. run \in [Request -> RunState] /\ rows \in [Request -> Rows]
    BY <2>1, Zenon DEF Inv
  <2> QED BY <2>2, ConstantsAssumption DEF TypeOK, Inv, BudgetInv, RunState, Rows
<1> QED BY <1>1, Invariance, BudgetInvariance, PTL

\* No request makes more provider calls than max_total_attempts, and the policy
\* object that requests share is never changed: the rollover's raise of the
\* limit is dead code, because the loop only reaches it below the limit.
THEOREM AttemptsStayBounded == Spec => []AttemptsBounded
<1>1. Inv => AttemptsBounded
  BY Zenon DEF Inv, RunInv, RowInv, AttemptsBounded
<1> QED BY <1>1, Invariance, PTL

\* Every way out of the loop settles or releases the budget reservation, except
\* an attempt store that fails after the reservation was made.
THEOREM ReservationsFollowAttempts == Spec => []ReservationsInFlight
<1>1. Inv => ReservationsInFlight
  BY ZenonT(30) DEF Inv, Holds, ReservationsInFlight
<1> QED BY <1>1, Invariance, PTL

\* A provider call is preceded by its durable row, and a new row by the
\* completion of all earlier ones, also after a crash.
THEOREM RowsPrecedeCalls == Spec => []AttemptsWrittenAhead
<1>1. Inv => AttemptsWrittenAhead
  <2> SUFFICES ASSUME Inv, NEW r \in Request
               PROVE  /\ run[r].sent <= Len(rows[r])
                      /\ Len(rows[r]) <= run[r].sent + 1
                      /\ \A i \in 1 .. Len(rows[r]) - 1 : rows[r][i] = "finished"
    BY DEF AttemptsWrittenAhead
  <2>1. RowInv(run[r], rows[r]) /\ Len(rows[r]) \in Nat
    BY SMTT(30) DEF Inv, RunInv, Rows
  <2> QED BY <2>1, SMTT(30) DEF RowInv
<1> QED BY <1>1, Invariance, PTL

\* Between two rollovers the loop never goes back to an endpoint that it left
\* for another: A -> B -> A is refused by validate_next_candidate, which sees
\* every entry since the last rollover although a rollover drops some.
THEOREM LoopDoesNotReturn == Spec => []NoReturn
<1>1. TrailsInv => NoReturn
  BY Zenon DEF TrailsInv, TrailInv, PathInv, Trail, NoReturn
<1> QED BY <1>1, TrailsInvariance, PTL

\* Between two rollovers no endpoint gets more than max_attempts_same_endpoint
\* calls that count, whichever way the loop comes back to it: a retry, a clamp,
\* a shrunk window, a rotated key or the router.  A policy of 0 still makes the
\* first call, so the policy is at least 1.
THEOREM RetriesStayBounded ==
    ASSUME MaxSame >= 1
    PROVE  Spec => []RetriesBounded
<1>1. TrailsInv => RetriesBounded
  <2> SUFFICES ASSUME TrailsInv, NEW r \in Request, NEW e \in Endpoint, NEW n \in 0 .. MaxWaits
               PROVE  Cardinality(CallsOf(run[r].attempts, e, n)) <= MaxSame
    BY DEF RetriesBounded, CallsOf
  <2>1. n \in Nat
    BY ConstantsAssumption
  <2> QED BY <2>1, ZenonT(30) DEF TrailsInv, TrailInv, CallInv
<1> QED BY <1>1, TrailsInvariance, PTL

\* What a scope has spent and what its attempts under way have reserved exceed its
\* limit by no more than single turns cost beyond their estimates, however the
\* attempts interleave and whatever they cost: the reservation is checked and
\* made in one step, and a settlement gives back the estimate.
THEOREM BudgetHolds == Spec => []WithinBudget
<1>1. BudgetInv => WithinBudget
  BY DEF BudgetInv, WithinBudget, Reserved, Total
<1> QED BY <1>1, BudgetInvariance, PTL

\* Every step of the attempt loop uses up a rollover, an attempt, an endpoint or
\* a phase, none of which come back: no execution of the loop is infinite.
THEOREM LoopProgresses == Spec => Progress
<1>1. Inv /\ [Next]_vars => [\A r \in Request : run'[r] # run[r] => Nearer(run[r], run'[r])]_vars
  BY NextInv
<1> QED BY <1>1, Invariance, PTL DEF Spec, Progress

=============================================================================
