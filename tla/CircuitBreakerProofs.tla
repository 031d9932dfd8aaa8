------------------------- MODULE CircuitBreakerProofs -------------------------
(***************************************************************************)
(* Permit accounting, tripping and closing of one breaker, for any number  *)
(* of callers, any window and any thresholds.                              *)
(*                                                                         *)
(* Only acquire_permission and the two reports change what the properties  *)
(* speak of; the lemmas say what the functions they are built from leave.  *)
(***************************************************************************)
EXTENDS CircuitBreaker, FiniteSetTheorems, TLAPS

\* The counters of a breaker stay within half_open_max_calls.
Sound(b) == b \in Breaker /\ b.inFlight <= HalfOpenMax /\ b.successes < HalfOpenMax

Window == {w \in Seq(Outcomes) : Len(w) <= WindowSize}

\* _check_and_update_state keeps the counters in bounds, never touches a breaker
\* that is neither OPEN nor HALF_OPEN, and enters HALF_OPEN with no permit out.
LEMMA CheckedSound ==
    ASSUME NEW b, Sound(b)
    PROVE  /\ Sound(Checked(b))
           /\ b.state \notin {"OPEN", "HALF_OPEN"} => Checked(b) = b
           /\ b.state # "HALF_OPEN" /\ Checked(b).state = "HALF_OPEN" => Checked(b).inFlight = 0
           /\ b.state = "HALF_OPEN" /\ Checked(b).state = "HALF_OPEN" => Checked(b) = b
           /\ b.state # "CLOSED" => Checked(b).state # "CLOSED"
  <1> DEFINE half == [b EXCEPT !.state = "HALF_OPEN", !.overdue = FALSE, !.inFlight = 0,
                               !.successes = 0]
  <1>1. /\ b \in Breaker /\ HalfOpenMax \in Nat \ {0}
        /\ b.inFlight <= HalfOpenMax /\ b.successes < HalfOpenMax
    BY ConstantsAssumption DEF Sound
  <1>2. CASE b.state = "OPEN" /\ b.waited
    <2>1. Checked(b) = half
      BY <1>2 DEF Checked
    <2>2. /\ half \in Breaker /\ half.state = "HALF_OPEN"
          /\ half.inFlight = 0 /\ half.successes = 0
      BY <1>1, ZenonT(30) DEF Breaker, State
    <2> QED  BY <1>1, <1>2, <2>1, <2>2 DEF Sound
  <1>3. CASE b.state = "HALF_OPEN" /\ b.overdue /\ b.inFlight = 0
    <2>1. Checked(b) = Opened(b)
      BY <1>3 DEF Checked
    <2>2. /\ Opened(b) \in Breaker /\ Opened(b).state = "OPEN"
          /\ Opened(b).inFlight = b.inFlight /\ Opened(b).successes = b.successes
      BY <1>1, ZenonT(30) DEF Opened, Breaker, State
    <2> QED  BY <1>1, <1>3, <2>1, <2>2 DEF Sound
  <1>4. CASE /\ ~(b.state = "OPEN" /\ b.waited)
             /\ ~(b.state = "HALF_OPEN" /\ b.overdue /\ b.inFlight = 0)
    BY <1>4 DEF Checked
  <1> QED  BY <1>2, <1>3, <1>4

\* Taking a permit.
LEMMA AdmittedSound ==
    ASSUME NEW b, Sound(b), Admits(b)
    PROVE  /\ Sound(Admitted(b))
           /\ Admitted(b).state = b.state
           /\ b.state = "HALF_OPEN" => Admitted(b).inFlight = b.inFlight + 1
  BY ConstantsAssumption DEF Sound, Admits, Admitted, Breaker, State

\* The window takes an outcome and keeps its size, with that outcome last.
LEMMA RecordWindow ==
    ASSUME samples \in Window, NEW o \in Outcomes
    PROVE  /\ Record(o) \in Window
           /\ Record(o) # <<>>
           /\ Record(o)[Len(Record(o))] = o
  <1> DEFINE all == Append(samples, o)
  <1>1. /\ samples \in Seq(Outcomes) /\ Len(samples) \in Nat /\ WindowSize \in Nat \ {0}
        /\ Len(samples) <= WindowSize
    BY ConstantsAssumption DEF Window
  <1>2. /\ all \in Seq(Outcomes) /\ Len(all) = Len(samples) + 1 /\ all[Len(all)] = o
    BY <1>1
  <1>3. CASE Len(all) > WindowSize
    <2>1. /\ Record(o) = Tail(all) /\ Tail(all) \in Seq(Outcomes)
          /\ Len(Tail(all)) = Len(all) - 1
          /\ \A i \in 1 .. Len(Tail(all)) : Tail(all)[i] = all[i + 1]
      BY <1>1, <1>2, <1>3 DEF Record
    <2>2. /\ Len(Record(o)) = Len(samples) /\ Len(samples) > 0
          /\ Record(o)[Len(Record(o))] = all[Len(all)]
      BY <1>1, <1>2, <1>3, <2>1
    <2> QED  BY <1>1, <1>2, <2>1, <2>2 DEF Window
  <1>4. CASE ~(Len(all) > WindowSize)
    <2>1. Record(o) = all
      BY <1>4 DEF Record
    <2> QED  BY <1>1, <1>2, <1>4, <2>1 DEF Window
  <1> QED  BY <1>3, <1>4

\* A report in HALF_OPEN: it closes with an empty window, opens, or returns one
\* permit and stays.
LEMMA ProbeReportSound ==
    ASSUME NEW b, Sound(b), b.state = "HALF_OPEN", samples \in Window, NEW o \in Outcomes
    PROVE  /\ Sound(ProbeReport(b, o)[1])
           /\ ProbeReport(b, o)[2] \in Window
           /\ ProbeReport(b, o)[1].state = "CLOSED" => ProbeReport(b, o)[2] = <<>>
           /\ ProbeReport(b, o)[1].state = "HALF_OPEN" =>
                ProbeReport(b, o)[1].inFlight = IF b.inFlight = 0 THEN 0 ELSE b.inFlight - 1
  <1>1. /\ HalfOpenMax \in Nat \ {0} /\ <<>> \in Window
        /\ b \in Breaker /\ b.inFlight \in Nat /\ b.successes \in Nat
        /\ b.inFlight <= HalfOpenMax /\ b.successes < HalfOpenMax
    BY ConstantsAssumption DEF Window, Sound, Breaker
  <1>a. /\ Returned(b) \in Breaker /\ Returned(b).state = "HALF_OPEN"
        /\ Returned(b).inFlight = IF b.inFlight = 0 THEN 0 ELSE b.inFlight - 1
        /\ Returned(b).successes = b.successes
    BY <1>1 DEF Returned, Breaker, State
  <1>b. Opened(b) \in Breaker /\ Opened(b).state = "OPEN"
    BY <1>1, ZenonT(30) DEF Opened, Breaker, State
  <1>2. CASE o.result = "success"
    <2>1. ProbeReport(b, o) = <<ProbeSucceeded(b),
              IF ProbeSucceeded(b).state = "CLOSED" THEN <<>> ELSE samples>>
      BY <1>2 DEF ProbeReport
    <2>2. /\ Sound(ProbeSucceeded(b))
          /\ ProbeSucceeded(b).state = "HALF_OPEN" =>
                ProbeSucceeded(b).inFlight = IF b.inFlight = 0 THEN 0 ELSE b.inFlight - 1
      <3>1. CASE b.successes + 1 >= HalfOpenMax
        <4> DEFINE closed == [b EXCEPT !.state = "CLOSED", !.inFlight = 0, !.successes = 0]
        <4>1. /\ closed \in Breaker /\ closed.state = "CLOSED"
              /\ closed.inFlight = 0 /\ closed.successes = 0
          BY <1>1, ZenonT(30) DEF Breaker, State
        <4>2. ProbeSucceeded(b) = closed
          BY <3>1 DEF ProbeSucceeded
        <4> QED  BY <1>1, <4>1, <4>2 DEF Sound
      <3>2. CASE ~(b.successes + 1 >= HalfOpenMax)
        <4> DEFINE stays == [Returned(b) EXCEPT !.successes = @ + 1]
        <4>1. /\ stays \in Breaker /\ stays.state = "HALF_OPEN"
              /\ stays.inFlight = Returned(b).inFlight /\ stays.successes = b.successes + 1
          BY <1>1, <1>a DEF Breaker, State
        <4>2. ProbeSucceeded(b) = stays
          BY <3>2 DEF ProbeSucceeded
        <4> QED  BY <1>1, <1>a, <3>2, <4>1, <4>2 DEF Sound
      <3> QED  BY <3>1, <3>2
    <2> QED  BY <1>1, <2>1, <2>2
  <1>3. CASE o.result = "failure"
    <2>1. ProbeReport(b, o) = <<ProbeFailed(b), samples>>
      BY <1>3 DEF ProbeReport
    <2>2. Sound(ProbeFailed(b)) /\ ProbeFailed(b).state = "OPEN"
      <3>1. /\ ProbeFailed(b) \in Breaker /\ ProbeFailed(b).state = "OPEN"
            /\ ProbeFailed(b).inFlight = 0 /\ ProbeFailed(b).successes = 0
        BY <1>b, ZenonT(30) DEF ProbeFailed, Breaker, State
      <3> QED  BY <1>1, <3>1 DEF Sound
    <2>3. ProbeReport(b, o)[1] = ProbeFailed(b) /\ ProbeReport(b, o)[2] = samples
      BY <2>1
    <2> QED  BY <2>2, <2>3
  <1>4. CASE o.result = "benign"
    <2>1. ProbeReport(b, o) = <<Returned(b), samples>>
      BY <1>4 DEF ProbeReport
    <2>2. /\ Sound(Returned(b)) /\ Returned(b).state = "HALF_OPEN"
          /\ Returned(b).inFlight = IF b.inFlight = 0 THEN 0 ELSE b.inFlight - 1
      BY <1>1, <1>a DEF Sound
    <2>3. ProbeReport(b, o)[1] = Returned(b) /\ ProbeReport(b, o)[2] = samples
      BY <2>1
    <2> QED  BY <2>2, <2>3
  <1> QED  BY <1>2, <1>3, <1>4 DEF Outcomes

\* A report in another state: the outcome is recorded, and a CLOSED breaker that
\* stays CLOSED is below its thresholds unless the outcome was benign.
LEMMA WindowReportSound ==
    ASSUME NEW b, Sound(b), b.state # "HALF_OPEN", samples \in Window, NEW o \in Outcomes
    PROVE  /\ Sound(WindowReport(b, o)[1])
           /\ WindowReport(b, o)[2] = Record(o)
           /\ WindowReport(b, o)[1].state # "HALF_OPEN"
           /\ WindowReport(b, o)[1].state = "CLOSED" =>
                b.state = "CLOSED" /\ (o.result # "benign" => ~Breached(Record(o)))
  <1>1. Sound(Opened(b)) /\ Opened(b).state = "OPEN"
    BY ZenonT(30) DEF Sound, Opened, Breaker, State
  <1> QED  BY <1>1 DEF WindowReport

Inv == TypeOK /\ NoPhantomPermit /\ TripsWhenEvaluated

\* What the invariant says of the breaker and the window alone.
LEMMA Parts ==
    ASSUME TypeOK
    PROVE  Sound(breaker) /\ samples \in Window
  BY DEF TypeOK, Sound, Window

\* The calls in flight, as _check_and_update_state leaves them: none of them is
\* a probe of the half-open period that it starts.
LEMMA OutdatedCalls ==
    ASSUME TypeOK
    PROVE  /\ Outdated \in [Caller -> {"none", "probe", "other"}]
           /\ breaker.state = "HALF_OPEN" \/ Checked(breaker).state # "HALF_OPEN" => Outdated = call
  BY DEF TypeOK, Outdated

\* A breaker that is not asked for a probe leaves the accounting as it is, and
\* one caller that becomes a probe or stops being one changes it by one.
LEMMA ProbesCounted ==
    ASSUME NEW c \in Caller, call \in [Caller -> {"none", "probe", "other"}]
    PROVE  /\ Cardinality(Probes) \in Nat
           /\ Cardinality({d \in Caller : [call EXCEPT ![c] = "none"][d] = "probe"}) \in Nat
           /\ Cardinality(Probes)
                <= Cardinality({d \in Caller : [call EXCEPT ![c] = "none"][d] = "probe"})
                   + (IF call[c] = "probe" THEN 1 ELSE 0)
           /\ call[c] # "probe" =>
                /\ Cardinality({d \in Caller : [call EXCEPT ![c] = "probe"][d] = "probe"})
                     = Cardinality(Probes) + 1
                /\ {d \in Caller : [call EXCEPT ![c] = "other"][d] = "probe"} = Probes
  <1> DEFINE out == {d \in Caller : [call EXCEPT ![c] = "none"][d] = "probe"}
             more == {d \in Caller : [call EXCEPT ![c] = "probe"][d] = "probe"}
  <1>1. IsFiniteSet(Probes)
    BY ConstantsAssumption, FS_Subset DEF Probes
  <1>2. out = Probes \ {c} /\ more = Probes \cup {c}
    BY DEF Probes
  <1> HIDE DEF out, more
  <1>3. /\ Cardinality(Probes) \in Nat
        /\ Cardinality(Probes \ {c}) =
                IF c \in Probes THEN Cardinality(Probes) - 1 ELSE Cardinality(Probes)
        /\ Cardinality(Probes \cup {c}) =
                IF c \in Probes THEN Cardinality(Probes) ELSE Cardinality(Probes) + 1
    BY <1>1, FS_CardinalityType, FS_AddElement, FS_RemoveElement
  <1>4. c \in Probes <=> call[c] = "probe"
    BY DEF Probes
  <1>5. c \in Probes => Cardinality(Probes) # 0
    BY <1>1, FS_EmptySet
  <1>6. Cardinality(out) \in Nat /\ Cardinality(Probes)
            <= Cardinality(out) + (IF call[c] = "probe" THEN 1 ELSE 0)
    <2>1. CASE c \in Probes
      BY <1>2, <1>3, <1>4, <1>5, <2>1
    <2>2. CASE c \notin Probes
      BY <1>2, <1>3, <1>4, <2>2
    <2> QED  BY <2>1, <2>2
  <1>7. call[c] # "probe" => Cardinality(more) = Cardinality(Probes) + 1
    BY <1>2, <1>3, <1>4
  <1>8. call[c] # "probe" => {d \in Caller : [call EXCEPT ![c] = "other"][d] = "probe"} = Probes
    BY DEF Probes
  <1> QED  BY <1>3, <1>6, <1>7, <1>8 DEF out, more

-----------------------------------------------------------------------------

\* What every step is shown to do: it keeps the invariant, and closes only with
\* an empty window.
Kept ==
    /\ Inv'
    /\ breaker.state # "CLOSED" /\ breaker'.state = "CLOSED" => samples' = <<>>

\* _check_and_update_state alone: an observation, or a request that is refused.
LEMMA CheckKeeps ==
    ASSUME Inv, Becomes(Checked(breaker), Outdated), samples' = samples
    PROVE  Kept
  <1> DEFINE b == Checked(breaker)
  <1>1. /\ TypeOK /\ Sound(breaker) /\ samples \in Window
        /\ call \in [Caller -> {"none", "probe", "other"}] /\ dropped \in Nat
    BY Parts DEF Inv, TypeOK
  <1>2. /\ Sound(b)
        /\ breaker.state # "HALF_OPEN" /\ b.state = "HALF_OPEN" => b.inFlight = 0
        /\ breaker.state = "HALF_OPEN" /\ b.state = "HALF_OPEN" => b = breaker
        /\ breaker.state # "CLOSED" => b.state # "CLOSED"
    BY <1>1, CheckedSound
  <1>3. /\ Outdated \in [Caller -> {"none", "probe", "other"}]
        /\ breaker.state = "HALF_OPEN" \/ b.state # "HALF_OPEN" => Outdated = call
    BY <1>1, OutdatedCalls
  <1>4. /\ breaker' = b /\ call' = Outdated
        /\ dropped' = IF breaker.state # "HALF_OPEN" /\ b.state = "HALF_OPEN"
                       THEN 0 ELSE dropped
    BY DEF Becomes
  <1>5. TypeOK'
    BY <1>1, <1>2, <1>3, <1>4 DEF TypeOK, Sound
  <1>6. NoPhantomPermit'
    <2>1. CASE breaker.state = "HALF_OPEN" /\ b.state = "HALF_OPEN"
      <3>1. breaker' = breaker /\ call' = call /\ dropped' = dropped
        BY <1>2, <1>3, <1>4, <2>1
      <3> QED  BY <3>1 DEF Inv, NoPhantomPermit, Probes
    <2>2. CASE breaker.state # "HALF_OPEN" /\ b.state = "HALF_OPEN"
      <3>1. breaker'.inFlight = 0 /\ dropped' = 0
        BY <1>2, <1>4, <2>2
      <3>2. Cardinality(Probes') \in Nat
        BY ConstantsAssumption, FS_Subset, FS_CardinalityType DEF Probes
      <3> QED  BY <3>1, <3>2 DEF NoPhantomPermit
    <2>3. CASE b.state # "HALF_OPEN"
      BY <1>4, <2>3 DEF NoPhantomPermit
    <2> QED  BY <2>1, <2>2, <2>3
  <1> QED  BY <1>2, <1>4, <1>5, <1>6 DEF Kept, Inv, TripsWhenEvaluated

\* acquire_permission keeps the accounting: an admitted probe is counted once.
LEMMA AcquireKeeps ==
    ASSUME Inv, NEW c \in Caller, Acquire(c)
    PROVE  Kept
  <1> DEFINE b == Checked(breaker)
             calls == [Outdated EXCEPT ![c] = IF b.state = "HALF_OPEN" THEN "probe" ELSE "other"]
  <1>1. /\ TypeOK /\ Sound(breaker) /\ samples \in Window
        /\ call \in [Caller -> {"none", "probe", "other"}] /\ dropped \in Nat
    BY Parts DEF Inv, TypeOK
  <1>2. /\ Sound(b)
        /\ breaker.state # "HALF_OPEN" /\ b.state = "HALF_OPEN" => b.inFlight = 0
        /\ breaker.state = "HALF_OPEN" /\ b.state = "HALF_OPEN" => b = breaker
        /\ breaker.state # "CLOSED" => b.state # "CLOSED"
    BY <1>1, CheckedSound
  <1>3. /\ Outdated \in [Caller -> {"none", "probe", "other"}]
        /\ breaker.state = "HALF_OPEN" \/ b.state # "HALF_OPEN" => Outdated = call
    BY <1>1, OutdatedCalls
  <1>4. call[c] = "none" /\ samples' = samples
    BY DEF Acquire
  <1>5. CASE Admits(b)
    <2>1. /\ breaker' = Admitted(b) /\ call' = calls
          /\ dropped' = IF breaker.state # "HALF_OPEN" /\ Admitted(b).state = "HALF_OPEN"
                         THEN 0 ELSE dropped
      BY <1>5 DEF Acquire, Becomes
    <2>2. /\ Sound(breaker') /\ breaker'.state = b.state
          /\ b.state = "HALF_OPEN" => breaker'.inFlight = b.inFlight + 1
      BY <1>2, <1>5, <2>1, AdmittedSound
    <2>3. call' \in [Caller -> {"none", "probe", "other"}] /\ dropped' \in Nat
      BY <1>1, <1>3, <2>1
    <2>4. TypeOK'
      BY <1>1, <1>4, <2>2, <2>3 DEF TypeOK, Sound, Window
    <2>5. ASSUME breaker'.state = "HALF_OPEN"
          PROVE  breaker'.inFlight <= Cardinality(Probes') + dropped'
      <3>1. b.state = "HALF_OPEN" /\ call' = [Outdated EXCEPT ![c] = "probe"]
        BY <2>1, <2>2, <2>5
      <3>2. CASE breaker.state = "HALF_OPEN"
        <4>1. call' = [call EXCEPT ![c] = "probe"] /\ dropped' = dropped /\ b = breaker
          BY <1>2, <1>3, <2>1, <3>1, <3>2
        <4>2. Cardinality(Probes') = Cardinality(Probes) + 1 /\ Cardinality(Probes) \in Nat
          BY <1>1, <1>4, <4>1, ProbesCounted, ZenonT(30) DEF Probes
        <4>3. breaker.inFlight <= Cardinality(Probes) + dropped /\ breaker.inFlight \in Nat
          BY <1>1, <3>2 DEF Inv, NoPhantomPermit, Sound, Breaker
        <4> QED  BY <1>1, <2>2, <3>1, <4>1, <4>2, <4>3
      <3>3. CASE breaker.state # "HALF_OPEN"
        <4>1. breaker'.inFlight = 1 /\ dropped' = 0
          BY <1>2, <2>1, <2>2, <3>1, <3>3
        <4>2. c \in Probes' /\ IsFiniteSet(Probes')
          BY <1>3, <3>1, ConstantsAssumption, FS_Subset DEF Probes
        <4>3. Cardinality(Probes') \in Nat /\ Cardinality(Probes') # 0
          BY <4>2, FS_CardinalityType, FS_EmptySet
        <4> QED  BY <4>1, <4>3
      <3> QED  BY <3>2, <3>3
    <2>6. NoPhantomPermit'
      BY <2>5 DEF NoPhantomPermit
    <2> QED  BY <1>2, <1>4, <2>2, <2>4, <2>6 DEF Kept, Inv, TripsWhenEvaluated
  <1>6. CASE ~Admits(b)
    <2>1. Becomes(Checked(breaker), Outdated)
      BY <1>6 DEF Acquire
    <2> QED  BY <1>4, <2>1, CheckKeeps
  <1> QED  BY <1>5, <1>6

\* record_success and record_failure keep it: a report returns at most the one
\* permit that its own call took, and evaluates the window it leaves.
LEMMA ReportKeeps ==
    ASSUME Inv, NEW c \in Caller, NEW o \in Outcome, Report(c, o)
    PROVE  Kept
  <1> DEFINE b == Checked(breaker)
             r == IF b.state = "HALF_OPEN" THEN ProbeReport(b, o) ELSE WindowReport(b, o)
  <1>1. /\ TypeOK /\ Sound(breaker) /\ samples \in Window
        /\ call \in [Caller -> {"none", "probe", "other"}] /\ dropped \in Nat
        /\ o \in Outcomes
    BY Parts, ConstantsAssumption DEF Inv, TypeOK
  <1>2. /\ Sound(b)
        /\ breaker.state # "HALF_OPEN" /\ b.state = "HALF_OPEN" => b.inFlight = 0
        /\ breaker.state = "HALF_OPEN" /\ b.state = "HALF_OPEN" => b = breaker
        /\ breaker.state # "CLOSED" => b.state # "CLOSED"
    BY <1>1, CheckedSound
  <1>3. /\ Outdated \in [Caller -> {"none", "probe", "other"}]
        /\ breaker.state = "HALF_OPEN" \/ b.state # "HALF_OPEN" => Outdated = call
    BY <1>1, OutdatedCalls
  <1>4. /\ breaker' = r[1] /\ samples' = r[2] /\ call' = [Outdated EXCEPT ![c] = "none"]
        /\ dropped' = IF breaker.state # "HALF_OPEN" /\ r[1].state = "HALF_OPEN"
                       THEN 0 ELSE dropped
    BY DEF Report, Becomes
  <1> HIDE DEF b
  <1>5. call' \in [Caller -> {"none", "probe", "other"}] /\ dropped' \in Nat
    BY <1>1, <1>3, <1>4
  <1>6. Cardinality(Probes') \in Nat
    BY ConstantsAssumption, FS_Subset, FS_CardinalityType DEF Probes
  <1>7. CASE b.state = "HALF_OPEN"
    <2>1. breaker' = ProbeReport(b, o)[1] /\ samples' = ProbeReport(b, o)[2]
      BY <1>4, <1>7
    <2>2. /\ Sound(breaker') /\ samples' \in Window
          /\ breaker'.state = "CLOSED" => samples' = <<>>
          /\ breaker'.state = "HALF_OPEN" =>
                breaker'.inFlight = IF b.inFlight = 0 THEN 0 ELSE b.inFlight - 1
      BY <1>1, <1>2, <1>7, <2>1, ProbeReportSound
    <2>3. TypeOK'
      BY <1>5, <2>2 DEF TypeOK, Sound, Window
    <2>4. ASSUME breaker'.state = "HALF_OPEN"
          PROVE  breaker'.inFlight <= Cardinality(Probes') + dropped'
      <3>1. CASE breaker.state = "HALF_OPEN"
        <4>1. call' = [call EXCEPT ![c] = "none"] /\ dropped' = dropped /\ b = breaker
          BY <1>2, <1>3, <1>4, <1>7, <3>1
        <4>2. /\ Cardinality(Probes) \in Nat
              /\ Cardinality(Probes) <= Cardinality(Probes') + 1
          <5>1. /\ Cardinality(Probes) \in Nat
                /\ Cardinality(Probes)
                     <= Cardinality(Probes') + (IF call[c] = "probe" THEN 1 ELSE 0)
            BY <1>1, <4>1, ProbesCounted, ZenonT(30) DEF Probes
          <5> QED  BY <1>6, <5>1
        <4>3. breaker.inFlight <= Cardinality(Probes) + dropped /\ breaker.inFlight \in Nat
          BY <1>1, <3>1 DEF Inv, NoPhantomPermit, Sound, Breaker
        <4> QED  BY <1>1, <1>6, <2>2, <2>4, <4>1, <4>2, <4>3
      <3>2. CASE breaker.state # "HALF_OPEN"
        <4>1. breaker'.inFlight = 0
          BY <1>2, <1>7, <2>2, <2>4, <3>2
        <4> QED  BY <1>5, <1>6, <4>1
      <3> QED  BY <3>1, <3>2
    <2>5. NoPhantomPermit'
      BY <2>4 DEF NoPhantomPermit
    <2>6. TripsWhenEvaluated'
      BY <2>2 DEF TripsWhenEvaluated
    <2> QED  BY <2>2, <2>3, <2>5, <2>6 DEF Kept, Inv
  <1>8. CASE b.state # "HALF_OPEN"
    <2>1. breaker' = WindowReport(b, o)[1] /\ samples' = WindowReport(b, o)[2]
      BY <1>4, <1>8
    <2>2. /\ Sound(breaker') /\ samples' = Record(o) /\ breaker'.state # "HALF_OPEN"
          /\ breaker'.state = "CLOSED" =>
                b.state = "CLOSED" /\ (o.result # "benign" => ~Breached(Record(o)))
      BY <1>1, <1>2, <1>8, <2>1, WindowReportSound
    <2>3. Record(o) \in Window /\ Record(o)[Len(Record(o))] = o
      BY <1>1, RecordWindow
    <2>4. TypeOK'
      BY <1>5, <2>2, <2>3 DEF TypeOK, Sound, Window
    <2>5. NoPhantomPermit'
      BY <2>2 DEF NoPhantomPermit
    <2>6. TripsWhenEvaluated'
      BY <2>2, <2>3 DEF TripsWhenEvaluated
    <2> QED  BY <1>2, <2>2, <2>4, <2>5, <2>6 DEF Kept, Inv
  <1> QED  BY <1>7, <1>8

\* A permit that the executor drops stays counted, among the dropped ones.
LEMMA AbandonKeeps ==
    ASSUME Inv, NEW c \in Caller, Abandon(c)
    PROVE  Kept
  <1>1. /\ call \in [Caller -> {"none", "probe", "other"}] /\ dropped \in Nat
        /\ breaker \in Breaker /\ breaker.inFlight \in Nat
    BY DEF Inv, TypeOK, Breaker
  <1>2. /\ call' = [call EXCEPT ![c] = "none"] /\ breaker' = breaker /\ samples' = samples
        /\ dropped' = IF call[c] = "probe" /\ breaker.state = "HALF_OPEN"
                       THEN dropped + 1 ELSE dropped
    BY DEF Abandon
  <1>3. TypeOK'
    BY <1>1, <1>2 DEF Inv, TypeOK
  <1>4. /\ Cardinality(Probes) \in Nat /\ Cardinality(Probes') \in Nat
        /\ Cardinality(Probes)
             <= Cardinality(Probes') + (IF call[c] = "probe" THEN 1 ELSE 0)
    BY <1>1, <1>2, ProbesCounted, ZenonT(30) DEF Probes
  <1>5. NoPhantomPermit'
    BY <1>1, <1>2, <1>4 DEF Inv, NoPhantomPermit
  <1> QED  BY <1>2, <1>3, <1>5 DEF Kept, Inv, TripsWhenEvaluated

\* The operator's commands leave HALF_OPEN, and those that close the breaker
\* empty its window.
LEMMA AdministrationKeeps ==
    ASSUME Inv, ForceOpen \/ ForceClosed \/ Disable \/ Reset
    PROVE  Kept
  <1>1. /\ Sound(breaker) /\ samples \in Window /\ <<>> \in Window
        /\ call \in [Caller -> {"none", "probe", "other"}] /\ dropped \in Nat
        /\ HalfOpenMax \in Nat \ {0}
    BY Parts, ConstantsAssumption DEF Inv, TypeOK, Window
  <1>2. /\ Sound(breaker') /\ breaker'.state \in {"FORCED_OPEN", "DISABLED", "CLOSED"}
        /\ breaker'.state = "CLOSED" => samples' = <<>>
        /\ samples' \in Window /\ call' = call /\ dropped' = dropped
    <2>1. CASE ForceOpen
      BY <1>1, <2>1 DEF ForceOpen, Becomes, Sound, Breaker, State
    <2>2. CASE ForceClosed
      BY <1>1, <2>2 DEF ForceClosed, Becomes, Sound, Breaker, State
    <2>3. CASE Disable
      BY <1>1, <2>3 DEF Disable, Becomes, Sound, Breaker, State
    <2>4. CASE Reset
      <3> DEFINE fresh == [breaker EXCEPT !.state = "CLOSED", !.inFlight = 0, !.successes = 0]
      <3>1. /\ fresh \in Breaker /\ fresh.state = "CLOSED"
            /\ fresh.inFlight = 0 /\ fresh.successes = 0
        BY <1>1, ZenonT(30) DEF Sound, Breaker, State
      <3>2. breaker' = fresh /\ samples' = <<>> /\ call' = call /\ dropped' = dropped
        BY <2>4, <3>1 DEF Reset, Becomes
      <3> QED  BY <1>1, <3>1, <3>2 DEF Sound
    <2> QED  BY <2>1, <2>2, <2>3, <2>4
  <1>3. TypeOK'
    BY <1>1, <1>2 DEF TypeOK, Sound, Window
  <1> QED  BY <1>2, <1>3 DEF Kept, Inv, NoPhantomPermit, TripsWhenEvaluated

\* A timer that runs out changes nothing but its flag.
LEMMA TimeKeeps ==
    ASSUME Inv, WaitElapses \/ ProbeTimeElapses
    PROVE  Kept
  <1>1. /\ breaker' \in Breaker /\ breaker'.state = breaker.state
        /\ breaker'.inFlight = breaker.inFlight /\ breaker'.successes = breaker.successes
        /\ samples' = samples /\ call' = call /\ dropped' = dropped
    BY ZenonT(30) DEF Inv, TypeOK, WaitElapses, ProbeTimeElapses, Breaker
  <1> QED  BY <1>1 DEF Kept, Inv, TypeOK, NoPhantomPermit, TripsWhenEvaluated, Probes

-----------------------------------------------------------------------------

LEMMA InitInv ==
    ASSUME Init
    PROVE  Inv
  <1>1. TypeOK
    BY ConstantsAssumption DEF Init, TypeOK, Breaker, State
  <1> QED  BY <1>1 DEF Init, Inv, NoPhantomPermit, TripsWhenEvaluated

LEMMA StepKeeps ==
    ASSUME Inv, [Next]_vars
    PROVE  Inv' /\ [breaker.state # "CLOSED" /\ breaker'.state = "CLOSED" => samples' = <<>>]_vars
  <1>1. CASE \E c \in Caller : Acquire(c)
    BY <1>1, AcquireKeeps DEF Kept
  <1>2. CASE \E c \in Caller : Abandon(c)
    BY <1>2, AbandonKeeps DEF Kept
  <1>3. CASE \E c \in Caller, o \in Outcome : Report(c, o)
    BY <1>3, ReportKeeps DEF Kept
  <1>4. CASE Observe
    BY <1>4, CheckKeeps DEF Kept, Observe
  <1>5. CASE ForceOpen \/ ForceClosed \/ Disable \/ Reset
    BY <1>5, AdministrationKeeps DEF Kept
  <1>6. CASE WaitElapses \/ ProbeTimeElapses
    BY <1>6, TimeKeeps DEF Kept
  <1>7. CASE UNCHANGED vars
    BY <1>7 DEF vars, Inv, TypeOK, NoPhantomPermit, TripsWhenEvaluated, Probes
  <1> QED  BY <1>1, <1>2, <1>3, <1>4, <1>5, <1>6, <1>7 DEF Next, Finish

LEMMA InvHolds == Spec => []Inv
  <1>1. Init => Inv
    BY InitInv
  <1>2. Inv /\ [Next]_vars => Inv'
    BY StepKeeps
  <1> QED  BY <1>1, <1>2, PTL DEF Spec

\* The counters and the window of a breaker stay within half_open_max_calls and
\* sliding_window_size, for any number of callers.
THEOREM BreakerTypes == Spec => []TypeOK
  BY InvHolds, PTL DEF Inv

\* In HALF_OPEN no permit is counted that no probe took, for any number of
\* callers and whatever calls of an earlier period report meanwhile.
THEOREM PermitsAccounted == Spec => []NoPhantomPermit
  BY InvHolds, PTL DEF Inv

\* A CLOSED breaker whose last outcome counted is below both thresholds, for any
\* thresholds, window size and minimum number of calls.
THEOREM TripsAtThreshold == Spec => []TripsWhenEvaluated
  BY InvHolds, PTL DEF Inv

\* A breaker that becomes CLOSED does so with an empty window, by a probe or by
\* an operator.
THEOREM RecoversClean == Spec => ClosesWithEmptyWindow
  <1>1. Inv /\ [Next]_vars =>
          [breaker.state # "CLOSED" /\ breaker'.state = "CLOSED" => samples' = <<>>]_vars
    BY StepKeeps
  <1> QED  BY InvHolds, <1>1, PTL DEF Spec, ClosesWithEmptyWindow

=============================================================================
