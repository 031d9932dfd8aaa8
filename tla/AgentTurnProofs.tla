---------------------------- MODULE AgentTurnProofs -----------------------------
(***************************************************************************)
(* What one turn of an agent guarantees whatever the conversation, the     *)
(* models and their limits are: verdicts are fair, refusals for the size   *)
(* are few, clamps of the output last, the oldest messages are the first   *)
(* to go, and calls that are delivered conform.                            *)
(*                                                                         *)
(* AgentTurnLemmas has what the operators of the classifier, the validator *)
(* and the context manager do.  Here they are put to use: one section for  *)
(* each inductive invariant.                                               *)
(***************************************************************************)
EXTENDS AgentTurn, AgentTurnLemmas

-----------------------------------------------------------------------------
(* Budgets do not change while request and window do not                   *)

LEMMA AvailableKept ==
    ASSUME UNCHANGED <<request, window>>
    PROVE  /\ \A e : sent'.to = e => Available(sent.to)' = Available(e)
           /\ sent' = sent => Available(sent.to)' = Available(sent.to)
BY DEF Available, Desired, Margin

-----------------------------------------------------------------------------
(* Failures and the books they leave                                       *)

\* The causes that count in a breaker's window, and those for which an endpoint
\* is given up.
Counting == {"rate", "unpaid", "blocked", "outage", "garbled"}
Final == {"gone", "unpaid", "credentials", "blocked"}

\* A verdict is in keeping with the cause.
Justified(cause, verdict) ==
    /\ verdict.poisons => cause \in Counting
    /\ verdict.permanent => cause \in Final

\* An output cap that was named is below what was asked for, and only a refusal
\* for the size counts as one.
Measured(e, cause, verdict, limit, cap) ==
    /\ limit \in Nat /\ cap \in Nat
    /\ cap # 0 => cap < sent.out
    /\ \/ refused' = refused
       \/ refused' = [refused EXCEPT ![e] = @ + 1] /\ verdict.reason = "payload_too_large"
            /\ verdict.retryable = FALSE

Failing(e, cause, verdict, limit, cap) ==
    /\ Reached(e)
    /\ Fail(e, cause, verdict, limit, cap)
    /\ Justified(cause, verdict)
    /\ Measured(e, cause, verdict, limit, cap)

LEMMA RefusalIsJustified ==
    ASSUME NEW cause \in Mishaps, NEW r \in Refusals(cause)
    PROVE  Justified(cause, classify_failure(r.code, r.text))
<1> DEFINE v == classify_failure(r.code, r.text)
<1>1. CASE cause = "rate"
  <2>1. \E reason : v = Verdict(reason, TRUE, TRUE, FALSE)
    BY <1>1, VerdictsByCause, Zenon
  <2> HIDE DEF v
  <2>2. v.permanent = FALSE
    BY <2>1 DEF Verdict
  <2> QED BY <1>1, <2>2 DEF Justified, Counting, v
<1>2. CASE cause = "daily"
  <2>1. v = Verdict("billing", FALSE, FALSE, FALSE)
    BY <1>2, VerdictsByCause, Zenon
  <2> HIDE DEF v
  <2>2. v.permanent = FALSE /\ v.poisons = FALSE
    BY <2>1 DEF Verdict
  <2> QED BY <2>2 DEF Justified, v
<1>3. CASE cause = "gone"
  <2>1. v = Verdict("model_not_found", FALSE, FALSE, TRUE)
    BY <1>3, VerdictsByCause, Zenon
  <2> HIDE DEF v
  <2>2. v.poisons = FALSE
    BY <2>1 DEF Verdict
  <2> QED BY <1>3, <2>2 DEF Justified, Final, v
<1>4. CASE cause = "credentials"
  <2>1. \E forGood : v = Verdict("auth", FALSE, FALSE, forGood)
    BY <1>4, VerdictsByCause, Zenon
  <2> HIDE DEF v
  <2>2. v.poisons = FALSE
    BY <2>1 DEF Verdict
  <2> QED BY <1>4, <2>2 DEF Justified, Final, v
<1>5. CASE cause = "badRequest"
  <2>1. \E reason : v = Verdict(reason, FALSE, FALSE, FALSE)
    BY <1>5, VerdictsByCause, Zenon
  <2> HIDE DEF v
  <2>2. v.permanent = FALSE /\ v.poisons = FALSE
    BY <2>1 DEF Verdict
  <2> QED BY <2>2 DEF Justified, v
<1>6. CASE cause = "outage"
  <2>1. \E reason, again : v = Verdict(reason, again, TRUE, FALSE)
    BY <1>6, VerdictsByCause, Zenon
  <2> HIDE DEF v
  <2>2. v.permanent = FALSE
    BY <2>1 DEF Verdict
  <2> QED BY <1>6, <2>2 DEF Justified, Counting, v
<1>7. CASE cause \in {"unpaid", "blocked"}
  BY <1>7 DEF Justified, Counting, Final
<1> QED BY <1>1, <1>2, <1>3, <1>4, <1>5, <1>6, <1>7, ZenonT(30) DEF Mishaps

\* The steps that end an attempt without an answer.
Fails(e) ==
    TooLarge(e) \/ OverCap(e) \/ Refuses(e) \/ Garbles(e) \/ Rejected(e) \/ Unreadably(e)

LEMMA GarbledIsJustified ==
    ASSUME NEW text \in {{"empty"}, {}}
    PROVE  Justified(IF text = {} THEN "garbled" ELSE "emptyBody", classify_failure(502, text))
<1> DEFINE v == classify_failure(502, text)
<1>1. CASE text = {"empty"}
  <2>1. v = Verdict("empty_completion", TRUE, FALSE, FALSE)
    BY <1>1, VerdictsByCause, ZenonT(30)
  <2> HIDE DEF v
  <2>2. v.permanent = FALSE /\ v.poisons = FALSE
    BY <2>1 DEF Verdict
  <2> QED BY <2>2 DEF Justified, v
<1>2. CASE text = {}
  <2>1. \E reason : v = Verdict(reason, TRUE, TRUE, FALSE)
    BY <1>2, VerdictsByCause, ZenonT(30)
  <2> HIDE DEF v
  <2>2. v.permanent = FALSE
    BY <2>1 DEF Verdict
  <2> QED BY <1>2, <2>2 DEF Justified, Counting, v
<1> QED BY <1>1, <1>2, Zenon

LEMMA FailureKinds ==
    ASSUME NEW e \in Endpoint, Fails(e)
    PROVE  \E cause, verdict, limit, cap : Failing(e, cause, verdict, limit, cap)
<1>1. CASE TooLarge(e)
  <2> DEFINE Limit(r) == IF "named" \in r.text THEN Holds[e] ELSE 0
  <2>1. PICK r \in Refusals("tooLarge") :
            /\ Reached(e) /\ Fail(e, "tooLarge", classify_failure(r.code, r.text), Limit(r), 0)
            /\ refused' = [refused EXCEPT ![e] = @ + 1]
    BY <1>1, Zenon DEF TooLarge
  <2> DEFINE v == classify_failure(r.code, r.text)
             limit == Limit(r)
  <2>2. v = Verdict("payload_too_large", FALSE, FALSE, FALSE)
    BY VerdictsByCause, Zenon
  <2>3. Fail(e, "tooLarge", v, limit, 0)
    BY <2>1
  <2>4. limit \in Nat
    BY AgentTurnAssumption
  <2> HIDE DEF v, limit
  <2>5. v.poisons = FALSE /\ v.permanent = FALSE
    BY <2>2 DEF Verdict
  <2>6. Justified("tooLarge", v)
    BY <2>5 DEF Justified
  <2>7. v.reason = "payload_too_large" /\ v.retryable = FALSE
    BY <2>2 DEF Verdict
  <2>8. Measured(e, "tooLarge", v, limit, 0)
    BY <2>1, <2>4, <2>7 DEF Measured
  <2> QED BY <2>1, <2>3, <2>6, <2>8, Zenon DEF Failing
<1>2. CASE OverCap(e)
  <2>1. PICK r \in Refusals("outputCap"), cap \in {0, OutputCap[e]} :
            /\ Reached(e) /\ "outputCap" \in LimitHit(e)
            /\ Fail(e, "outputCap", classify_failure(r.code, r.text), 0, cap)
            /\ refused' = refused
    BY <1>2 DEF OverCap
  <2> DEFINE v == classify_failure(r.code, r.text)
  <2>2. v = Verdict("output_cap_exceeded", TRUE, FALSE, FALSE)
    BY VerdictsByCause, Zenon
  <2>3. Fail(e, "outputCap", v, 0, cap)
    BY <2>1
  <2> HIDE DEF v
  <2>4. v.poisons = FALSE /\ v.permanent = FALSE
    BY <2>2 DEF Verdict
  <2>5. Justified("outputCap", v)
    BY <2>4 DEF Justified
  <2>6. cap \in Nat /\ OutputCap[e] \in Nat
    BY <2>1, AgentTurnAssumption
  <2>7. sent.out > OutputCap[e]
    BY <2>1 DEF LimitHit
  <2>8. Measured(e, "outputCap", v, 0, cap)
    BY <2>1, <2>6, <2>7 DEF Measured
  <2> QED BY <2>1, <2>3, <2>5, <2>8, Zenon DEF Failing
<1>3. CASE Refuses(e)
  <2>1. PICK cause \in Mishaps : \E r \in Refusals(cause) :
            /\ Reached(e) /\ Fail(e, cause, classify_failure(r.code, r.text), 0, 0)
            /\ refused' = refused
    BY <1>3 DEF Refuses, Mishap
  <2>2. PICK r \in Refusals(cause) :
            /\ Reached(e) /\ Fail(e, cause, classify_failure(r.code, r.text), 0, 0)
            /\ refused' = refused
    BY <2>1
  <2>3. Justified(cause, classify_failure(r.code, r.text))
    BY RefusalIsJustified
  <2>4. Measured(e, cause, classify_failure(r.code, r.text), 0, 0)
    BY <2>2 DEF Measured
  <2> QED BY <2>2, <2>3, <2>4, Zenon DEF Failing
<1>4. CASE Garbles(e)
  <2>1. PICK text \in {{"empty"}, {}} :
            /\ Mishap(e)
            /\ Fail(e, IF text = {} THEN "garbled" ELSE "emptyBody", classify_failure(502, text),
                    0, 0)
    BY <1>4, ZenonT(30) DEF Garbles
  <2> DEFINE cause == IF text = {} THEN "garbled" ELSE "emptyBody"
  <2>2. Fail(e, cause, classify_failure(502, text), 0, 0) /\ Reached(e) /\ refused' = refused
    BY <2>1, ZenonT(30) DEF Mishap
  <2>3. Justified(cause, classify_failure(502, text))
    BY GarbledIsJustified, ZenonT(30)
  <2> HIDE DEF cause
  <2>4. Measured(e, cause, classify_failure(502, text), 0, 0)
    BY <2>2 DEF Measured
  <2> QED BY <2>2, <2>3, <2>4, ZenonT(30) DEF Failing
<1>5. CASE Rejected(e)
  <2>1. PICK reason : /\ Reached(e) /\ refused' = refused
                      /\ Fail(e, "badAnswer", Verdict(reason, FALSE, FALSE, FALSE), 0, 0)
    BY <1>5, Zenon DEF Rejected, Mishap
  <2>2. Justified("badAnswer", Verdict(reason, FALSE, FALSE, FALSE))
    BY DEF Justified, Verdict
  <2>3. Measured(e, "badAnswer", Verdict(reason, FALSE, FALSE, FALSE), 0, 0)
    BY <2>1 DEF Measured
  <2> QED BY <2>1, <2>2, <2>3, Zenon DEF Failing
<1>6. CASE Unreadably(e)
  <2>1. /\ Reached(e) /\ Fail(e, "garbled", classify_failure(502, {}), 0, 0)
        /\ refused' = refused
    BY <1>6, Zenon DEF Unreadably, Mishap
  <2>2. Justified("garbled", classify_failure(502, {}))
    BY GarbledIsJustified, ZenonT(30)
  <2>3. Measured(e, "garbled", classify_failure(502, {}), 0, 0)
    BY <2>1 DEF Measured
  <2> QED BY <2>1, <2>2, <2>3, Zenon DEF Failing
<1> QED BY <1>1, <1>2, <1>3, <1>4, <1>5, <1>6, ZenonT(30) DEF Fails

\* The steps that end the turn, or leave it at its end.
Quietly == UNCHANGED <<loop, sent, history>> /\ (pc' = pc \/ pc' \in {"done", "failed"})

LEMMA StepKinds ==
    ASSUME [Next]_vars
    PROVE  \/ \E e \in Endpoint : Try(e)
           \/ \E e \in Endpoint : \E cause, verdict, limit, cap :
                    Failing(e, cause, verdict, limit, cap)
           \/ Rollover
           \/ Quietly
<1>1. CASE UNCHANGED vars
  BY <1>1 DEF vars, Quietly
<1>2. CASE GiveUp
  BY <1>2 DEF GiveUp, Quietly
<1>3. CASE Over
  BY <1>3 DEF Over, vars, Quietly
<1>4. ASSUME NEW e \in Endpoint, Answered(e)
      PROVE  Quietly
  BY <1>4 DEF Answered, Quietly
<1>5. ASSUME NEW e \in Endpoint, Fails(e)
      PROVE  \E cause, verdict, limit, cap : Failing(e, cause, verdict, limit, cap)
  BY <1>5, FailureKinds
<1> QED BY <1>1, <1>2, <1>3, <1>4, <1>5, ZenonT(30) DEF Next, Fails

LEMMA TryMoves ==
    ASSUME NEW e \in Endpoint, Try(e)
    PROVE  /\ pc = "select" /\ e \notin dead /\ excluded[e] = 0
           /\ UNCHANGED <<request, waits, window, dead, history>>
           /\ \/ pc' = "select" /\ sent' = sent /\ Exclude(e, 1)
              \/ pc' = "sent" /\ sent'.to = e /\ excluded' = excluded
<1>1. pc = "select" /\ e \notin dead /\ excluded[e] = 0
  BY DEF Try, Eligible
<1>2. CASE Pass(e)
  BY <1>1, <1>2 DEF Pass
<1>3. ASSUME NEW adapted, Send(e, adapted)
      PROVE  /\ pc' = "sent" /\ sent'.to = e
             /\ UNCHANGED <<request, waits, excluded, window, dead, history>>
  BY <1>3, Zenon DEF Send
<1> QED BY <1>1, <1>2, <1>3 DEF Try

LEMMA FailMoves ==
    ASSUME NEW e, NEW cause, NEW verdict, NEW limit, NEW cap, Failing(e, cause, verdict, limit, cap)
    PROVE  /\ pc = "sent" /\ sent.to = e /\ pc' = "select"
           /\ last' = [last EXCEPT ![e] = cause]
           /\ counted' = IF verdict.poisons THEN counted \cup {cause} ELSE counted
           /\ dead' = IF verdict.permanent THEN dead \cup {e} ELSE dead
           /\ waits' = waits /\ sent' = sent
           /\ Justified(cause, verdict) /\ Measured(e, cause, verdict, limit, cap)
           /\ Decide(e, verdict, limit, cap)
BY DEF Failing, Fail, Reached

LEMMA RolloverMoves ==
    ASSUME Rollover
    PROVE  /\ pc = "select" /\ pc' = "select" /\ waits' = waits + 1
           /\ excluded' = [e \in Endpoint |-> IF e \in Readmissible THEN excluded[e] - 1
                                              ELSE excluded[e]]
           /\ UNCHANGED <<request, sent, window, dead, history>>
BY DEF Rollover

\* Whatever the conversation, the limits and the order of the failures, only
\* rate limits, unpaid bills, firewalls, outages and garbled answers get into a
\* breaker's window (classify_failure, and the breaker that takes only what
\* poisons health).
THEOREM BreakersAreFair == Spec => []BreakerFair
<1>1. Init => BreakerFair
  BY DEF Init, BreakerFair
<1>2. BreakerFair /\ [Next]_vars => BreakerFair'
  <2> SUFFICES ASSUME BreakerFair, [Next]_vars PROVE BreakerFair'
    OBVIOUS
  <2>1. ASSUME NEW e \in Endpoint, Try(e) PROVE counted' = counted
    BY <2>1, TryMoves DEF history
  <2>2. ASSUME NEW e \in Endpoint, NEW cause, NEW verdict, NEW limit, NEW cap,
               Failing(e, cause, verdict, limit, cap)
        PROVE  BreakerFair'
    <3>1. /\ counted' = IF verdict.poisons THEN counted \cup {cause} ELSE counted
          /\ Justified(cause, verdict)
      BY <2>2, FailMoves
    <3> QED BY <3>1, ZenonT(30) DEF BreakerFair, Justified, Counting
  <2>3. CASE Rollover
    BY <2>3, RolloverMoves, ZenonT(30) DEF history, BreakerFair
  <2>4. CASE Quietly
    BY <2>4 DEF Quietly, history, BreakerFair
  <2>5. counted' = counted => BreakerFair'
    BY DEF BreakerFair
  <2> QED BY <2>1, <2>2, <2>3, <2>4, <2>5, StepKinds, ZenonT(30)
<1> QED BY <1>1, <1>2, PTL DEF Spec

\* An endpoint is asked only while it is not given up.
DeadInv ==
    /\ DOMAIN last = Endpoint /\ dead \subseteq Endpoint
    /\ pc = "sent" => sent.to \notin dead
    /\ \A e \in dead : last[e] \in Final

LEMMA DeadStep ==
    ASSUME DeadInv, [Next]_vars
    PROVE  DeadInv'
<1>1. ASSUME NEW e \in Endpoint, Try(e) PROVE DeadInv'
  <2>1. /\ e \notin dead /\ UNCHANGED <<last, dead>>
        /\ pc' = "select" \/ sent'.to = e
    BY <1>1, TryMoves DEF history
  <2> QED BY <2>1, Zenon DEF DeadInv
<1>2. ASSUME NEW e \in Endpoint, NEW cause, NEW verdict, NEW limit, NEW cap,
             Failing(e, cause, verdict, limit, cap)
      PROVE  DeadInv'
  <2>1. /\ pc = "sent" /\ sent.to = e /\ pc' = "select"
        /\ last' = [last EXCEPT ![e] = cause]
        /\ dead' = IF verdict.permanent THEN dead \cup {e} ELSE dead
        /\ Justified(cause, verdict)
    BY <1>2, FailMoves
  <2>2. e \notin dead /\ DOMAIN last' = Endpoint /\ last'[e] = cause
    BY <2>1 DEF DeadInv
  <2>3. \A f \in dead : last'[f] = last[f]
    BY <2>1, <2>2 DEF DeadInv
  <2>4. \A f \in dead' : last'[f] \in Final
    BY <2>1, <2>2, <2>3, ZenonT(30) DEF DeadInv, Justified
  <2> QED BY <2>1, <2>2, <2>4, ZenonT(30) DEF DeadInv
<1>3. CASE Rollover
  <2>1. pc' = "select" /\ UNCHANGED <<last, dead>>
    BY <1>3, RolloverMoves DEF history
  <2> QED BY <2>1, Zenon DEF DeadInv
<1>4. CASE Quietly
  <2>1. UNCHANGED <<last, dead, sent>> /\ (pc' = pc \/ pc' # "sent")
    BY <1>4 DEF Quietly, loop, history
  <2> QED BY <2>1, Zenon DEF DeadInv
<1> QED BY <1>1, <1>2, <1>3, <1>4, StepKinds

\* A model is given up for good only because it is gone, unpaid for or refuses
\* the key: what an endpoint on the dead list last said stays one of these,
\* since it is not asked again (mark_endpoint_dead, select_candidate).
THEOREM DeadAreGone == Spec => []DeadOnlyIfGone
<1>1. Init => DeadInv
  BY DEF Init, DeadInv
<1>2. DeadInv /\ [Next]_vars => DeadInv'
  BY DeadStep
<1>3. DeadInv => DeadOnlyIfGone
  BY Zenon DEF DeadInv, DeadOnlyIfGone, Final
<1> QED BY <1>1, <1>2, <1>3, PTL DEF Spec

-----------------------------------------------------------------------------
(* What is delivered conforms                                              *)

\* An argument is left as it is if it is none of the schema's or has its type.
KeptAs(own, arguments, schema, k) ==
    \/ arguments[k] = own[k]
    \/ /\ k \in DOMAIN schema.properties
       /\ \/ own[k].type \notin Accepts(schema.properties[k])
          \/ schema.properties[k] \in {"object", "array"}

\* What the client may be given as a call, its arguments, and their form.
Deliverable(call, arguments, form) ==
    LET own == Unwrapped(call.source.object, Schemas[call.tool]) IN
    /\ request.tools > 0 /\ call.tool \in DOMAIN Schemas
    /\ Conforms(arguments, Schemas[call.tool])
    /\ DOMAIN arguments \subseteq DOMAIN own
    /\ call.source.form \in {"json", "loose"} =>
            \A k \in DOMAIN own : KeptAs(own, arguments, Schemas[call.tool], k)
    /\ form \in {"json", "loose"}

LEMMA ExecutableIsDeliverable ==
    ASSUME NEW call, IsObject(call.source.object), executable(call, Offered)
    PROVE  Deliverable(call, validated(call, Offered), delivered(call, Offered))
<1>1. Legible(call, Offered) /\ Valid(Arguments(call, Offered), Offered[call.tool])
  BY Zenon DEF executable, rejected
<1>2. request.tools > 0 /\ Offered = Schemas
  <2>1. CASE request.tools > 0
    BY <2>1 DEF Offered
  <2>2. CASE ~(request.tools > 0)
    <3>1. DOMAIN Offered = {}
      BY <2>2 DEF Offered
    <3> QED BY <1>1, <3>1 DEF Legible
  <2> QED BY <2>1, <2>2
<1> DEFINE schema == Schemas[call.tool]
           object == Unwrapped(Parsed(call.source), schema)
           own == Unwrapped(call.source.object, schema)
           arguments == RepairedArguments(object, schema)
<1>3. call.tool \in DOMAIN Schemas /\ Valid(object, schema)
  BY <1>1, <1>2, Zenon DEF Legible, Arguments
<1>4. /\ Typed(object) /\ DOMAIN object \subseteq DOMAIN own
      /\ call.source.form \in {"json", "loose"} => object = own
  BY ParsedObject
<1>5. validated(call, Offered) = arguments
  BY <1>2, Zenon DEF validated, Arguments
<1>6. delivered(call, Offered) \in {"json", "loose"}
  <2>1. call.source.form \in {"json", "loose", "nothing"} \cup Mended
    BY <1>1 DEF Legible, Parses
  <2>2. call.source.form \in Mended => normalized(call, Offered)
    BY DEF normalized
  <2> QED BY <2>1, <2>2 DEF delivered
<1> HIDE DEF object, schema
<1>7. /\ Conforms(arguments, schema)
      /\ DOMAIN arguments = DOMAIN object
      /\ \A k \in DOMAIN object : KeptAs(object, arguments, schema, k)
  BY <1>3, <1>4, RepairConforms, Zenon DEF KeptAs
<1> HIDE DEF arguments, own
<1>8. /\ DOMAIN arguments \subseteq DOMAIN own
      /\ call.source.form \in {"json", "loose"} =>
            \A k \in DOMAIN own : KeptAs(own, arguments, schema, k)
  BY <1>4, <1>7, ZenonT(30)
<1> QED BY <1>2, <1>3, <1>5, <1>6, <1>7, <1>8, ZenonT(30) DEF Deliverable, schema, own

\* Every call the client gets names a tool it offered, with arguments that
\* conform to the tool's schema as far as the validator looks; none is invented,
\* what had its type is the model's own, and no source that needed mending goes
\* out, whatever the schemas and the answers are (validate_tool_call).
THEOREM DeliveriesConform == Spec => []DeliveredConforms
<1>1. Init => DeliveredConforms
  BY DEF Init, DeliveredConforms
<1>2. DeliveredConforms /\ [Next]_vars => DeliveredConforms'
  <2> SUFFICES ASSUME DeliveredConforms, [Next]_vars, pc' = "done" PROVE DeliveredConforms'
    BY Zenon DEF DeliveredConforms
  <2>1. ASSUME NEW e \in Endpoint, Answered(e) PROVE DeliveredConforms'
    <3>1. PICK answer \in Replies :
            /\ Executable(answer)
            /\ reply' = [i \in DOMAIN answer.calls |->
                            [call |-> answer.calls[i],
                             arguments |-> validated(answer.calls[i], Offered),
                             form |-> delivered(answer.calls[i], Offered)]]
            /\ request' = request
      BY <2>1 DEF Answered, loop
    <3>2. ASSUME NEW i \in DOMAIN reply'
          PROVE  Deliverable(reply'[i].call, reply'[i].arguments, reply'[i].form)
      <4>1. i \in DOMAIN answer.calls
        BY <3>1
      <4>2. /\ reply'[i].call = answer.calls[i]
            /\ reply'[i].arguments = validated(answer.calls[i], Offered)
            /\ reply'[i].form = delivered(answer.calls[i], Offered)
        BY <3>1, <4>1, Zenon
      <4>3. IsObject(answer.calls[i].source.object) /\ executable(answer.calls[i], Offered)
        BY <3>1, <4>1, AgentTurnAssumption, ZenonT(30) DEF Executable
      <4>4. Deliverable(answer.calls[i], validated(answer.calls[i], Offered),
                        delivered(answer.calls[i], Offered))
        BY <4>3, ExecutableIsDeliverable
      <4> QED BY <4>2, <4>4, Zenon
    <3>3. ASSUME NEW i \in DOMAIN reply'
          PROVE  Deliverable(reply[i].call, reply[i].arguments, reply[i].form)'
      <4>1. Deliverable(reply'[i].call, reply'[i].arguments, reply'[i].form) /\ request' = request
        BY <3>1, <3>2, ZenonT(30)
      <4> QED BY <4>1, Zenon DEF Deliverable
    <3> QED BY <3>3, ZenonT(30) DEF DeliveredConforms, Deliverable, KeptAs
  <2>2. CASE UNCHANGED <<request, reply, pc>>
    BY <2>2, Zenon DEF DeliveredConforms
  <2>3. CASE UNCHANGED vars
    BY <2>2, <2>3 DEF vars, loop
  <2>4. CASE Over
    BY <2>2, <2>4 DEF Over, vars, loop
  <2>5. ~GiveUp /\ ~Rollover
    BY DEF GiveUp, Rollover
  <2>6. ASSUME NEW e \in Endpoint
        PROVE  ~Try(e) /\ ~Fails(e)
    <3>1. ~Try(e)
      BY TryMoves
    <3>2. ASSUME Fails(e) PROVE FALSE
      <4>1. PICK cause, verdict, limit, cap : Failing(e, cause, verdict, limit, cap)
        BY <3>2, FailureKinds, ZenonT(30)
      <4> QED BY <4>1, FailMoves
    <3> QED BY <3>1, <3>2
  <2> QED BY <2>1, <2>3, <2>4, <2>5, <2>6, ZenonT(30) DEF Next, Fails
<1> QED BY <1>1, <1>2, PTL DEF Spec

-----------------------------------------------------------------------------
(* Requests and windows                                                    *)

\* The conversation of a client, in either dialect, is a request.
LEMMA RequestType ==
    ASSUME NEW c \in Conversations
    PROVE  Request(c) \in RequestT
<1> DEFINE Turn == [role : {"user", "assistant", "tool"}, text : Nat, args : Nat, shape : Shapes]
<1>1. c.system \in Nat /\ c.tools \in Nat /\ c.prose \in Nat /\ c.out \in Nat
  BY AgentTurnAssumption
<1>2. c.turns \in Seq(Turn)
  BY AgentTurnAssumption, Zenon
<1>3. \A i \in DOMAIN c.turns :
            /\ c.turns[i].role \in {"user", "assistant", "tool"} /\ c.turns[i].text \in Nat
            /\ c.turns[i].args \in Nat /\ c.turns[i].shape \in Shapes /\ i \in Nat
  <2> TAKE i \in DOMAIN c.turns
  <2>1. c.turns[i] \in Turn /\ i \in Nat
    <3> HIDE DEF Turn
    <3> QED BY <1>2
  <2> QED BY <2>1
<1>4. DOMAIN c.turns = 1 .. Len(c.turns) /\ Len(c.turns) \in Nat
  BY <1>2
<1> HIDE DEF Turn
<1>5. OpenAIMessages(c) \in Seq(MessageT)
  <2> DEFINE head == IF c.system > 0 THEN <<Message(0, "system", c.system, 0, 0, "log")>> ELSE <<>>
             result(i) == IF c.turns[i].role = "tool" THEN c.turns[i].text ELSE 0
             tail == [i \in DOMAIN c.turns |->
                        Message(i, c.turns[i].role, c.turns[i].text, result(i), c.turns[i].args,
                                c.turns[i].shape)]
  <2>1. Message(0, "system", c.system, 0, 0, "log") \in MessageT
    BY <1>1 DEF Message, MessageT, Shapes
  <2>2. head \in Seq(MessageT)
    BY <2>1, SMTT(30)
  <2>3. \A i \in DOMAIN c.turns :
            Message(i, c.turns[i].role, c.turns[i].text, result(i), c.turns[i].args,
                    c.turns[i].shape) \in MessageT
    BY <1>3 DEF Message, MessageT
  <2> HIDE DEF head, result
  <2>4. tail \in [1 .. Len(c.turns) -> MessageT]
    BY <1>4, <2>3, Zenon
  <2> HIDE DEF tail
  <2>5. tail \in Seq(MessageT)
    BY <1>4, <2>4
  <2>6. OpenAIMessages(c) = head \o tail
    BY DEF OpenAIMessages, head, tail, result
  <2> QED BY <2>2, <2>5, <2>6, SMTT(30)
<1>6. AnthropicMessages(c) \in Seq(MessageT)
  <2> DEFINE m(i) == IF c.turns[i].role = "tool"
                     THEN Message(i, "user", 0, c.turns[i].text, 0, c.turns[i].shape)
                     ELSE Message(i, c.turns[i].role, c.turns[i].text, 0, c.turns[i].args,
                                  c.turns[i].shape)
             f == [i \in DOMAIN c.turns |-> m(i)]
  <2>1. \A i \in DOMAIN c.turns : m(i) \in MessageT
    BY <1>3, ZenonT(30) DEF Message, MessageT
  <2>2. AnthropicMessages(c) = Each(f)
    BY DEF AnthropicMessages
  <2> HIDE DEF m
  <2>3. f \in [1 .. Len(c.turns) -> MessageT]
    BY <1>4, <2>1, Zenon
  <2> HIDE DEF f
  <2> QED BY <1>4, <2>2, <2>3, EachType, ZenonT(30)
<1> DEFINE messages == IF c.dialect = "openai" THEN OpenAIMessages(c) ELSE AnthropicMessages(c)
<1>7. messages \in Seq(MessageT)
  BY <1>5, <1>6
<1>8. Request(c) = [system |-> c.system, tools |-> c.tools, prose |-> c.prose, out |-> c.out,
                    messages |-> messages]
  BY DEF Request
<1> HIDE DEF messages
<1> QED BY <1>1, <1>7, <1>8, SMTT(30) DEF RequestT

LEMMA MarginType ==
    ASSUME NEW e, window[e] \in Nat
    PROVE  Margin(e) \in Nat
BY DEF Margin, Smaller

\* No more output is asked for than the model supports and the client wants.
LEMMA DesiredType ==
    ASSUME NEW e \in Endpoint, window[e] \in Nat, request \in RequestT
    PROVE  Desired(e) \in Nat /\ (request.out > 0 => Desired(e) <= request.out)
<1> DEFINE most == Profile[e].maxOut
           asked == Smaller(IF request.out > 0 THEN request.out ELSE most, most)
           room == window[e] - Margin(e) - Estimate(request)
<1>1. request.out \in Nat /\ request.system \in Nat /\ request.messages \in Seq(MessageT)
  BY DEF RequestT
<1>2. most \in Nat
  BY AgentTurnAssumption
<1> HIDE DEF most
<1>3. asked \in Nat /\ (request.out > 0 => asked <= request.out)
  BY <1>1, <1>2 DEF Smaller
<1> HIDE DEF asked
<1>4. room \in Int
  <2>1. Margin(e) \in Nat /\ Estimate(request) \in Nat
    BY <1>1, MarginType, EstimateType, ZenonT(30)
  <2> QED BY <2>1
<1> HIDE DEF room
<1>5. Desired(e) = IF room < asked /\ asked > 1024 THEN Larger(1024, Smaller(asked, room)) ELSE asked
  BY DEF Desired, room, asked, most
<1>6. Desired(e) \in Nat /\ Desired(e) <= asked
  BY <1>3, <1>4, <1>5, SMTT(30) DEF Larger, Smaller
<1> QED BY <1>1, <1>3, <1>6

\* The adapter only lowers the output.
LEMMA OutputOnlyLowered ==
    ASSUME NEW family \in {"groq", "nvidia", "other"}, NEW r, r.out \in Nat, NEW most \in Nat
    PROVE  /\ prepare_request(family, r, most).out \in Nat
           /\ prepare_request(family, r, most).out <= r.out
<1> DEFINE payload == ToOpenAI(r)
           out == Smaller(r.out, most)
           groq == prune_for_groq_tpm(payload, 3800)
           nvidia == prune_openai_request(payload, 16000, 500)
<1>1. out \in Nat /\ out <= r.out
  BY DEF Smaller
<1>2. Smaller(out, 950) \in Nat /\ Smaller(out, 950) <= r.out
  <2> HIDE DEF out
  <2> QED BY <1>1 DEF Smaller
<1>3. prepare_request(family, r, most) =
        CASE family = "groq" -> [prompt |-> groq, out |-> Smaller(out, 950)]
          [] family = "nvidia" -> [prompt |-> nvidia, out |-> out]
          [] family = "other" -> [prompt |-> payload, out |-> out]
  BY DEF prepare_request
<1> HIDE DEF payload, out, groq, nvidia
<1>4. prepare_request(family, r, most).out \in {out, Smaller(out, 950)}
  BY <1>3, SMTT(30)
<1> QED BY <1>1, <1>2, <1>4

\* Shrinking shrinks.
LEMMA ShrinkBounds ==
    ASSUME NEW e \in Endpoint, NEW limit \in Nat
    PROVE  Shrink(e, limit) \in Nat /\ Shrink(e, limit) # Profile[e].window
<1> DEFINE full == Profile[e].window
           tenth == full \div 10
           most == (full * 95) \div 100
           below == (limit * 85) \div 100
<1>1. full \in Nat /\ full >= 1
  BY AgentTurnAssumption
<1> HIDE DEF full
<1>2. tenth \in Nat /\ tenth < full
  BY <1>1
<1>3. most \in Nat /\ most < full
  BY <1>1
<1>4. below \in Nat
  OBVIOUS
<1>5. Shrink(e, limit) = IF limit = 0 THEN full \div 2
                         ELSE Larger(tenth, Smaller(most, Larger(1000, below)))
  BY DEF Shrink, full
<1>6. full \div 2 \in Nat /\ full \div 2 < full
  BY <1>1, SMTT(30)
<1> HIDE DEF tenth, most, below
<1>7. Shrink(e, limit) \in Nat /\ Shrink(e, limit) # full
  BY ONLY limit \in Nat, <1>1, <1>2, <1>3, <1>4, <1>5, <1>6, SMTT(30) DEF Larger, Smaller
<1> QED BY <1>7, Zenon DEF full

LEMMA ClampBounds ==
    ASSUME NEW e \in Endpoint, NEW cap \in Nat, request \in RequestT
    PROVE  /\ Clamp(e, cap) \in Nat
           /\ cap # 0 => Clamp(e, cap) \in 1 .. cap
           /\ cap = 0 /\ request.out > 0 => Clamp(e, cap) \in 1 .. request.out
<1>1. request.out \in Nat
  BY DEF RequestT
<1>2. Profile[e].maxOut \in Nat
  BY AgentTurnAssumption
<1> QED BY <1>1, <1>2 DEF Clamp, Smaller

\* What is sent asks for at most the output of the request.
LEMMA SendAsks ==
    ASSUME NEW e \in Endpoint, Try(e), pc' # "select", window[e] \in Nat, request \in RequestT
    PROVE  sent'.out \in Nat /\ (request.out > 0 => sent'.out <= request.out)
<1> DEFINE adapted == [compact(request, Available(e)) EXCEPT !.out = Desired(e)]
           payload == prepare_request(Profile[e].family, adapted, Profile[e].maxOut)
<1>1. Send(e, adapted)
  <2>1. Pass(e) => pc' = pc
    BY DEF Pass
  <2>2. pc = "select"
    BY DEF Try
  <2> HIDE DEF adapted
  <2> QED BY <2>1, <2>2, Zenon DEF Try, adapted
<1>2. compact(request, Available(e)) \in RequestT
  BY CompactType
<1>3. Desired(e) \in Nat /\ (request.out > 0 => Desired(e) <= request.out)
  BY DesiredType
<1>4. adapted.out = Desired(e)
  BY <1>2, <1>3, ZenonT(30) DEF RequestT
<1> HIDE DEF adapted
<1>5. payload.out \in Nat /\ payload.out <= Desired(e)
  <2>1. Profile[e].family \in {"groq", "nvidia", "other"} /\ Profile[e].maxOut \in Nat
    BY AgentTurnAssumption
  <2> QED BY <1>3, <1>4, <2>1, OutputOnlyLowered, ZenonT(30)
<1>6. sent'.out = payload.out
  BY <1>1, Zenon DEF Send
<1> HIDE DEF payload
<1>7. request.out \in Nat
  BY DEF RequestT
<1> QED BY <1>3, <1>5, <1>6, <1>7

\* The request stays a request, and what is assumed of windows a number; the
\* decision shrinks a window only once.
TurnType == request \in RequestT /\ window \in [Endpoint -> Nat]

\* What a decision may do to the output asked for, and to the window and the
\* place of the endpoint.
OutputDecided(e, cap) ==
    \/ /\ request' = [request EXCEPT !.out = Clamp(e, cap)]
       /\ capped' = [capped EXCEPT ![e] = cap]
    \/ request' = request /\ capped' = capped

WindowDecided(e, verdict, limit) ==
    \/ /\ window' = [window EXCEPT ![e] = Shrink(e, limit)]
       /\ ~Shrunk(e) /\ excluded' = excluded
    \/ window' = window /\ \E times \in {1, 2} : Exclude(e, times)
    \/ /\ window' = window /\ excluded' = excluded
       /\ verdict.retryable \/ verdict.reason = "output_cap_exceeded"

LEMMA DecideKinds ==
    ASSUME TurnType, NEW e \in Endpoint, NEW verdict, NEW limit \in Nat, NEW cap \in Nat,
           Decide(e, verdict, limit, cap)
    PROVE  OutputDecided(e, cap) /\ WindowDecided(e, verdict, limit) /\ TurnType'
<1>1. CASE Clamps(e, verdict)
  <2>1. /\ request' = [request EXCEPT !.out = Clamp(e, cap)] /\ capped' = [capped EXCEPT ![e] = cap]
        /\ window' = window /\ excluded' = excluded
    BY <1>1 DEF Decide
  <2>2. Clamp(e, cap) \in Nat
    BY ClampBounds DEF TurnType
  <2>3. [request EXCEPT !.out = Clamp(e, cap)] \in RequestT
    BY <2>2, ZenonT(30) DEF TurnType, RequestT
  <2>4. verdict.reason = "output_cap_exceeded"
    BY <1>1 DEF Clamps
  <2> QED BY <2>1, <2>3, <2>4, ZenonT(30) DEF TurnType, OutputDecided, WindowDecided
<1>2. CASE ~Clamps(e, verdict) /\ Shrinks(e, verdict)
  <2>1. /\ request' = request /\ capped' = capped /\ excluded' = excluded
        /\ window' = [window EXCEPT ![e] = Shrink(e, limit)]
    BY <1>2 DEF Decide
  <2>2. ~Shrunk(e)
    BY <1>2 DEF Shrinks
  <2>3. window' \in [Endpoint -> Nat]
    BY <2>1, ShrinkBounds, ZenonT(30) DEF TurnType
  <2> QED BY <2>1, <2>2, <2>3, ZenonT(30) DEF TurnType, OutputDecided, WindowDecided
<1>3. CASE ~Clamps(e, verdict) /\ ~Shrinks(e, verdict)
  <2>1. request' = request /\ capped' = capped /\ window' = window
    BY <1>3, Zenon DEF Decide
  <2>2. \/ \E times \in {1, 2} : Exclude(e, times)
        \/ excluded' = excluded /\ verdict.retryable
    BY <1>3, Zenon DEF Decide
  <2> QED BY <2>1, <2>2, ZenonT(30) DEF TurnType, OutputDecided, WindowDecided
<1> QED BY <1>1, <1>2, <1>3, Zenon

LEMMA TurnTypeHolds == Spec => []TurnType
<1>1. Init => TurnType
  <2> SUFFICES ASSUME Init PROVE TurnType
    OBVIOUS
  <2>1. request \in RequestT
    BY RequestType, ZenonT(30) DEF Init
  <2>2. window \in [Endpoint -> Nat]
    BY AgentTurnAssumption DEF Init
  <2> QED BY <2>1, <2>2 DEF TurnType
<1>2. TurnType /\ [Next]_vars => TurnType'
  <2> SUFFICES ASSUME TurnType, [Next]_vars PROVE TurnType'
    OBVIOUS
  <2>1. ASSUME NEW e \in Endpoint, NEW cause, NEW verdict, NEW limit, NEW cap,
               Failing(e, cause, verdict, limit, cap)
        PROVE  TurnType'
    <3>1. limit \in Nat /\ cap \in Nat /\ Decide(e, verdict, limit, cap)
      BY <2>1, FailMoves, Zenon DEF Measured
    <3> QED BY <3>1, DecideKinds, Zenon
  <2>2. UNCHANGED <<request, window>> => TurnType'
    BY DEF TurnType
  <2>3. ASSUME NEW e \in Endpoint, Try(e) PROVE TurnType'
    BY <2>2, <2>3, TryMoves, ZenonT(30)
  <2>4. CASE Rollover
    BY <2>2, <2>4, RolloverMoves
  <2>5. CASE Quietly
    BY <2>2, <2>5 DEF Quietly, loop
  <2> QED BY <2>1, <2>3, <2>4, <2>5, StepKinds, ZenonT(30)
<1> QED BY <1>1, <1>2, PTL DEF Spec

-----------------------------------------------------------------------------
(* Refusals for the size                                                   *)

\* An endpoint pays for each refusal: with its window, with its place among the
\* candidates, or with the wait after which it got that place back.
RefusalsInv ==
    /\ excluded \in [Endpoint -> Nat] /\ refused \in [Endpoint -> Nat] /\ waits \in Nat
    /\ pc = "sent" => excluded[sent.to] = 0
    /\ \A e \in Endpoint :
        /\ refused[e] <= 2 + waits
        /\ ~Shrunk(e) \/ excluded[e] = 0 => refused[e] <= 1 + waits
        /\ ~Shrunk(e) /\ excluded[e] = 0 => refused[e] <= waits

LEMMA RefusalsTry ==
    ASSUME RefusalsInv, NEW e \in Endpoint, Try(e)
    PROVE  RefusalsInv'
<1>1. /\ excluded[e] = 0 /\ UNCHANGED <<waits, window, refused>>
      /\ \/ pc' = "select" /\ Exclude(e, 1)
         \/ pc' = "sent" /\ sent'.to = e /\ excluded' = excluded
  BY TryMoves DEF history
<1>2. \A f \in Endpoint : Shrunk(f)' = Shrunk(f)
  BY <1>1, Zenon DEF Shrunk
<1>3. CASE pc' = "select" /\ Exclude(e, 1)
  <2>1. /\ excluded' \in [Endpoint -> Nat]
        /\ \A f \in Endpoint : excluded'[f] = 0 => excluded[f] = 0
    BY <1>3 DEF Exclude, RefusalsInv
  <2> QED BY <1>1, <1>2, <1>3, <2>1, ZenonT(30) DEF RefusalsInv
<1>4. CASE pc' = "sent" /\ sent'.to = e /\ excluded' = excluded
  BY <1>1, <1>2, <1>4 DEF RefusalsInv
<1> QED BY <1>1, <1>3, <1>4, ZenonT(30)

LEMMA RefusalsFail ==
    ASSUME TurnType, RefusalsInv, NEW e \in Endpoint, NEW cause, NEW verdict, NEW limit, NEW cap,
           Failing(e, cause, verdict, limit, cap)
    PROVE  RefusalsInv'
<1>1. /\ pc = "sent" /\ sent.to = e /\ pc' = "select" /\ waits' = waits
      /\ limit \in Nat /\ cap \in Nat /\ Decide(e, verdict, limit, cap)
      /\ \/ refused' = refused
         \/ refused' = [refused EXCEPT ![e] = @ + 1] /\ verdict.reason = "payload_too_large"
              /\ verdict.retryable = FALSE
  BY FailMoves, Zenon DEF Measured
<1>2. \/ /\ window' = [window EXCEPT ![e] = Shrink(e, limit)]
         /\ ~Shrunk(e) /\ excluded' = excluded
      \/ window' = window /\ \E times \in {1, 2} : Exclude(e, times)
      \/ /\ window' = window /\ excluded' = excluded
         /\ verdict.retryable \/ verdict.reason = "output_cap_exceeded"
  BY <1>1, DecideKinds, Zenon DEF WindowDecided
<1>3. /\ excluded \in [Endpoint -> Nat] /\ refused \in [Endpoint -> Nat] /\ waits \in Nat
      /\ excluded[e] = 0 /\ window \in [Endpoint -> Nat]
  BY <1>1 DEF RefusalsInv, TurnType
<1>4. refused' \in [Endpoint -> Nat]
  BY ONLY <1>1, <1>3, SMTT(30)
<1>5. ASSUME NEW f \in Endpoint, f # e
      PROVE  refused'[f] = refused[f] /\ excluded'[f] = excluded[f] /\ Shrunk(f)' = Shrunk(f)
  BY <1>1, <1>2, <1>3, <1>5, ZenonT(30) DEF Shrunk, Exclude
<1>6. ASSUME NEW f \in Endpoint
      PROVE  /\ refused[f] <= 2 + waits
             /\ ~Shrunk(f) \/ excluded[f] = 0 => refused[f] <= 1 + waits
             /\ ~Shrunk(f) /\ excluded[f] = 0 => refused[f] <= waits
  BY DEF RefusalsInv
<1>7. excluded' \in [Endpoint -> Nat]
  BY <1>2, <1>3 DEF Exclude
<1>8. refused'[e] \in {refused[e], refused[e] + 1} /\ refused[e] \in Nat
  BY <1>1, <1>3, Zenon
<1>9. CASE window' = [window EXCEPT ![e] = Shrink(e, limit)] /\ ~Shrunk(e) /\ excluded' = excluded
  <2>1. Shrunk(e)'
    BY <1>1, <1>3, <1>9, ShrinkBounds, Zenon DEF Shrunk
  <2>2. /\ refused'[e] <= 2 + waits
        /\ ~Shrunk(e)' \/ excluded'[e] = 0 => refused'[e] <= 1 + waits
        /\ ~Shrunk(e)' /\ excluded'[e] = 0 => refused'[e] <= waits
    BY ONLY <1>3, <1>6, <1>8, <1>9, <2>1, SMTT(30)
  <2> QED BY <1>1, <1>3, <1>4, <1>5, <1>6, <1>7, <2>2, Zenon DEF RefusalsInv
<1>10. CASE window' = window /\ \E times \in {1, 2} : Exclude(e, times)
  <2>1. Shrunk(e)' = Shrunk(e) /\ excluded'[e] # 0
    BY ONLY <1>3, <1>10, SMTT(30) DEF Shrunk, Exclude
  <2>2. /\ refused'[e] <= 2 + waits
        /\ ~Shrunk(e)' \/ excluded'[e] = 0 => refused'[e] <= 1 + waits
        /\ ~Shrunk(e)' /\ excluded'[e] = 0 => refused'[e] <= waits
    BY ONLY <1>3, <1>6, <1>8, <2>1, SMTT(30)
  <2> QED BY <1>1, <1>3, <1>4, <1>5, <1>6, <1>7, <2>2 DEF RefusalsInv
<1>11. CASE /\ window' = window /\ excluded' = excluded
            /\ verdict.retryable \/ verdict.reason = "output_cap_exceeded"
  <2>1. Shrunk(e)' = Shrunk(e) /\ refused' = refused
    BY <1>1, <1>11, Zenon DEF Shrunk
  <2>2. /\ refused'[e] <= 2 + waits
        /\ ~Shrunk(e)' \/ excluded'[e] = 0 => refused'[e] <= 1 + waits
        /\ ~Shrunk(e)' /\ excluded'[e] = 0 => refused'[e] <= waits
    BY <1>6, <1>11, <2>1, Zenon
  <2> QED BY <1>1, <1>3, <1>4, <1>5, <1>6, <1>7, <2>2 DEF RefusalsInv
<1> QED BY <1>2, <1>9, <1>10, <1>11, Zenon

LEMMA RefusalsRollover ==
    ASSUME RefusalsInv, Rollover
    PROVE  RefusalsInv'
<1>1. /\ pc' = "select" /\ waits' = waits + 1 /\ UNCHANGED <<window, refused>>
      /\ excluded' = [e \in Endpoint |-> IF e \in Readmissible THEN excluded[e] - 1 ELSE excluded[e]]
  BY RolloverMoves DEF history
<1>2. \A e \in Readmissible : excluded[e] > 0
  BY DEF Readmissible
<1>3. excluded' \in [Endpoint -> Nat]
  BY ONLY RefusalsInv, <1>1, <1>2, SMTT(30) DEF RefusalsInv
<1>4. ASSUME NEW e \in Endpoint
      PROVE  /\ Shrunk(e)' = Shrunk(e) /\ refused'[e] = refused[e] /\ refused[e] \in Nat
             /\ refused[e] <= 2 + waits /\ (~Shrunk(e) => refused[e] <= 1 + waits)
  BY <1>1 DEF RefusalsInv, Shrunk
<1> QED BY ONLY RefusalsInv, <1>1, <1>3, <1>4, SMTT(30) DEF RefusalsInv

\* Whatever the conversation and the limits, and whatever number of attempts the
\* policy allows, an endpoint refuses at most two prompts for their size, and
\* one more after every wait for a rate limit (window_shrink is entered once,
\* and the next size rejection excludes the endpoint).
THEOREM SizeRefusalsAreBounded == Spec => []SizeRefusalsBounded
<1>1. Init => RefusalsInv
  BY DEF Init, RefusalsInv, Shrunk
<1>2. TurnType /\ RefusalsInv /\ [Next]_vars => RefusalsInv'
  <2> SUFFICES ASSUME TurnType, RefusalsInv, [Next]_vars PROVE RefusalsInv'
    OBVIOUS
  <2>1. ASSUME NEW e \in Endpoint, Try(e) PROVE RefusalsInv'
    BY <2>1, RefusalsTry
  <2>2. ASSUME NEW e \in Endpoint, NEW cause, NEW verdict, NEW limit, NEW cap,
               Failing(e, cause, verdict, limit, cap)
        PROVE  RefusalsInv'
    BY <2>2, RefusalsFail, Zenon
  <2>3. CASE Quietly
    BY <2>3, ZenonT(30) DEF Quietly, loop, history, RefusalsInv, Shrunk
  <2> QED BY <2>1, <2>2, <2>3, RefusalsRollover, StepKinds, ZenonT(30)
<1>3. RefusalsInv => SizeRefusalsBounded
  BY DEF RefusalsInv, SizeRefusalsBounded
<1> QED BY <1>1, <1>2, <1>3, TurnTypeHolds, PTL DEF Spec

-----------------------------------------------------------------------------
(* Output caps                                                             *)

\* Once the output was clamped for a cap that was named, the request asks for no
\* more than the cap, since every further clamp is below what was last sent.
CapInv ==
    /\ capped \in [Endpoint -> Nat]
    /\ \A e \in Endpoint : capped[e] > 0 => request.out \in 1 .. capped[e]
    /\ pc = "sent" => sent.out \in Nat /\ (request.out > 0 => sent.out <= request.out)

LEMMA CapFail ==
    ASSUME TurnType, CapInv, NEW e \in Endpoint, NEW cause, NEW verdict, NEW limit, NEW cap,
           Failing(e, cause, verdict, limit, cap)
    PROVE  CapInv'
<1>1. /\ pc = "sent" /\ pc' = "select"
      /\ limit \in Nat /\ cap \in Nat /\ (cap # 0 => cap < sent.out)
      /\ Decide(e, verdict, limit, cap)
  BY FailMoves, Zenon DEF Measured
<1>2. \/ /\ request' = [request EXCEPT !.out = Clamp(e, cap)]
         /\ capped' = [capped EXCEPT ![e] = cap]
      \/ request' = request /\ capped' = capped
  BY <1>1, DecideKinds, Zenon DEF OutputDecided
<1>3. CASE request' = request /\ capped' = capped
  BY <1>1, <1>3 DEF CapInv
<1>4. CASE /\ request' = [request EXCEPT !.out = Clamp(e, cap)]
           /\ capped' = [capped EXCEPT ![e] = cap]
  <2>1. request \in RequestT /\ request.out \in Nat
    BY DEF TurnType, RequestT
  <2>2. request'.out = Clamp(e, cap)
    BY <1>4, <2>1, ZenonT(30) DEF RequestT
  <2>3. /\ Clamp(e, cap) \in Nat
        /\ cap # 0 => Clamp(e, cap) \in 1 .. cap
        /\ cap = 0 /\ request.out > 0 => Clamp(e, cap) \in 1 .. request.out
    BY <1>1, <2>1, ClampBounds, ZenonT(30)
  <2>4. sent.out \in Nat /\ (request.out > 0 => sent.out <= request.out)
    BY <1>1 DEF CapInv
  <2>5. /\ capped' \in [Endpoint -> Nat] /\ capped'[e] = cap
        /\ \A f \in Endpoint : f # e => capped'[f] = capped[f]
    BY <1>1, <1>4 DEF CapInv
  <2>6. ASSUME NEW f \in Endpoint, capped'[f] > 0 PROVE Clamp(e, cap) \in 1 .. capped'[f]
    <3>1. CASE f = e
      BY ONLY <1>1, <2>3, <2>5, <2>6, <3>1, SMTT(30)
    <3>2. CASE f # e
      <4>1. capped'[f] = capped[f] /\ capped[f] \in Nat /\ request.out \in 1 .. capped[f]
        BY <2>5, <2>6, <3>2, ZenonT(30) DEF CapInv
      <4> QED BY ONLY <1>1, <2>1, <2>3, <2>4, <4>1, SMTT(30)
    <3> QED BY <3>1, <3>2
  <2> QED BY <1>1, <2>2, <2>5, <2>6 DEF CapInv
<1> QED BY <1>2, <1>3, <1>4

\* Once the output was clamped to the cap that an endpoint named, that endpoint
\* is asked for no more, whatever the conversation and the limits, over any
\* number of retries, clamps for other endpoints and readmissions.
THEOREM ClampIsKept == Spec => []ClampKept
<1>1. Init => CapInv
  BY DEF Init, CapInv
<1>2. TurnType /\ CapInv /\ [Next]_vars => CapInv'
  <2> SUFFICES ASSUME TurnType, CapInv, [Next]_vars PROVE CapInv'
    OBVIOUS
  <2>1. ASSUME NEW e \in Endpoint, Try(e) PROVE CapInv'
    <3>1. UNCHANGED <<request, capped>> /\ (pc' = "select" \/ pc' = "sent")
      BY <2>1, TryMoves DEF history
    <3>2. pc' = "sent" => sent'.out \in Nat /\ (request.out > 0 => sent'.out <= request.out)
      BY <2>1, SendAsks, ZenonT(30) DEF TurnType
    <3> QED BY <3>1, <3>2, ZenonT(30) DEF CapInv
  <2>2. ASSUME NEW e \in Endpoint, NEW cause, NEW verdict, NEW limit, NEW cap,
               Failing(e, cause, verdict, limit, cap)
        PROVE  CapInv'
    BY <2>2, CapFail, Zenon
  <2>3. CASE Rollover
    BY <2>3, RolloverMoves, ZenonT(30) DEF history, CapInv
  <2>4. CASE Quietly
    BY <2>4 DEF Quietly, loop, history, CapInv
  <2> QED BY <2>1, <2>2, <2>3, <2>4, StepKinds, ZenonT(30)
<1>3. CapInv => ClampKept
  <2> SUFFICES ASSUME CapInv, NEW e \in Endpoint, pc = "sent", capped[e] > 0
               PROVE  sent.out <= capped[e]
    BY DEF ClampKept, Reached
  <2>1. /\ request.out \in 1 .. capped[e] /\ capped[e] \in Nat
        /\ sent.out \in Nat /\ (request.out > 0 => sent.out <= request.out)
    BY DEF CapInv
  <2> QED BY <2>1
<1> QED BY <1>1, <1>2, <1>3, TurnTypeHolds, PTL DEF Spec

-----------------------------------------------------------------------------
(* The oldest messages go first, and the root objective stays              *)

\* The request is a whole conversation that opens with its root objective.
Whole(r, lead, n, text) ==
    /\ Adapted(r.messages, lead, n, text) /\ Len(r.messages) = lead + n
    /\ text > 0 /\ (lead = 1 => r.system > 0)

LEMMA RequestWhole ==
    ASSUME NEW c \in Conversations, ClientsSpeak
    PROVE  \E lead, n, text : Whole(Request(c), lead, n, text)
<1> DEFINE Turn == [role : {"user", "assistant", "tool"}, text : Nat, args : Nat, shape : Shapes]
           n == Len(c.turns)
<1>1. c.system \in Nat /\ c.turns \in Seq(Turn)
  BY AgentTurnAssumption, ZenonT(30)
<1>2. c.system \in Nat
  BY AgentTurnAssumption, Zenon
<1>3. n \in Nat /\ DOMAIN c.turns = 1 .. n /\ n >= 1 /\ c.turns[1].role = "user"
  <2>1. c.turns # <<>> /\ c.turns[1].role = "user"
    BY Zenon DEF ClientsSpeak
  <2> QED BY <1>1, <2>1, SMTT(30)
<1>4. \A i \in 1 .. n :
            /\ c.turns[i].role \in {"user", "assistant", "tool"} /\ c.turns[i].text \in Nat
            /\ c.turns[i].args \in Nat /\ c.turns[i].shape \in Shapes /\ i \in Nat
            /\ c.turns[i].role # "assistant" => c.turns[i].text > 0
  <2> TAKE i \in 1 .. n
  <2>1. c.turns[i] \in Turn /\ i \in Nat
    <3> HIDE DEF Turn
    <3> QED BY <1>1, <1>3, SMTT(30)
  <2>2. c.turns[i].role # "assistant" => c.turns[i].text > 0
    BY <1>3, Zenon DEF ClientsSpeak
  <2> QED BY <2>1, <2>2, ZenonT(30)
<1> HIDE DEF Turn, n
<1>5. Request(c).system = c.system
  BY DEF Request
<1> DEFINE text == c.turns[1].text
<1>6. text > 0
  BY <1>3, <1>4
<1>7. CASE c.dialect = "openai"
  <2> DEFINE result(i) == IF c.turns[i].role = "tool" THEN c.turns[i].text ELSE 0
             m(i) == Message(i, c.turns[i].role, c.turns[i].text, result(i), c.turns[i].args,
                             c.turns[i].shape)
             t == [i \in DOMAIN c.turns |-> m(i)]
             first == Message(0, "system", c.system, 0, 0, "log")
  <2>1. ASSUME NEW i \in 1 .. n PROVE m(i) \in SpeakT /\ m(i).id = i /\ m(i).role # "system"
    <3> DEFINE u == c.turns[i]
    <3>1. /\ i \in Nat /\ u.role \in {"user", "assistant", "tool"} /\ u.text \in Nat
          /\ u.args \in Nat /\ u.shape \in Shapes /\ (u.role # "assistant" => u.text > 0)
      BY <1>4, ZenonT(30)
    <3>2. result(i) \in Nat /\ (u.role = "user" => (u.text = 0 <=> result(i) # 0))
      BY <3>1, SMTT(20)
    <3> HIDE DEF u
    <3> DEFINE x == Message(i, u.role, u.text, result(i), u.args, u.shape)
    <3> HIDE DEF result
    <3>3. x \in SpeakT /\ x.id = i /\ x.role = u.role
      <4>1. u.role \in {"system", "user", "assistant", "tool"}
        BY <3>1, Zenon
      <4> QED BY ONLY <3>1, <3>2, <4>1, ZenonT(30) DEF Message, MessageT, SpeakT
    <3>4. m(i) = x
      BY ZenonT(30) DEF u
    <3> QED BY <3>1, <3>3, <3>4, ZenonT(30)
  <2>2. m(1).role = "user" /\ m(1).content = text
    BY <1>3, Zenon DEF Message
  <2>3. first \in SpeakT /\ first.id = 0 /\ first.role = "system"
    <3>1. "log" \in Shapes
      BY Zenon DEF Shapes
    <3> QED BY <1>2, <3>1, MessageSpeaks
  <2>4. Request(c).messages = (IF c.system > 0 THEN <<first>> ELSE <<>>) \o t
    BY <1>7, ZenonT(30) DEF Request, OpenAIMessages
  <2> HIDE DEF m, first
  <2>5. t \in Seq(SpeakT) /\ Len(t) = n /\ \A i \in 1 .. n : t[i] = m(i)
    BY <1>3, <2>1, SMTT(20)
  <2> HIDE DEF t
  <2>6. /\ t # <<>> /\ t[1].role = "user" /\ t[1].content = text
        /\ \A i \in 1 .. Len(t) : t[i].id = i /\ t[i].role # "system"
    BY <1>3, <2>1, <2>2, <2>5, SMTT(30)
  <2>7. CASE c.system > 0
    <3>1. Request(c).messages = <<first>> \o t
      BY <2>4, <2>7, ZenonT(30)
    <3>2. Adapted(<<first>> \o t, 1, n, text) /\ Len(<<first>> \o t) = 1 + n
      BY <2>3, <2>5, <2>6, TurnsAdapted, ZenonT(30)
    <3>3. Whole(Request(c), 1, n, text)
      BY <1>5, <1>6, <2>7, <3>1, <3>2, ZenonT(30) DEF Whole
    <3> QED BY <3>3, Zenon
  <2>8. CASE ~(c.system > 0)
    <3>1. Request(c).messages = <<>> \o t
      BY <2>4, <2>8, ZenonT(30)
    <3>2. Request(c).messages = t
      BY ONLY <2>5, <3>1, SMTT(30)
    <3>3. Adapted(t, 0, n, text) /\ Len(t) = 0 + n
      BY ONLY <1>3, <2>5, <2>6, TurnsAdapted, SMTT(30)
    <3>4. Whole(Request(c), 0, n, text)
      BY ONLY <1>6, <3>2, <3>3, SMTT(30) DEF Whole
    <3> QED BY <3>4, Zenon
  <2> QED BY <2>7, <2>8, ZenonT(30)
<1>8. CASE c.dialect # "openai"
  <2> DEFINE m(i) == IF c.turns[i].role = "tool"
                     THEN Message(i, "user", 0, c.turns[i].text, 0, c.turns[i].shape)
                     ELSE Message(i, c.turns[i].role, c.turns[i].text, 0, c.turns[i].args,
                                  c.turns[i].shape)
             f == [i \in DOMAIN c.turns |-> m(i)]
             t == Each(f)
  <2>1. ASSUME NEW i \in 1 .. n PROVE m(i) \in SpeakT /\ m(i).id = i /\ m(i).role # "system"
    <3> DEFINE u == c.turns[i]
    <3>1. /\ i \in Nat /\ u.role \in {"user", "assistant", "tool"} /\ u.text \in Nat
          /\ u.args \in Nat /\ u.shape \in Shapes /\ (u.role # "assistant" => u.text > 0)
      BY <1>4
    <3> HIDE DEF u
    <3>2. CASE u.role = "tool"
      <4> DEFINE x == Message(i, "user", 0, u.text, 0, u.shape)
      <4>1. x \in SpeakT /\ x.id = i /\ x.role = "user"
        <5>1. 0 \in Nat /\ (0 = 0 <=> u.text # 0)
          BY <3>1, <3>2
        <5> QED BY ONLY <3>1, <5>1, Zenon DEF Message, MessageT, SpeakT
      <4>2. m(i) = x
        BY <3>2, ZenonT(30) DEF u
      <4> QED BY <4>1, <4>2, ZenonT(30)
    <3>3. CASE u.role # "tool"
      <4> DEFINE x == Message(i, u.role, u.text, 0, u.args, u.shape)
      <4>1. x \in SpeakT /\ x.id = i /\ x.role = u.role
        <5>1. 0 \in Nat /\ (u.role = "user" => (u.text = 0 <=> 0 # 0))
          BY <3>1, <3>3, SMTT(30)
        <5>2. u.role \in {"system", "user", "assistant", "tool"}
          BY <3>1, Zenon
        <5> QED BY ONLY <3>1, <5>1, <5>2, MessageSpeaks, SMTT(30)
      <4>2. m(i) = x
        BY <3>3, ZenonT(30) DEF u
      <4> QED BY <3>1, <4>1, <4>2, ZenonT(30)
    <3> QED BY <3>2, <3>3, ZenonT(30)
  <2>2. m(1).role = "user" /\ m(1).content = text
    BY <1>3 DEF Message
  <2>3. Request(c).messages = t
    BY <1>8, Zenon DEF Request, AnthropicMessages
  <2> HIDE DEF m
  <2>4. f \in [1 .. n -> SpeakT] /\ \A i \in 1 .. n : f[i] = m(i)
    BY <1>3, <2>1, ZenonT(30)
  <2> HIDE DEF f
  <2>5. t \in Seq(SpeakT) /\ Len(t) = n /\ \A i \in 1 .. n : t[i] = f[i]
    BY ONLY <1>3, <2>4, EachType, ZenonT(30)
  <2> HIDE DEF t
  <2>6. /\ t # <<>> /\ t[1].role = "user" /\ t[1].content = text
        /\ \A i \in 1 .. Len(t) : t[i].id = i /\ t[i].role # "system"
    BY <1>3, <2>1, <2>2, <2>4, <2>5, SMTT(20)
  <2>7. Adapted(t, 0, n, text) /\ Len(t) = 0 + n
    BY ONLY <1>3, <2>5, <2>6, TurnsAdapted, SMTT(30)
  <2>8. Whole(Request(c), 0, n, text)
    BY <1>6, <2>3, <2>7 DEF Whole
  <2> QED BY <2>8, Zenon
<1> QED BY <1>7, <1>8

\* The messages of the request are never changed: only the output it asks for.
Opened == \E lead, n, text : Whole(request, lead, n, text)

LEMMA SendKeepsOrder ==
    ASSUME NEW e \in Endpoint, Try(e), pc' # "select", window[e] \in Nat, request \in RequestT,
           Opened, TailTurns >= 2
    PROVE  /\ DropsOldest(ToOpenAI(request).messages, sent'.ids)
           /\ Profile[e].family = "other" =>
                /\ \E i \in DOMAIN request.messages :
                    request.messages[i].id = 1 /\ sent'.root = {request.messages[i].content}
                /\ Fits(request, Available(e)) => sent'.verbatim
<1> DEFINE target == Available(e)
           small == compact(request, target)
           adapted == [small EXCEPT !.out = Desired(e)]
           prompt == prepare_request(Profile[e].family, adapted, Profile[e].maxOut).prompt
           messages == prompt.messages
           said == ToOpenAI(request).messages
<1>1. Send(e, adapted)
  <2>1. Pass(e) => pc' = pc
    BY DEF Pass
  <2>2. pc = "select"
    BY DEF Try
  <2> HIDE DEF adapted
  <2> QED BY <2>1, <2>2, ZenonT(30) DEF Try, adapted, small, target
<1>2. /\ sent'.ids = [i \in DOMAIN messages |-> messages[i].id]
      /\ sent'.root = {messages[i].content : i \in {j \in DOMAIN messages : messages[j].id = 1}}
      /\ sent'.verbatim = (prompt = ToOpenAI(request))
  <2> HIDE DEF adapted
  <2> QED BY <1>1, Zenon DEF Send
<1> HIDE DEF target
<1>3. PICK lead, n, text : Whole(request, lead, n, text)
  BY Zenon DEF Opened
<1>4. /\ Adapted(request.messages, lead, n, text) /\ Len(request.messages) = lead + n
      /\ text > 0 /\ (lead = 1 => request.system > 0)
  BY <1>3, Zenon DEF Whole
<1>5. small \in RequestT
  BY CompactType, ZenonT(30)
<1>6. /\ Adapted(small.messages, lead, n, text)
      /\ small.system = 0 <=> request.system = 0
      /\ Fits(request, target) => small = request
  BY <1>4, CompactAdapts, ZenonT(30)
<1> HIDE DEF small
<1>7. /\ adapted \in RequestT /\ adapted.messages = small.messages
      /\ adapted.system = small.system /\ adapted.tools = small.tools /\ adapted.prose = small.prose
  <2>1. Desired(e) \in Nat
    BY DesiredType
  <2>2. adapted \in RequestT
    BY <1>5, <2>1, ZenonT(30) DEF RequestT
  <2> QED BY <1>5, <2>2, ZenonT(30) DEF RequestT
<1> HIDE DEF adapted
<1>8. request.system \in Nat /\ small.system \in Nat
  BY <1>5, Zenon DEF RequestT
<1>9. Lead(adapted) = Lead(request) /\ (lead = 1 => adapted.system > 0)
  BY <1>4, <1>6, <1>7, <1>8, SMTT(30) DEF Lead
<1> DEFINE l == Lead(request)
<1>10. /\ ToOpenAI(adapted) \in PayloadT /\ Framed(ToOpenAI(adapted).messages, l, n)
       /\ ToOpenAI(adapted).messages[l + 1].content = text
  <2>1. Adapted(adapted.messages, lead, n, text)
    BY <1>6, <1>7, ZenonT(30)
  <2>2. /\ ToOpenAI(adapted) \in PayloadT
        /\ Framed(ToOpenAI(adapted).messages, Lead(adapted), n)
        /\ ToOpenAI(adapted).messages[Lead(adapted) + 1].content = text
    <3>1. adapted \in RequestT /\ text > 0
      BY <1>4, <1>7, Zenon
    <3>2. lead = 1 => adapted.system > 0
      BY <1>9, ZenonT(30)
    <3> QED BY ONLY <2>1, <3>1, <3>2, SaidAs, ZenonT(30)
  <2> QED BY <1>9, <2>2, ZenonT(30)
<1>11. ToOpenAI(request) \in PayloadT /\ Framed(said, l, n) /\ Len(said) = lead + n + l - lead
  BY <1>4, SaidAs, ZenonT(30)
<1>12. said \in Seq(SaidT) /\ Len(said) = l + n
  <2>1. lead \in {0, 1} /\ n \in Nat /\ l \in {0, 1}
    BY <1>4, <1>11, ZenonT(30) DEF Adapted, Framed
  <2>2. said \in Seq(SaidT)
    BY <1>11 DEF PayloadT
  <2> HIDE DEF l, said
  <2> QED BY <1>11, <2>1, <2>2
<1>13. /\ Prompted(prompt, l, n)
       /\ Profile[e].family = "other" => prompt = ToOpenAI(adapted)
  <2>1. Profile[e].family \in {"groq", "nvidia", "other"}
    BY AgentTurnAssumption
  <2>2. Prompted(ToOpenAI(adapted), l, n)
    BY <1>10, ZenonT(30) DEF Prompted
  <2> HIDE DEF l
  <2> QED BY <2>1, <2>2, PromptKeeps, ZenonT(30)
<1> HIDE DEF prompt, l, said
<1>14. messages \in Seq(SaidT) /\ Framed(messages, l, n)
  BY <1>13 DEF Prompted, PayloadT
<1>15. DropsOldest(said, sent'.ids)
  <2>1. DropsOldest(said, [i \in DOMAIN messages |-> messages[i].id])
    BY <1>11, <1>12, <1>14, FramedDropsOldest, ZenonT(30)
  <2> QED BY <1>2, <2>1, ZenonT(30)
<1>16. ASSUME Profile[e].family = "other"
       PROVE  \E i \in DOMAIN request.messages :
                    request.messages[i].id = 1 /\ sent'.root = {request.messages[i].content}
  <2>1. prompt = ToOpenAI(adapted) /\ messages[l + 1].content = text
    BY <1>10, <1>13, <1>16, ZenonT(30)
  <2>2. {j \in DOMAIN messages : messages[j].id = 1} = {l + 1}
    BY <1>14, RootPlace, ZenonT(30)
  <2>3. sent'.root = {text}
    BY <1>2, <2>1, <2>2, SMTT(20)
  <2>4. /\ request.messages \in Seq(SpeakT) /\ Framed(request.messages, lead, n)
        /\ request.messages[lead + 1].content = text
    BY <1>4, Zenon DEF Adapted
  <2>5. /\ lead + 1 \in DOMAIN request.messages
        /\ {j \in DOMAIN request.messages : request.messages[j].id = 1} = {lead + 1}
    BY <2>4, RootPlace, ZenonT(30)
  <2>6. request.messages[lead + 1].id = 1
    BY <2>5
  <2> QED BY <2>3, <2>4, <2>5, <2>6, ZenonT(30)
<1>17. ASSUME Profile[e].family = "other", Fits(request, target) PROVE sent'.verbatim
  <2> DEFINE P(m, system, tools, prose) == ToOpenAI([messages |-> m, system |-> system,
                                                     tools |-> tools, prose |-> prose])
             T(r) == P(r.messages, r.system, r.tools, r.prose)
  <2>1. \A r : ToOpenAI(r) = T(r)
    BY ZenonT(30) DEF ToOpenAI
  <2> HIDE DEF P
  <2>2. T(adapted) = T(request)
    BY <1>6, <1>7, <1>17, ZenonT(30)
  <2>3. prompt = ToOpenAI(request)
    BY <1>13, <1>17, <2>1, <2>2, ZenonT(30)
  <2> QED BY <1>2, <2>3, ZenonT(30)
<1> QED BY <1>15, <1>16, <1>17, ZenonT(30) DEF target, said

OrderInv == Opened /\ OldestDroppedFirst /\ RootVerbatim

LEMMA OrderIs ==
    /\ OldestDroppedFirst <=>
            (pc = "sent" => DropsOldest(ToOpenAI(request).messages, sent.ids))
    /\ OldestDroppedFirst' <=>
            (pc' = "sent" => DropsOldest(ToOpenAI(request').messages, sent'.ids))
BY Zenon DEF OldestDroppedFirst, DropsOldest

LEMMA OrderStep ==
    ASSUME TurnType, OrderInv, [Next]_vars, TailTurns >= 2
    PROVE  OrderInv'
<1>1. ASSUME NEW e \in Endpoint, Try(e) PROVE OrderInv'
  <2>1. /\ UNCHANGED <<request, window>>
        /\ \/ pc' = "select"
           \/ pc' = "sent" /\ sent'.to = e
    BY <1>1, TryMoves, Zenon
  <2>2. Opened'
    BY <2>1, ZenonT(30) DEF OrderInv, Opened
  <2>3. CASE pc' = "select"
    BY <2>2, <2>3, ZenonT(30) DEF OrderInv, OldestDroppedFirst, RootVerbatim
  <2>4. CASE pc' = "sent"
    <3>1. request \in RequestT /\ window[e] \in Nat /\ Opened
      BY DEF TurnType, OrderInv
    <3>2. sent'.to = e
      BY <2>1, <2>4
    <3>3. /\ DropsOldest(ToOpenAI(request).messages, sent'.ids)
          /\ Profile[e].family = "other" =>
                /\ \E i \in DOMAIN request.messages :
                    request.messages[i].id = 1 /\ sent'.root = {request.messages[i].content}
                /\ Fits(request, Available(e)) => sent'.verbatim
      BY <1>1, <2>4, <3>1, SendKeepsOrder, ZenonT(30)
    <3>4. Available(sent.to)' = Available(e)
      BY <2>1, <3>2, AvailableKept, ZenonT(30)
    <3>5. OldestDroppedFirst'
      BY <2>1, <3>3, OrderIs, ZenonT(30)
    <3>6. RootVerbatim'
      BY <2>1, <3>2, <3>3, <3>4, ZenonT(30) DEF RootVerbatim
    <3> QED BY <2>2, <3>5, <3>6, ZenonT(30) DEF OrderInv
  <2> QED BY <2>1, <2>3, <2>4, Zenon
<1>2. ASSUME NEW e \in Endpoint, NEW cause, NEW verdict, NEW limit, NEW cap,
             Failing(e, cause, verdict, limit, cap)
      PROVE  OrderInv'
  <2>1. pc' = "select" /\ limit \in Nat /\ cap \in Nat /\ Decide(e, verdict, limit, cap)
    BY <1>2, FailMoves, ZenonT(30) DEF Measured
  <2>2. OutputDecided(e, cap)
    BY <2>1, DecideKinds, Zenon
  <2>3. request'.messages = request.messages /\ request'.system = request.system
    BY <2>2 DEF TurnType, RequestT, OutputDecided
  <2>4. Opened'
    BY <2>3, Zenon DEF OrderInv, Opened, Whole
  <2> QED BY <2>1, <2>4, ZenonT(30) DEF OrderInv, OldestDroppedFirst, RootVerbatim
<1>3. CASE Rollover
  <2>1. pc' = "select" /\ request' = request
    BY <1>3, RolloverMoves
  <2>2. Opened'
    BY <2>1 DEF OrderInv, Opened
  <2> QED BY <2>1, <2>2, ZenonT(30) DEF OrderInv, OldestDroppedFirst, RootVerbatim
<1>4. CASE Quietly
  <2>1. UNCHANGED <<request, sent, window>> /\ (pc' = pc \/ pc' # "sent")
    BY <1>4 DEF Quietly, loop
  <2>2. Opened'
    BY <2>1 DEF OrderInv, Opened
  <2>3. Available(sent.to)' = Available(sent.to)
    BY <2>1, AvailableKept, ZenonT(30)
  <2>4. OldestDroppedFirst'
    BY <2>1, OrderIs, ZenonT(30) DEF OrderInv
  <2>5. RootVerbatim'
    BY <2>1, <2>3, ZenonT(30) DEF OrderInv, RootVerbatim
  <2> QED BY <2>2, <2>4, <2>5, ZenonT(30) DEF OrderInv
<1> QED BY <1>1, <1>2, <1>3, <1>4, StepKinds, Zenon

LEMMA OrderHolds ==
    ASSUME ClientsSpeak, TailTurns >= 2
    PROVE  Spec => []OrderInv
<1>1. Init => OrderInv
  <2> SUFFICES ASSUME Init PROVE OrderInv
    OBVIOUS
  <2>1. Opened
    BY RequestWhole, ZenonT(30) DEF Init, Opened
  <2>2. pc = "select"
    BY DEF Init
  <2> QED BY <2>1, <2>2, Zenon DEF OrderInv, OldestDroppedFirst, RootVerbatim
<1>2. TurnType /\ OrderInv /\ [Next]_vars => OrderInv'
  BY OrderStep
<1> QED BY <1>1, <1>2, TurnTypeHolds, PTL DEF Spec

\* Whatever the conversation, the windows and what providers refuse, compaction
\* and pruning together drop the oldest messages after the root objective and
\* nothing else, and put no message out of its place, provided that clients
\* open with the words of the user, send no empty message and the tail that is
\* kept has at least two turns (compact, prune_openai_request,
\* prune_for_groq_tpm).
THEOREM OldestAreDroppedFirst ==
    ASSUME ClientsSpeak, TailTurns >= 2
    PROVE  Spec => []OldestDroppedFirst
<1>1. OrderInv => OldestDroppedFirst
  BY Zenon DEF OrderInv
<1> QED BY <1>1, OrderHolds, PTL

\* Under the same assumptions every prompt that is not pruned has the root
\* objective in the client's words, once, and is the whole conversation if that
\* fits the budget (phases 1 and 3 of compact, ir_to_openai_request).
THEOREM RootStaysVerbatim ==
    ASSUME ClientsSpeak, TailTurns >= 2
    PROVE  Spec => []RootVerbatim
<1>1. OrderInv => RootVerbatim
  BY DEF OrderInv
<1> QED BY <1>1, OrderHolds, PTL

=============================================================================
