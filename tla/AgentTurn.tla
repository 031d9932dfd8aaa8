------------------------------- MODULE AgentTurn -------------------------------
(***************************************************************************)
(* One turn of an agent through GatewayExecutor.execute, with its data:    *)
(* the conversation is sized for the chosen model (ContextManager),        *)
(* converted and pruned (Pruner), sent; a refusal is classified            *)
(* (FailureClassifier) and decides what is sent next; an answer is         *)
(* validated (ToolValidator) before the client gets it.  Executor has the  *)
(* control of the same loop in full; here there is one request, every      *)
(* endpoint is of a provider of its own with one key and no lane, there is *)
(* no budget and no breaker, the pool is smaller than max_fallback_hops,   *)
(* and the deadline is only felt as too short for another wait.  The       *)
(* candidates are taken in any order, so the success rates by which the    *)
(* router ranks them, which every failure lowers, are left out.            *)
(*                                                                         *)
(* Providers are honest: they refuse a prompt because of its size only if  *)
(* it exceeds their real limit, and name an output cap only if more was    *)
(* asked for.                                                              *)
(***************************************************************************)
EXTENDS Integers, FailureClassifier, Pruner, ToolValidator

CONSTANTS
    Endpoint,       \* the endpoints of the pool
    Profile,        \* of an endpoint: window, maxOut, tools, family
    Holds,          \* of an endpoint: the tokens it really takes, prompt and output
    OutputCap,      \* of an endpoint: the output it really allows
    Conversations,  \* what clients send
    Schemas,        \* of the tools the request offers
    Replies,        \* what models answer with status 200
    MaxTotal,       \* max_total_attempts
    MaxSame,        \* max_attempts_same_endpoint
    MaxWaits,       \* max_rate_limit_waits
    MaxMishaps      \* bound: refusals and bad answers that no limit explains

ASSUME AgentTurnAssumption ==
    /\ \A e \in Endpoint :
        /\ Profile[e].family \in {"groq", "nvidia", "other"}
        /\ Holds[e] \in Nat /\ OutputCap[e] \in Nat
        /\ Profile[e].window \in Nat /\ Profile[e].maxOut \in 1 .. Profile[e].window
    /\ \A c \in Conversations :
        /\ {c.system, c.tools, c.prose, c.out} \subseteq Nat
        /\ c.turns \in Seq([role : {"user", "assistant", "tool"}, text : Nat, args : Nat,
                             shape : Shapes])
    /\ \A answer \in Replies : \A i \in DOMAIN answer.calls :
        IsObject(answer.calls[i].source.object)
    /\ MaxTotal \in Nat /\ MaxSame \in Nat /\ MaxWaits \in Nat /\ MaxMishaps \in Nat

\* Clients open a conversation with the words of the user, and no message of a
\* user or of a tool is empty.
ClientsSpeak ==
    \A c \in Conversations :
        /\ c.turns # <<>> /\ c.turns[1].role = "user"
        /\ \A i \in DOMAIN c.turns : c.turns[i].role # "assistant" => c.turns[i].text > 0

VARIABLES
    request,   \* NormalizedRequest: system, messages, tools, prose, out (0: not given)
    pc,        \* where the loop is
    at,        \* _endpoints_attempted, the latest last
    total,     \* how many attempts there were
    sent,      \* what was last sent and to whom, if anything was
    excluded,  \* excluded_endpoints, a list: how often it holds each endpoint
    limited,   \* the endpoints with an attempt that hit a short rate limit
    waits,     \* rate_limit_waits
    window,    \* the window assumed of each endpoint: window_shrink
    clamped,   \* output_cap_retried
    dead,      \* the router's dead list
    reply,     \* the tool calls the client got
    last,      \* history: what each endpoint last said, "nothing" if nothing
    counted,   \* history: what counted as a failure in a breaker's window
    named,     \* history: the size limit the window was shrunk for, 0 if none
    capped,    \* history: the output cap the output was clamped for, 0 if none
    refused,   \* history: how often each endpoint refused a prompt for its size
    mishaps    \* history: how many of MaxMishaps there were

loop == <<request, at, total, excluded, limited, waits, window, clamped, dead>>
history == <<last, counted, named, capped, refused, mishaps>>
vars == <<loop, pc, sent, reply, history>>

-----------------------------------------------------------------------------
(* What the client sends.                                                  *)

\* openai_request_to_ir: the system message stays in the conversation and is
\* the system instruction too; the text of a tool message is its result too.
OpenAIMessages(c) ==
    (IF c.system > 0 THEN <<Message(0, "system", c.system, 0, 0, "log")>> ELSE <<>>)
        \o [i \in DOMAIN c.turns |->
                LET m == c.turns[i] IN
                Message(i, m.role, m.text, IF m.role = "tool" THEN m.text ELSE 0, m.args,
                        m.shape)]

\* anthropic_request_to_ir: a tool result is a block of a user message.
AnthropicMessages(c) ==
    Each([i \in DOMAIN c.turns |->
        LET m == c.turns[i] IN
        IF m.role = "tool" THEN Message(i, "user", 0, m.text, 0, m.shape)
        ELSE Message(i, m.role, m.text, 0, m.args, m.shape)])

Request(c) ==
    [system |-> c.system, tools |-> c.tools, prose |-> c.prose, out |-> c.out,
     messages |-> IF c.dialect = "openai" THEN OpenAIMessages(c) ELSE AnthropicMessages(c)]

Nothing == [to |-> "nobody", tokens |-> 0, out |-> 0, ids |-> <<>>, size |-> 0, root |-> {},
            verbatim |-> TRUE]

Init ==
    /\ \E c \in Conversations : request = Request(c)
    /\ pc = "select"
    /\ at = <<>>
    /\ total = 0
    /\ sent = Nothing
    /\ excluded = [e \in Endpoint |-> 0]
    /\ limited = {}
    /\ waits = 0
    /\ window = [e \in Endpoint |-> Profile[e].window]
    /\ clamped = {}
    /\ dead = {}
    /\ reply = <<>>
    /\ last = [e \in Endpoint |-> "nothing"]
    /\ counted = {}
    /\ named = [e \in Endpoint |-> 0]
    /\ capped = [e \in Endpoint |-> 0]
    /\ refused = [e \in Endpoint |-> 0]
    /\ mishaps = 0

-----------------------------------------------------------------------------
(* Choosing an endpoint, and sizing the request for it.                    *)

Tries(e) == Cardinality({i \in DOMAIN at : at[i] = e})

\* matches_hard_constraints, of a request without constraints of its own.
Suits(e) == request.tools > 0 => Profile[e].tools

\* select_candidate.  An exhausted quota may end while the turn lasts.
Eligible == {e \in Endpoint \ dead : excluded[e] = 0 /\ Suits(e)}

Margin(e) == IF window[e] > 8000 THEN 2048 ELSE Smaller(512, window[e] \div 10)

\* desired_output: what the client asked for, as far as model and window allow.
Desired(e) ==
    LET most == Profile[e].maxOut
        asked == Smaller(IF request.out > 0 THEN request.out ELSE most, most)
        room == window[e] - Margin(e) - Estimate(request)
    IN  IF room < asked /\ asked > 1024 THEN Larger(1024, Smaller(asked, room)) ELSE asked

\* ContextBudget.available_input_budget.
Available(e) == Larger(512, window[e] - Desired(e) - Margin(e))

Shrunk(e) == window[e] # Profile[e].window

\* The last element of a sequence.
Last(s) == s[Len(s)]

\* validate_next_candidate: not back to an endpoint that was left.
Revisits(e) == Tries(e) > 0 /\ Last(at) # e

\* The three ways in which a candidate is passed over: it was left before, the
\* protected content does not fit, or a size rejection left nothing to compact.
PassedOver(e, adapted) ==
    \/ Revisits(e)
    \/ ~Fits(adapted, Available(e))
    \/ Shrunk(e) /\ Fits(request, Available(e))

Exclude(e, times) == excluded' = [excluded EXCEPT ![e] = @ + times]

Pass(e) ==
    /\ Exclude(e, 1)
    /\ UNCHANGED <<request, pc, at, total, sent, limited, waits, window, clamped, dead, reply,
                   history>>

\* The prompt that goes out, by the places its messages had in the
\* conversation, and what it has as the root objective.
Send(e, adapted) ==
    LET payload == prepare_request(Profile[e].family, adapted, Profile[e].maxOut)
        messages == payload.prompt.messages
    IN  /\ pc' = "sent"
        /\ at' = Append(at, e)
        /\ total' = total + 1
        /\ sent' = [to |-> e, tokens |-> Estimate(adapted), out |-> payload.out,
                    ids |-> [i \in DOMAIN messages |-> messages[i].id],
                    size |-> PayloadTokens(payload.prompt),
                    root |-> {messages[i].content :
                                i \in {j \in DOMAIN messages : messages[j].id = 1}},
                    verbatim |-> payload.prompt = ToOpenAI(request)]
        /\ UNCHANGED <<request, excluded, limited, waits, window, clamped, dead, reply, history>>

\* The loop turns to a candidate.
Try(e) ==
    LET adapted == [compact(request, Available(e)) EXCEPT !.out = Desired(e)] IN
    /\ pc = "select"
    /\ total < MaxTotal
    /\ e \in Eligible
    /\ \/ PassedOver(e, adapted) /\ Pass(e)
       \/ ~PassedOver(e, adapted) /\ Send(e, adapted)

\* Excluded endpoints with a rate limit that may have passed after a wait.
Readmissible == {e \in limited : excluded[e] > 0}

\* Mutated: the clamp of the output is forgotten with the attempts.
RolloverAnew ==
    LET back == Readmissible IN
    /\ pc = "select"
    /\ total < MaxTotal
    /\ Eligible = {}
    /\ back # {} /\ waits < MaxWaits
    /\ waits' = waits + 1
    /\ excluded' = [e \in Endpoint |-> IF e \in back THEN excluded[e] - 1 ELSE excluded[e]]
    /\ at' = SelectSeq(at, LAMBDA e : e \notin back)
    /\ clamped' = clamped \ back
    /\ request' = [request EXCEPT !.out = 0]
    /\ UNCHANGED <<pc, total, sent, limited, window, dead, reply, history>>

\* No candidate is left: wait for the rate limits, take each endpoint off the
\* list once, and forget its attempts (reset_for_rate_limit_retry).  The loop's
\* condition keeps the total below its limit, which is therefore not raised;
\* windows and clamps stay as they are.
Rollover ==
    LET back == Readmissible IN
    /\ pc = "select"
    /\ total < MaxTotal
    /\ Eligible = {}
    /\ back # {} /\ waits < MaxWaits
    /\ waits' = waits + 1
    /\ excluded' = [e \in Endpoint |-> IF e \in back THEN excluded[e] - 1 ELSE excluded[e]]
    /\ at' = SelectSeq(at, LAMBDA e : e \notin back)
    /\ UNCHANGED <<request, pc, total, sent, limited, window, clamped, dead, reply, history>>

\* No attempt is left, or no candidate and no rate limit, or no time, to wait for.
GiveUp ==
    /\ pc = "select"
    /\ total >= MaxTotal \/ Eligible = {}
    /\ pc' = "failed"
    /\ UNCHANGED <<loop, sent, reply, history>>

-----------------------------------------------------------------------------
(* What providers say, and what the loop makes of it.                      *)

\* Causes that the limits of the endpoint explain, and the others.
Limits == {"tooLarge", "outputCap"}
Mishaps == {"rate", "daily", "unpaid", "gone", "credentials", "blocked", "badRequest", "outage"}

\* The limit that ends the attempt, if the provider keeps one.
LimitHit(e) ==
    IF sent.size + sent.out > Holds[e] THEN {"tooLarge"}
    ELSE IF sent.out > OutputCap[e] THEN {"outputCap"} ELSE {}

\* can_attempt_endpoint.
CanAttempt(e) == total < MaxTotal /\ Tries(e) < MaxSame

\* Mutated: the window is halved whatever limit the provider named.
ShrinkByHalf(e, limit) == Profile[e].window \div 2

\* The window to assume after a size rejection: a margin below the limit the
\* provider named, within a tenth and 95% of the window; half of it if none.
Shrink(e, limit) ==
    LET full == Profile[e].window IN
    IF limit = 0 THEN full \div 2
    ELSE Larger(full \div 10, Smaller((full * 95) \div 100, Larger(1000, (limit * 85) \div 100)))

\* The output to ask for after a cap, 0 if it was not named.
Clamp(e, cap) ==
    LET now == IF request.out > 0 THEN request.out ELSE Profile[e].maxOut IN
    IF cap = 0 THEN Smaller(now, 1024) ELSE IF cap > 64 THEN cap - 64 ELSE cap

Clamps(e, verdict) ==
    verdict.reason = "output_cap_exceeded" /\ e \notin clamped /\ CanAttempt(e)

\* Mutated: every size rejection shrinks the window.
ShrinksAgain(e, verdict) == verdict.reason = "payload_too_large" /\ CanAttempt(e)

Shrinks(e, verdict) ==
    verdict.reason = "payload_too_large" /\ ~Shrunk(e) /\ CanAttempt(e)

\* The decision: ask for less output, compact and try again, try again, or
\* leave the endpoint; also if the back-off would outlast the deadline.  The
\* list gets an endpoint twice if it is dead or its account exhausted.
Decide(e, verdict, limit, cap) ==
    \/ /\ Clamps(e, verdict)
       /\ clamped' = clamped \cup {e}
       /\ request' = [request EXCEPT !.out = Clamp(e, cap)]
       /\ capped' = [capped EXCEPT ![e] = cap]
       /\ UNCHANGED <<excluded, window, named>>
    \/ /\ ~Clamps(e, verdict) /\ Shrinks(e, verdict)
       /\ window' = [window EXCEPT ![e] = Shrink(e, limit)]
       /\ named' = [named EXCEPT ![e] = limit]
       /\ UNCHANGED <<excluded, clamped, request, capped>>
    \/ /\ ~Clamps(e, verdict) /\ ~Shrinks(e, verdict)
       /\ verdict.retryable /\ CanAttempt(e)
       /\ UNCHANGED <<excluded, clamped, window, request, capped, named>>
    \/ /\ ~Clamps(e, verdict) /\ ~Shrinks(e, verdict)
       /\ \E times \in IF verdict.permanent THEN {2}
                       ELSE IF verdict.reason = "billing" THEN {1, 2} ELSE {1} :
            Exclude(e, times)
       /\ UNCHANGED <<clamped, window, request, capped, named>>

\* Everything the loop does with a classified failure.  The breaker's window
\* takes only the failures that poison health.  A rate limit is short or not.
Fail(e, cause, verdict, limit, cap) ==
    /\ pc' = "select"
    /\ last' = [last EXCEPT ![e] = cause]
    /\ counted' = IF verdict.poisons THEN counted \cup {cause} ELSE counted
    /\ dead' = IF verdict.permanent THEN dead \cup {e} ELSE dead
    /\ limited' \in {limited} \cup
            IF verdict.reason \in {"rate_limit", "upstream_rate_limit"}
            THEN {limited \cup {e}} ELSE {}
    /\ Decide(e, verdict, limit, cap)
    /\ UNCHANGED <<at, total, waits, sent, reply>>

Reached(e) == pc = "sent" /\ sent.to = e

\* The provider keeps one of its limits, and may name it.
TooLarge(e) == \E r \in Refusals("tooLarge") :
    /\ Reached(e)
    /\ "tooLarge" \in LimitHit(e)
    /\ refused' = [refused EXCEPT ![e] = @ + 1]
    /\ Fail(e, "tooLarge", classify_failure(r.code, r.text),
            IF "named" \in r.text THEN Holds[e] ELSE 0, 0)
    /\ UNCHANGED mishaps

OverCap(e) == \E r \in Refusals("outputCap"), cap \in {0, OutputCap[e]} :
    /\ Reached(e)
    /\ "outputCap" \in LimitHit(e)
    /\ Fail(e, "outputCap", classify_failure(r.code, r.text), 0, cap)
    /\ UNCHANGED <<refused, mishaps>>

\* Something that no limit explains goes wrong, within the bound.
Mishap(e) ==
    /\ Reached(e)
    /\ LimitHit(e) = {}
    /\ mishaps < MaxMishaps
    /\ mishaps' = mishaps + 1
    /\ UNCHANGED refused

\* It refuses for another reason.
Refuses(e) == \E cause \in Mishaps : \E r \in Refusals(cause) :
    Mishap(e) /\ Fail(e, cause, classify_failure(r.code, r.text), 0, 0)

\* It answers 200 with something that is no answer: normalize_response raises
\* on an empty body and on one that is not JSON.
Garbles(e) == \E text \in {{"empty"}, {}} :
    /\ Mishap(e)
    /\ Fail(e, IF text = {} THEN "garbled" ELSE "emptyBody", classify_failure(502, text), 0, 0)

\* The schemas of the tools that this request offers.
Offered == IF request.tools > 0 THEN Schemas ELSE <<>>

Executable(answer) == \A i \in DOMAIN answer.calls : executable(answer.calls[i], Offered)

\* The first call of an answer that cannot be executed, if there is one.
Faulty(answer) ==
    {answer.calls[i] : i \in {j \in DOMAIN answer.calls :
        /\ ~executable(answer.calls[j], Offered)
        /\ \A k \in 1 .. j - 1 : executable(answer.calls[k], Offered)}}

\* It answers with a body that fails the checks, or calls a tool wrongly.
Rejected(e) == \E answer \in Replies :
    /\ Mishap(e)
    /\ ~Sane(answer) \/ \E call \in Faulty(answer) : rejected(call, Offered)
    /\ Fail(e, "badAnswer",
            Verdict(IF Sane(answer) THEN "malformed_tool_call"
                    ELSE IF answer.text = "bomb" THEN "output_cap_exceeded"
                    ELSE "empty_completion", FALSE, FALSE, FALSE), 0, 0)

\* The validation of a call raises, which is taken for a body that is no answer.
Unreadably(e) == \E answer \in Replies :
    /\ Mishap(e)
    /\ Sane(answer) /\ \E call \in Faulty(answer) : raising(call, Offered)
    /\ Fail(e, "garbled", classify_failure(502, {}), 0, 0)

\* It answers, and the client gets the calls with their validated arguments.
Answered(e) == \E answer \in Replies :
    /\ Reached(e)
    /\ LimitHit(e) = {}
    /\ Sane(answer) /\ Executable(answer)
    /\ pc' = "done"
    /\ reply' = [i \in DOMAIN answer.calls |->
                    [call |-> answer.calls[i], arguments |-> validated(answer.calls[i], Offered),
                     form |-> delivered(answer.calls[i], Offered)]]
    /\ UNCHANGED <<loop, sent, history>>

\* The request is over.
Over == pc \in {"done", "failed"} /\ UNCHANGED vars

Next ==
    \/ \E e \in Endpoint :
        Try(e) \/ TooLarge(e) \/ OverCap(e) \/ Refuses(e) \/ Garbles(e)
            \/ Rejected(e) \/ Unreadably(e) \/ Answered(e)
    \/ Rollover
    \/ GiveUp
    \/ Over

Spec == Init /\ [][Next]_vars

-----------------------------------------------------------------------------

\* An endpoint refuses prompts for their size at most twice, and once more after
\* every wait for a rate limit: the window is shrunk once in a turn, and the
\* next size rejection leaves the endpoint (window_shrink, the `infinite retry
\* loop' of UFM-01 in durallm-roadmap.md).
SizeRefusalsBounded == \A e \in Endpoint : refused[e] <= 2 + waits

\* What the estimate of a prompt leaves out: tool definitions and JSON.
Uncounted ==
    Tokens(Envelope + Framing * Len(ToOpenAI(request).messages) + request.tools + request.prose)

\* After the window was shrunk for a limit that the provider named, the payload
\* and the output asked for are within that limit in every later prompt of the
\* turn, if what the estimate leaves out is within the 15% that the loop keeps
\* free for it.  The loop does not go below 1000 tokens and a tenth of the
\* model's window, nor below prompts of 512 tokens.
NamedLimitHonoured ==
    \A e \in Endpoint :
        /\ Reached(e) /\ sent.tokens > 512
        /\ (named[e] * 85) \div 100 >= Larger(1000, Profile[e].window \div 10)
        /\ Uncounted <= (named[e] * 15) \div 100
        => sent.size + sent.out <= named[e]

\* After the output was clamped to the cap that an endpoint named, nothing in the
\* turn asks that endpoint for more: no clamp for another endpoint, and no
\* readmission after a rate limit (max_output_tokens of the request).  A cap
\* that is named after a clamp to the default of 1024 is not acted on.
ClampKept == \A e \in Endpoint : Reached(e) /\ capped[e] > 0 => sent.out <= capped[e]

\* Compaction and pruning together drop the oldest messages after the root
\* objective and nothing else: system message, root objective and the last two
\* messages are in every prompt, and no message is out of its place.
OldestDroppedFirst ==
    LET said == ToOpenAI(request).messages
        ids == {said[i].id : i \in DOMAIN said}
        kept == Range(sent.ids)
        final == {said[i].id : i \in {Len(said) - 1, Len(said)} \cap DOMAIN said}
    IN  pc = "sent" =>
            /\ kept \subseteq ids
            /\ \A i \in ids \ kept :
                /\ i \notin {0, 1} \cup final
                /\ \A j \in ids : 1 < j /\ j < i => j \notin kept
            /\ \A i, j \in DOMAIN sent.ids : i < j => sent.ids[i] <= sent.ids[j]

\* The model reads the root objective in the client's words, and the whole
\* conversation if that fits, unless the prompt is pruned for Groq or NVIDIA
\* (phases 1 and 3 leave the root alone, compact returns what fits unchanged).
RootVerbatim ==
    pc = "sent" /\ Profile[sent.to].family = "other" =>
        /\ \E i \in DOMAIN request.messages :
            request.messages[i].id = 1 /\ sent.root = {request.messages[i].content}
        /\ Fits(request, Available(sent.to)) => sent.verbatim

\* The failures in a breaker's window are those of the provider and its account:
\* rate limits, unpaid bills, firewalls, outages, and answers that are not JSON
\* or whose numbers cannot be read.  The size of a request, its faults, a spent
\* daily allowance, a model that is gone, wrong keys and rejected answers are
\* not among them (classify_failure, poisons_health).
BreakerFair == counted \subseteq {"rate", "unpaid", "blocked", "outage", "garbled"}

\* A model is given up for good only because it is gone, unpaid for or refuses
\* the key; a firewall's 403 is taken for the latter (classify_failure).
DeadOnlyIfGone ==
    \A e \in dead : last[e] \in {"gone", "unpaid", "credentials", "blocked"}

\* Every call the client gets names a tool it offered, with arguments that
\* conform to the tool's schema as far as the validator looks into it.  No
\* argument is invented, and one that had its type in a source that needed no
\* mending is the model's own.  What goes out is JSON, or a source that a parser
\* accepts which allows control characters in strings (validate_tool_call).
DeliveredConforms ==
    pc = "done" => \A i \in DOMAIN reply :
        LET call == reply[i].call
            arguments == reply[i].arguments
            schema == Schemas[call.tool]
            own == Unwrapped(call.source.object, schema)
        IN  /\ request.tools > 0 /\ call.tool \in DOMAIN Schemas
            /\ Conforms(arguments, schema)
            /\ DOMAIN arguments \subseteq DOMAIN own
            /\ call.source.form \in {"json", "loose"} =>
                    \A k \in DOMAIN own :
                        \/ arguments[k] = own[k]
                        \/ /\ k \in DOMAIN schema.properties
                           /\ \/ own[k].type \notin Accepts(schema.properties[k])
                              \/ schema.properties[k] \in {"object", "array"}
            /\ reply[i].form \in {"json", "loose"}

=============================================================================
