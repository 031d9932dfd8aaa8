----------------------------- MODULE NativeStream -----------------------------
(***************************************************************************)
(* One streamed request, from the POST handler of proxy.py through         *)
(* GatewayExecutor.open_native_stream to the relay of the provider's bytes *)
(* to the client (NativeStreamHandle, _HTTPResponseByteStream).            *)
(*                                                                         *)
(* Router, breakers and providers answer as they like, as in Executor; the *)
(* attempt store may fail; the client may leave or stop reading at any     *)
(* time.  What the loop does to health, pools and lanes is in Gateway.     *)
(***************************************************************************)
EXTENDS Naturals, Sequences, FiniteSets, Functions

CONSTANTS Endpoint,    \* the endpoints of the pool
          NoEndpoint,  \* before the first admission
          Suits,       \* those that speak the client's protocol and stream
          Provider,    \* the provider of each endpoint
          Query,       \* the requests that clients send
          MaxTotal,    \* policy.max_total_attempts
          MaxSame,     \* policy.retry.max_attempts_same_endpoint
          MaxHops,     \* policy.fallback.max_fallback_hops
          MaxWaits,    \* max_rate_limit_waits
          MaxChunks    \* MAX_PAYLOAD_BYTES, in chunks

\* What the handlers look at in a request.  "service" stands for the other
\* endpoints, whose handlers are in the modules of what they drive.
Queries == [front : {"http", "asgi"}, path : {"chat", "count", "service", "unknown"},
            body : {"good", "bad"}, headers : {"good", "bad"},
            mode : {"atomic_buffered", "true_streaming", "unknown"},
            stream : BOOLEAN, acp : BOOLEAN, tools : BOOLEAN]

ASSUME ConstantsAssumption ==
    /\ IsFiniteSet(Endpoint) /\ NoEndpoint \notin Endpoint
    /\ Suits \subseteq Endpoint
    /\ DOMAIN Provider = Endpoint
    /\ Query \subseteq Queries
    /\ {MaxTotal, MaxSame, MaxHops, MaxWaits} \subseteq Nat
    /\ MaxChunks \in Nat \ {0}

VARIABLES
    pc,       \* where the handler's thread is
    query,    \* the request, once it is read
    client,   \* whether the client reads, and what it has got
    loop,     \* the local variables of open_native_stream and its AttemptLedger
    log,      \* history: one entry for each admission by a breaker
    open,     \* upstream connections that are open
    stream    \* the relayed stream: chunks read, how it ended, a write succeeded

vars == <<pc, query, client, loop, log, open, stream>>

\* How an attempt fails before its first chunk, as in Executor.
Kind == {"rateLimit", "transient", "final", "account", "dead"}
RetryableKind == {"rateLimit", "transient"}

Entry == [ep : Endpoint, row : {"none", "prepared", "failed", "succeeded", "interrupted"},
          verdict : {"none", "success", "failure"}, short : BOOLEAN]

\* How a relayed stream ends; the first two look alike to the relay.
Ended == {"clean", "cut"}
Ends == {"none", "broken"} \cup Ended

Pc == {"idle", "select", "admitted", "prepared", "opened", "handle", "relay", "read",
       "broken", "over"} \cup Kind

FreshLoop == [excluded |-> [e \in Endpoint |-> 0], counts |-> [e \in Endpoint |-> 0],
              trail |-> <<>>, hops |-> 0, waits |-> 0, gone |-> {}]

Init ==
    /\ pc = "idle"
    /\ query \in Query
    /\ client = [is |-> "reading", got |-> <<>>]
    /\ loop = FreshLoop
    /\ log = <<>>
    /\ open = 0
    /\ stream = [read |-> 0, end |-> "none", visible |-> FALSE]

\* The admission that the handler is at work on, and its endpoint.
Latest == log[Len(log)]
Now == IF log = <<>> THEN NoEndpoint ELSE Latest.ep

\* The latest admission, with what is now known of it.
Noted(row, verdict) ==
    log' = [log EXCEPT ![Len(log)] = [@ EXCEPT !.row = row, !.verdict = verdict]]

Got(x) ==
    client' = IF client.is = "reading" THEN [client EXCEPT !.got = Append(@, x)] ELSE client

\* The handler answers with one JSON document and is done.
Reply(x) == pc' = "over" /\ Got(x)

\* An exception that is no gateway error leaves the handler: no answer is sent.
Raise == pc' = "over" /\ UNCHANGED client

-----------------------------------------------------------------------------
(* The handlers of POST.                                                   *)

\* Both answer the two chat paths alike: "error" or "answer" at once, "serve"
\* atomically, or "open" a native stream.
Chat(q) ==
    CASE q.mode = "unknown" -> "error"
      [] q.mode = "true_streaming" /\ q.stream -> IF q.acp THEN "error" ELSE "open"
      [] OTHER -> "serve"

\* CircuitBreakerGatewayHandler.do_POST
DoPost(q) ==
    CASE q.body = "bad" -> "error"
      [] q.path = "service" -> "answer"
      [] q.headers = "bad" -> "error"
      [] q.path = "count" -> "answer"
      [] q.path = "unknown" -> "error"
      [] OTHER -> Chat(q)

\* The ASGI application: count_tokens does not read the headers.
AsgiPost(q) ==
    CASE q.body = "bad" \/ q.path = "unknown" -> "error"
      [] q.path \in {"service", "count"} -> "answer"
      [] q.headers = "bad" -> "error"
      [] OTHER -> Chat(q)

Handled(q) == IF q.front = "http" THEN DoPost(q) ELSE AsgiPost(q)

Receive ==
    /\ pc = "idle"
    /\ CASE Handled(query) \in {"error", "answer"} -> Reply(Handled(query))
         [] Handled(query) = "serve" -> \E x \in {"error", "answer"} : Reply(x)
         [] Handled(query) = "open" ->
                IF query.tools THEN Reply("error") ELSE pc' = "select" /\ UNCHANGED client
    /\ UNCHANGED <<query, loop, log, open, stream>>

-----------------------------------------------------------------------------
(* The loop of open_native_stream.                                         *)

Attempts == Cardinality({i \in DOMAIN log : log[i].verdict # "none"})

Selects == pc = "select" /\ Attempts < MaxTotal

Offered == {e \in Endpoint \ loop.gone : loop.excluded[e] = 0}

Excluding(e) == [loop EXCEPT !.excluded[e] = @ + 1]

Valid(e) ==
    /\ loop.hops < MaxHops
    /\ e \in Range(loop.trail) => e = loop.trail[Len(loop.trail)]

RateLimited ==
    {e \in Endpoint : loop.excluded[e] > 0 /\
                      \E i \in DOMAIN log : log[i].ep = e /\ log[i].short}

\* Mutated: the wait is not counted.
RolloverUncounted ==
    LET back == RateLimited IN
    /\ Selects
    /\ back # {} /\ loop.waits < MaxWaits
    /\ loop' = [loop EXCEPT
                !.excluded = [e \in Endpoint |-> IF e \in back THEN @[e] - 1 ELSE @[e]],
                !.counts = [e \in Endpoint |-> IF e \in back THEN 0 ELSE @[e]],
                !.trail = SelectSeq(@, LAMBDA e : e \notin back),
                !.hops = 0]
    /\ UNCHANGED <<pc, query, client, log, open, stream>>

\* The router has no candidate: wait for the rate limits, readmit their
\* endpoints.
Rollover ==
    LET back == RateLimited IN
    /\ Selects
    /\ back # {} /\ loop.waits < MaxWaits
    /\ loop' = [loop EXCEPT
                !.waits = @ + 1,
                !.excluded = [e \in Endpoint |-> IF e \in back THEN @[e] - 1 ELSE @[e]],
                !.counts = [e \in Endpoint |-> IF e \in back THEN 0 ELSE @[e]],
                !.trail = SelectSeq(@, LAMBDA e : e \notin back),
                !.hops = 0]
    /\ UNCHANGED <<pc, query, client, log, open, stream>>

\* No attempt, time or candidate is left.
GiveUp ==
    /\ pc = "select"
    /\ Reply("error")
    /\ UNCHANGED <<query, loop, log, open, stream>>

\* The candidate speaks another protocol or does not stream, is refused by the
\* AttemptLedger or by its breaker.
Pass(e) ==
    /\ Selects
    /\ e \in Offered
    /\ loop' = Excluding(e)
    /\ UNCHANGED <<pc, query, client, log, open, stream>>

Admit(e) ==
    /\ Selects
    /\ e \in Offered \cap Suits
    /\ Valid(e)
    /\ log' = Append(log, [ep |-> e, row |-> "none", verdict |-> "none", short |-> FALSE])
    /\ pc' = "admitted"
    /\ UNCHANGED <<query, client, loop, open, stream>>

\* The context does not fit, or the adapter has no open_stream: the candidate is
\* left without a word to the breaker that admitted it.
Leave ==
    /\ pc = "admitted"
    /\ loop' = Excluding(Now)
    /\ pc' = "select"
    /\ UNCHANGED <<query, client, log, open, stream>>

\* The request cannot be made a stream, or the store refuses the row.
PrepareFails ==
    /\ pc = "admitted"
    /\ Reply("error") \/ Raise
    /\ UNCHANGED <<query, loop, log, open, stream>>

Prepare ==
    /\ pc = "admitted"
    /\ Noted("prepared", "none")
    /\ pc' = "prepared"
    /\ UNCHANGED <<query, client, loop, open, stream>>

-----------------------------------------------------------------------------
(* BaseHTTPAdapter.open_stream and the first chunk.                        *)

\* The deadline has passed, or a policy forbids the URL, the request or the
\* size of the answer: the connection, if there is one, is closed.
OpenRefused ==
    /\ pc = "prepared"
    /\ Reply("error")
    /\ UNCHANGED <<query, loop, log, open, stream>>

\* Mutated: the connection of an error status is kept.
OpenFailsOpen(k) ==
    /\ pc = "prepared"
    /\ pc' = k
    /\ open' = open + 1
    /\ UNCHANGED <<query, client, loop, log, stream>>

\* An error status or a transport error: the connection is closed.
OpenFails(k) ==
    /\ pc = "prepared"
    /\ pc' = k
    /\ UNCHANGED <<query, client, loop, log, open, stream>>

OpenSucceeds ==
    /\ pc = "prepared"
    /\ pc' = "opened"
    /\ open' = open + 1
    /\ UNCHANGED <<query, client, loop, log, stream>>

\* Nothing is sent to the client before the first chunk has been read.
FirstChunk ==
    /\ pc = "opened"
    /\ pc' = "handle"
    /\ stream' = [stream EXCEPT !.read = 1]
    /\ UNCHANGED <<query, client, loop, log, open>>

\* The stream is empty, idle, late, too long or cut; all are unknown or server
\* errors to the classifier, and retryable.
FirstChunkFails ==
    /\ pc = "opened"
    /\ pc' = "transient"
    /\ open' = open - 1
    /\ UNCHANGED <<query, client, loop, log, stream>>

-----------------------------------------------------------------------------
(* An attempt that failed before its first chunk.                          *)

Failed(k) == pc = k

Settled(k, row) ==
    log' = [log EXCEPT ![Len(log)] =
                [@ EXCEPT !.row = row, !.verdict = "failure", !.short = k = "rateLimit"]]

Recorded == [loop EXCEPT !.counts[Now] = @ + 1, !.trail = Append(@, Now)]

\* The endpoint stays a candidate.
Retry(k) ==
    /\ Failed(k) /\ k \in RetryableKind
    /\ Attempts + 1 < MaxTotal /\ loop.counts[Now] + 1 < MaxSame
    /\ Settled(k, "failed")
    /\ loop' = Recorded
    /\ pc' = "select"
    /\ UNCHANGED <<query, client, open, stream>>

\* Mutated: the durable row is not finished.
FallBackUnfinished(k) ==
    LET hit == CASE k = "account" -> {e \in Endpoint : /\ Provider[e] = Provider[Now]
                                                        /\ loop.excluded[e] = 0}
                 [] k = "dead" -> {Now}
                 [] OTHER -> {}
        Hits(e) == (IF e \in hit THEN 1 ELSE 0) + (IF e = Now THEN 1 ELSE 0)
    IN
    /\ Failed(k)
    /\ Settled(k, "prepared")
    /\ loop' = [Recorded EXCEPT
                !.excluded = [e \in Endpoint |-> @[e] + Hits(e)],
                !.gone = IF k \in {"account", "dead"} THEN @ \cup {Now} ELSE @,
                !.hops = @ + 1]
    /\ pc' = "select"
    /\ UNCHANGED <<query, client, open, stream>>

\* The endpoint is excluded, once more than its account or its death has already
\* excluded it.
FallBack(k) ==
    LET hit == CASE k = "account" -> {e \in Endpoint : /\ Provider[e] = Provider[Now]
                                                        /\ loop.excluded[e] = 0}
                 [] k = "dead" -> {Now}
                 [] OTHER -> {}
        Hits(e) == (IF e \in hit THEN 1 ELSE 0) + (IF e = Now THEN 1 ELSE 0)
    IN
    /\ Failed(k)
    /\ Settled(k, "failed")
    /\ loop' = [Recorded EXCEPT
                !.excluded = [e \in Endpoint |-> @[e] + Hits(e)],
                !.gone = IF k \in {"account", "dead"} THEN @ \cup {Now} ELSE @,
                !.hops = @ + 1]
    /\ pc' = "select"
    /\ UNCHANGED <<query, client, open, stream>>

\* finish_attempt raises, after the failure has been reported.
FinishFails(k) ==
    /\ Failed(k)
    /\ Settled(k, "prepared")
    /\ Raise
    /\ UNCHANGED <<query, loop, open, stream>>

-----------------------------------------------------------------------------
(* The relay: _emit_native_stream and native_stream_chunks over            *)
(* NativeStreamHandle.iter_bytes.                                          *)

\* The headers are written outside the handler's try.
SendHeaders ==
    /\ pc = "handle"
    /\ pc' = "relay"
    /\ UNCHANGED <<query, client, loop, log, open, stream>>

\* The client has left before the handle is first read: nobody finishes the
\* attempt; dropping the generator closes the connection.
NeverRead ==
    /\ pc = "handle" /\ client.is = "gone"
    /\ pc' = "over"
    /\ open' = open - 1
    /\ UNCHANGED <<query, client, loop, log, stream>>

\* A write to a client that has left may still succeed.
Write ==
    /\ pc = "relay" /\ client.is # "stalled"
    /\ Got(Now)
    /\ stream' = [stream EXCEPT !.visible = TRUE]
    /\ pc' = "read"
    /\ UNCHANGED <<query, loop, log, open>>

\* Mutated: the handle sees exceptions only, not that its generator is closed.
WriteFailsUnseen ==
    /\ pc = "relay" /\ client.is = "gone"
    /\ open' = open - 1
    /\ pc' = "over"
    /\ UNCHANGED <<query, client, loop, log, stream>>

\* Closing the generator finishes the attempt as a failure of the provider; the
\* store may fail to keep that.
WriteFails ==
    /\ pc = "relay" /\ client.is = "gone"
    /\ \E row \in {"interrupted", "prepared"} : Noted(row, "failure")
    /\ open' = open - 1
    /\ pc' = "over"
    /\ UNCHANGED <<query, client, loop, stream>>

ReadChunk ==
    /\ pc = "read" /\ stream.read < MaxChunks
    /\ stream' = [stream EXCEPT !.read = @ + 1]
    /\ pc' = "relay"
    /\ UNCHANGED <<query, client, loop, log, open>>

\* The read returns nothing: the body is over, or was cut where only the length
\* of the body or the end of the connection could tell, which read1 does not
\* look at.  A store that fails to keep the success turns it into an interruption.
ReadEnds ==
    /\ pc = "read"
    /\ \E end \in Ended : stream' = [stream EXCEPT !.end = end]
    /\ \/ Noted("succeeded", "success") /\ pc' = "over"
       \/ Noted("prepared", "success") /\ pc' = "broken"
    /\ open' = open - 1
    /\ UNCHANGED <<query, client, loop>>

\* Mutated: the turn is started again on another endpoint.
ReadFailsRestarts ==
    /\ pc = "read"
    /\ stream' = [stream EXCEPT !.end = "broken"]
    /\ Noted("interrupted", "failure")
    /\ open' = open - 1
    /\ pc' = "select"
    /\ UNCHANGED <<query, client, loop>>

\* Idle, over the deadline or the ceiling, reset, or cut within a chunk.
ReadFails ==
    /\ pc = "read"
    /\ stream' = [stream EXCEPT !.end = "broken"]
    /\ \E row \in {"interrupted", "prepared"} : Noted(row, "failure")
    /\ open' = open - 1
    /\ pc' = "broken"
    /\ UNCHANGED <<query, client, loop>>

\* Mutated: an error is told to the client only if nothing has been sent yet.
InterruptInvisible ==
    /\ pc = "broken" /\ query.front = "http" /\ client.is # "stalled"
    /\ IF stream.visible THEN UNCHANGED client ELSE Got("interrupted")
    /\ pc' = "over"
    /\ UNCHANGED <<query, loop, log, open, stream>>

\* The handler of the standard library.  Cancelling closes a closed stream.
Interrupt ==
    /\ pc = "broken" /\ query.front = "http" /\ client.is # "stalled"
    /\ IF stream.visible THEN Got("interrupted") ELSE UNCHANGED client
    /\ pc' = "over"
    /\ UNCHANGED <<query, loop, log, open, stream>>

AsgiInterrupt ==
    /\ pc = "broken" /\ query.front = "asgi" /\ client.is # "stalled"
    /\ Got("interrupted")
    /\ pc' = "over"
    /\ UNCHANGED <<query, loop, log, open, stream>>

-----------------------------------------------------------------------------
Stall == client.is = "reading" /\ client' = [client EXCEPT !.is = "stalled"]
Depart == client.is # "gone" /\ client' = [client EXCEPT !.is = "gone"]

ClientNext ==
    /\ pc # "over"
    /\ Stall \/ Depart
    /\ UNCHANGED <<pc, query, loop, log, open, stream>>

HandlerNext ==
    \/ Receive
    \/ Rollover
    \/ GiveUp
    \/ \E e \in Endpoint : Pass(e) \/ Admit(e)
    \/ Leave
    \/ PrepareFails
    \/ Prepare
    \/ OpenRefused
    \/ OpenSucceeds
    \/ FirstChunk
    \/ FirstChunkFails
    \/ \E k \in Kind : OpenFails(k) \/ Retry(k) \/ FallBack(k) \/ FinishFails(k)
    \/ SendHeaders
    \/ NeverRead
    \/ Write
    \/ WriteFails
    \/ ReadChunk
    \/ ReadEnds
    \/ ReadFails
    \/ Interrupt
    \/ AsgiInterrupt

Next == HandlerNext \/ ClientNext

\* Every upstream call has a timeout and the thread is never descheduled for
\* ever.  A write to a client that does not read has none: it is not enabled.
Spec == Init /\ [][Next]_vars /\ WF_vars(HandlerNext)

-----------------------------------------------------------------------------
(* Properties.                                                             *)

\* What a client may get: bytes of a provider, or an item of the gateway's own.
Item == Endpoint \cup {"answer", "error", "interrupted"}

\* Every variable holds a value of its kind, and hops, waits and the stream stay
\* within their limits.
TypeOK ==
    /\ pc \in Pc
    /\ query \in Query
    /\ client \in [is : {"reading", "stalled", "gone"}, got : Seq(Item)]
    /\ DOMAIN loop = DOMAIN FreshLoop
    /\ loop.excluded \in [Endpoint -> Nat] /\ loop.counts \in [Endpoint -> Nat]
    /\ loop.hops \in 0 .. MaxHops /\ loop.waits \in 0 .. MaxWaits
    /\ loop.gone \subseteq Endpoint
    /\ log \in Seq(Entry)
    /\ open \in {0, 1}
    /\ stream \in [read : 0 .. MaxChunks, end : Ends, visible : BOOLEAN]

Visible == \E i \in DOMAIN client.got : client.got[i] \in Endpoint

\* All the provider bytes that a client gets come from one endpoint, and nothing
\* but one interruption event follows them (the contract of NativeStreamHandle):
\* an attempt that starts after the first byte, or an error document in the
\* middle of a stream, would break it.
NoSplice ==
    \A i \in DOMAIN client.got : i > 1 =>
        /\ client.got[i - 1] \in Endpoint
        /\ client.got[i] \in {client.got[i - 1], "interrupted"}

\* A client that kept reading never takes part of an answer for the whole, as far
\* as the transport can tell: when the handler is done it has all the chunks of a
\* stream that ended without an error, or an interruption event as its last item,
\* or an answer or an error, or, if the attempt store failed, nothing at all
\* (interruption_sse).  A body that is cut without an error, which needs one that
\* is not chunked, is passed on as if it were whole.
NoSilentTruncation ==
    pc = "over" /\ client.is = "reading" =>
        \/ Visible /\ \/ stream.end \in Ended /\ Len(client.got) = stream.read
                      \/ client.got[Len(client.got)] = "interrupted"
        \/ client.got \in {<<>>, <<"answer">>, <<"error">>}

\* There is never a second upstream connection, and none outlives the handler,
\* whichever of provider, client, deadline and store ends the request
\* (open_stream, _HTTPResponseByteStream.close, iter_bytes).
UpstreamReleased == open <= 1 /\ (pc = "over" => open = 0)

\* Every admission before the latest was reported to the breaker as a failure and
\* its row says so, or it was left before a row was written: a fallback never
\* forgets an attempt that may have reached a provider.
EarlierAttemptsSettled ==
    \A i \in DOMAIN log : i < Len(log) =>
        \/ log[i].row = "failed" /\ log[i].verdict = "failure"
        \/ log[i].row = "none" /\ log[i].verdict = "none"

\* A stream of which the handler wrote a byte is reported to its breaker when the
\* handler is done: as a success exactly if it ended without an error, and its
\* row never says otherwise (_finish_success, _finish_failure).
VisibleStreamSettled ==
    pc = "over" /\ stream.visible =>
        /\ Latest.verdict = IF stream.end \in Ended THEN "success" ELSE "failure"
        /\ Latest.row \in {"prepared",
                IF stream.end \in Ended THEN "succeeded" ELSE "interrupted"}

\* The request ends, unless its client stops reading and stays: attempts, hops,
\* waits and chunks run out, and every upstream wait has a timeout.
RequestEnds ==
    <>(pc = "over" \/ [](client.is = "stalled"))

=============================================================================
