-------------------------- MODULE NativeStreamProofs --------------------------
(***************************************************************************)
(* What a client, a provider connection and the attempt store see of one   *)
(* streamed request, for any endpoints, limits and stream length.          *)
(*                                                                         *)
(* The properties speak of the moment the handler is done; what makes them *)
(* inductive is what each program point says of the connection, of the     *)
(* bytes relayed so far and of the latest entry of the log.                *)
(***************************************************************************)
EXTENDS NativeStream, FiniteSetTheorems, TLAPS

\* The program points at which nothing has been sent, those at which an attempt
\* has a row that is not finished, and those at which the handle is relayed.
Quiet == {"idle", "select", "admitted", "prepared", "opened", "handle"} \cup Kind
Rowed == {"prepared", "opened", "handle", "relay", "read"} \cup Kind
Relayed == {"relay", "read", "broken"}

\* The state without the loop's own variables.
Shape ==
    /\ pc \in Pc
    /\ client \in [is : {"reading", "stalled", "gone"}, got : Seq(Item)]
    /\ log \in Seq(Entry)
    /\ stream \in [read : 0 .. MaxChunks, end : Ends, visible : BOOLEAN]

\* The connection is open exactly from open_stream to its end.
Connected == open = IF pc \in {"opened", "handle", "relay", "read"} THEN 1 ELSE 0

\* Nothing reaches the client before the relay.
Silent == pc \in Quiet => client.got = <<>> /\ ~stream.visible /\ stream.end = "none"

\* During the relay the client has chunks of the one endpoint, all that were read
\* if it kept reading.
Relaying ==
    /\ pc = "handle" => stream.read = 1
    /\ pc \in Relayed =>
        /\ log # <<>> /\ stream.read >= 1
        /\ \A i \in DOMAIN client.got : client.got[i] = log[Len(log)].ep
        /\ client.is = "reading" =>
              stream.read = Len(client.got) + (IF pc = "relay" THEN 1 ELSE 0)
    /\ pc \in {"relay", "read"} => stream.end = "none"
    /\ pc \in {"read", "broken"} => stream.visible

Settles(x) ==
    \/ x.row = "failed" /\ x.verdict = "failure"
    \/ x.row = "none" /\ x.verdict = "none"

\* What each program point knows of the latest admission.
Logged ==
    /\ \A i \in 1 .. Len(log) : i < Len(log) => Settles(log[i])
    /\ pc = "idle" => log = <<>>
    /\ pc = "select" /\ log # <<>> => Settles(log[Len(log)])
    /\ pc = "admitted" => log # <<>> /\ log[Len(log)].row = "none"
                                     /\ log[Len(log)].verdict = "none"
    /\ pc \in Rowed => log # <<>> /\ log[Len(log)].row = "prepared"
                                  /\ log[Len(log)].verdict = "none"
    /\ pc = "broken" \/ (pc = "over" /\ stream.visible) =>
        /\ log # <<>>
        /\ log[Len(log)].verdict = IF stream.end \in Ended THEN "success" ELSE "failure"
        /\ log[Len(log)].row \in {"prepared",
                IF stream.end \in Ended THEN "succeeded" ELSE "interrupted"}

IInv == Shape /\ Connected /\ Silent /\ Relaying /\ Logged /\ NoSplice /\ NoSilentTruncation

-----------------------------------------------------------------------------

\* Writing the latest entry of the log leaves the others, its endpoint and the
\* length alone.
LEMMA LatestWritten ==
    ASSUME log \in Seq(Entry), log # <<>>, NEW x \in Entry, x.ep = log[Len(log)].ep,
           log' = [log EXCEPT ![Len(log)] = x]
    PROVE  /\ log' \in Seq(Entry) /\ Len(log') = Len(log) /\ log' # <<>>
           /\ \A i \in 1 .. Len(log) : i < Len(log) => log'[i] = log[i]
           /\ log'[Len(log')] = x /\ log'[Len(log')].ep = log[Len(log)].ep
  <1>1. Len(log) \in Nat /\ Len(log) # 0
    OBVIOUS
  <1> QED  BY <1>1

LEMMA NotedLog ==
    ASSUME log \in Seq(Entry), log # <<>>,
           NEW row \in {"none", "prepared", "failed", "succeeded", "interrupted"},
           NEW verdict \in {"none", "success", "failure"}, Noted(row, verdict)
    PROVE  /\ log' \in Seq(Entry) /\ Len(log') = Len(log) /\ log' # <<>>
           /\ \A i \in 1 .. Len(log) : i < Len(log) => log'[i] = log[i]
           /\ log'[Len(log')].ep = log[Len(log)].ep
           /\ log'[Len(log')].row = row /\ log'[Len(log')].verdict = verdict
  <1> DEFINE x == [log[Len(log)] EXCEPT !.row = row, !.verdict = verdict]
  <1>1. log[Len(log)] \in Entry
    OBVIOUS
  <1>2. x \in Entry /\ x.ep = log[Len(log)].ep /\ x.row = row /\ x.verdict = verdict
    BY <1>1, ZenonT(30) DEF Entry
  <1>3. log' = [log EXCEPT ![Len(log)] = x]
    BY DEF Noted
  <1> HIDE DEF x
  <1> QED  BY <1>2, <1>3, LatestWritten

LEMMA SettledLog ==
    ASSUME log \in Seq(Entry), log # <<>>, NEW k, NEW row \in {"prepared", "failed"},
           Settled(k, row)
    PROVE  /\ log' \in Seq(Entry) /\ Len(log') = Len(log) /\ log' # <<>>
           /\ \A i \in 1 .. Len(log) : i < Len(log) => log'[i] = log[i]
           /\ log'[Len(log')].row = row /\ log'[Len(log')].verdict = "failure"
  <1> DEFINE x == [log[Len(log)] EXCEPT !.row = row, !.verdict = "failure",
                                        !.short = k = "rateLimit"]
  <1>1. log[Len(log)] \in Entry
    OBVIOUS
  <1>2. x \in Entry /\ x.ep = log[Len(log)].ep /\ x.row = row /\ x.verdict = "failure"
    BY <1>1, ZenonT(30) DEF Entry
  <1>3. log' = [log EXCEPT ![Len(log)] = x]
    BY DEF Settled
  <1> HIDE DEF x
  <1> QED  BY <1>2, <1>3, LatestWritten

\* The latest endpoint is one of the pool's.
LEMMA NowEndpoint ==
    ASSUME log \in Seq(Entry), log # <<>>
    PROVE  Now = log[Len(log)].ep /\ Now \in Endpoint
  <1>1. Len(log) \in Nat /\ Len(log) # 0 /\ log[Len(log)] \in Entry
    OBVIOUS
  <1>2. Now = log[Len(log)].ep
    BY DEF Now, Latest
  <1> QED  BY <1>1, <1>2 DEF Entry

-----------------------------------------------------------------------------
(* Steps that write neither the log nor, before the handler is done, to the *)
(* client.                                                                 *)

\* The handler is done before anything was relayed.
LEMMA EarlyEnd ==
    ASSUME IInv, pc \in Quiet, open = 0, pc' = "over", NEW x \in {"answer", "error"},
           Got(x) \/ UNCHANGED client,
           UNCHANGED <<log, open, stream>>
    PROVE  IInv'
  <1>1. client.got = <<>> /\ ~stream.visible
    BY DEF IInv, Silent
  <1>2. /\ client' \in [is : {"reading", "stalled", "gone"}, got : Seq(Item)]
        /\ client'.got \in {<<>>, <<x>>}
    <2>1. client \in [is : {"reading", "stalled", "gone"}, got : Seq(Item)] /\ x \in Item
      BY DEF IInv, Shape, Item
    <2>2. CASE client' = client
      BY <1>1, <2>1, <2>2
    <2>3. CASE client' = [client EXCEPT !.got = Append(@, x)]
      <3>1. client'.got = Append(client.got, x) /\ client'.is = client.is
        BY <2>1, <2>3
      <3>2. Append(client.got, x) = <<x>> /\ Append(client.got, x) \in Seq(Item)
        BY <1>1, <2>1
      <3> QED  BY <2>1, <2>3, <3>1, <3>2, ZenonT(30)
    <2> QED  BY <2>2, <2>3 DEF Got
  <1>3. Shape'
    BY <1>2 DEF IInv, Shape, Pc
  <1>4. Connected' /\ Silent' /\ Relaying'
    BY DEF Connected, Silent, Relaying, Quiet, Relayed, Kind
  <1>5. Logged'
    BY <1>1 DEF IInv, Logged, Rowed, Kind
  <1>6. NoSplice'
    BY <1>2 DEF NoSplice
  <1>7. NoSilentTruncation'
    BY <1>2 DEF NoSilentTruncation
  <1> QED  BY <1>3, <1>4, <1>5, <1>6, <1>7 DEF IInv

\* The loop goes on with the client, the log and the stream as they are.
LEMMA QuietStep ==
    ASSUME IInv, pc \in Quiet, pc' \in Quiet \ {"handle", "idle"}, pc' \in Pc,
           Connected', UNCHANGED <<client, log, stream>>,
           pc' = "select" /\ log # <<>> => Settles(log[Len(log)]),
           pc' = "admitted" => pc = "admitted",
           pc' \in Rowed => pc \in Rowed
    PROVE  IInv'
  <1>1. Shape' /\ NoSplice'
    BY DEF IInv, Shape, NoSplice
  <1>2. Silent'
    BY DEF IInv, Silent
  <1>3. Relaying' /\ NoSilentTruncation'
    BY ZenonT(30) DEF Relaying, Relayed, Quiet, Kind, NoSilentTruncation
  <1>4. Logged'
    BY DEF IInv, Logged, Rowed, Quiet, Kind
  <1> QED  BY <1>1, <1>2, <1>3, <1>4 DEF IInv

LEMMA LoopSteps ==
    ASSUME IInv,
           \/ Rollover \/ Leave \/ OpenSucceeds \/ FirstChunkFails
           \/ \E e \in Endpoint : Pass(e)
           \/ \E k \in Kind : OpenFails(k)
    PROVE  IInv'
  <1>1. CASE Rollover \/ \E e \in Endpoint : Pass(e)
    <2>1. pc = "select" /\ UNCHANGED <<pc, client, log, open, stream>>
      BY <1>1 DEF Rollover, Pass, Selects
    <2> QED  BY <2>1, QuietStep DEF IInv, Connected, Quiet, Pc, Kind, Rowed, Logged
  <1>2. CASE Leave
    BY <1>2, QuietStep DEF Leave, IInv, Connected, Quiet, Pc, Kind, Rowed, Logged, Settles
  <1>3. CASE OpenSucceeds
    BY <1>3, QuietStep DEF OpenSucceeds, IInv, Connected, Quiet, Pc, Kind, Rowed
  <1>4. CASE FirstChunkFails
    BY <1>4, QuietStep DEF FirstChunkFails, IInv, Connected, Quiet, Pc, Kind, Rowed
  <1>5. CASE \E k \in Kind : OpenFails(k)
    BY <1>5, QuietStep DEF OpenFails, IInv, Connected, Quiet, Pc, Kind, Rowed
  <1> QED  BY <1>1, <1>2, <1>3, <1>4, <1>5

LEMMA EarlyEnds ==
    ASSUME IInv, Receive \/ GiveUp \/ PrepareFails \/ OpenRefused
    PROVE  IInv'
  <1>1. CASE pc' = "over" /\ \E x \in {"answer", "error"} : Got(x) \/ UNCHANGED client
    <2>1. pc \in Quiet /\ open = 0 /\ UNCHANGED <<log, open, stream>>
      BY ZenonT(30) DEF Receive, GiveUp, PrepareFails, OpenRefused, IInv, Connected, Quiet
    <2> QED  BY <1>1, <2>1, EarlyEnd
  <1>2. CASE pc = "idle" /\ pc' = "select" /\ UNCHANGED <<client, log, open, stream>>
    BY <1>2, QuietStep DEF IInv, Connected, Quiet, Pc, Kind, Rowed, Logged
  <1>3. CASE Receive
    <2>1. Handled(query) \in {"error", "answer", "serve", "open"}
      BY DEF Handled, DoPost, AsgiPost, Chat
    <2> QED  BY <1>1, <1>2, <1>3, <2>1, ZenonT(30) DEF Receive, Reply
  <1>4. CASE GiveUp \/ PrepareFails \/ OpenRefused
    BY <1>1, <1>4 DEF GiveUp, PrepareFails, OpenRefused, Reply, Raise
  <1> QED  BY <1>3, <1>4

LEMMA HandleSteps ==
    ASSUME IInv, FirstChunk \/ SendHeaders \/ NeverRead \/ ReadChunk
    PROVE  IInv'
  <1>1. MaxChunks \in Nat \ {0}
    BY ConstantsAssumption
  <1>2. CASE FirstChunk
    <2>1. stream' \in [read : 0 .. MaxChunks, end : Ends, visible : BOOLEAN]
          /\ stream'.read = 1 /\ stream'.end = stream.end /\ stream'.visible = stream.visible
      BY <1>1, <1>2 DEF FirstChunk, IInv, Shape
    <2> QED  BY <1>2, <2>1 DEF FirstChunk, IInv, Shape, Connected, Silent, Relaying, Logged,
                NoSplice, NoSilentTruncation, Pc, Quiet, Rowed, Relayed, Kind
  <1>3. CASE SendHeaders
    BY <1>3 DEF SendHeaders, IInv, Shape, Connected, Silent, Relaying, Logged,
                NoSplice, NoSilentTruncation, Pc, Quiet, Rowed, Relayed, Kind
  <1>4. CASE NeverRead
    BY <1>4 DEF NeverRead, IInv, Shape, Connected, Silent, Relaying, Logged,
                NoSplice, NoSilentTruncation, Pc, Quiet, Rowed, Relayed, Kind
  <1>5. CASE ReadChunk
    <2>1. stream' \in [read : 0 .. MaxChunks, end : Ends, visible : BOOLEAN]
          /\ stream'.read = stream.read + 1 /\ stream'.end = stream.end
          /\ stream'.visible = stream.visible /\ stream.read \in Nat
      <3>1. stream.read < MaxChunks /\ stream' = [stream EXCEPT !.read = @ + 1]
        BY <1>5, Zenon DEF ReadChunk
      <3>2. stream \in [read : 0 .. MaxChunks, end : Ends, visible : BOOLEAN]
        BY Zenon DEF IInv, Shape
      <3> QED  BY ONLY <1>1, <3>1, <3>2
    <2> QED  BY <1>5, <2>1 DEF ReadChunk, IInv, Shape, Connected, Silent, Relaying, Logged,
                NoSplice, NoSilentTruncation, Pc, Quiet, Rowed, Relayed, Kind
  <1> QED  BY <1>2, <1>3, <1>4, <1>5

-----------------------------------------------------------------------------
(* Steps that write the log.                                               *)

LEMMA AdmitKeeps ==
    ASSUME IInv, NEW e \in Endpoint, Admit(e)
    PROVE  IInv'
  <1> DEFINE x == [ep |-> e, row |-> "none", verdict |-> "none", short |-> FALSE]
  <1>1. x \in Entry /\ log \in Seq(Entry) /\ log' = Append(log, x)
    BY DEF Admit, Entry, IInv, Shape
  <1>2. /\ log' \in Seq(Entry) /\ Len(log') = Len(log) + 1 /\ log' # <<>>
        /\ log'[Len(log')] = x /\ \A i \in 1 .. Len(log) : log'[i] = log[i]
        /\ Len(log) \in Nat
    BY <1>1
  <1>3. /\ x.row = "none" /\ x.verdict = "none"
    OBVIOUS
  <1>4. pc = "select" /\ pc' = "admitted" /\ UNCHANGED <<client, open, stream>>
    BY DEF Admit, Selects
  <1> HIDE DEF x
  <1>5. Logged'
    <2>1. \A i \in 1 .. Len(log) : Settles(log[i])
      BY <1>1, <1>2, <1>4 DEF IInv, Logged
    <2>2. \A i \in 1 .. Len(log') : i < Len(log') => Settles(log'[i])
      BY <1>2, <2>1
    <2> QED  BY <1>2, <1>3, <1>4, <2>2 DEF Logged, Rowed, Kind
  <1>6. Shape'
    BY <1>2, <1>4 DEF IInv, Shape, Pc
  <1>7. Connected' /\ Silent' /\ Relaying' /\ NoSplice' /\ NoSilentTruncation'
    BY <1>4 DEF IInv, Connected, Silent, Relaying, Relayed, Quiet, Kind, NoSplice,
                NoSilentTruncation
  <1> QED  BY <1>5, <1>6, <1>7 DEF IInv

LEMMA PrepareKeeps ==
    ASSUME IInv, Prepare
    PROVE  IInv'
  <1>1. /\ pc = "admitted" /\ pc' = "prepared" /\ UNCHANGED <<client, open, stream>>
        /\ log \in Seq(Entry) /\ log # <<>>
        /\ Noted("prepared", "none")
    BY DEF Prepare, IInv, Shape, Logged
  <1>2. /\ log' \in Seq(Entry) /\ Len(log') = Len(log) /\ log' # <<>>
        /\ \A i \in 1 .. Len(log) : i < Len(log) => log'[i] = log[i]
        /\ log'[Len(log')].row = "prepared" /\ log'[Len(log')].verdict = "none"
    BY <1>1, NotedLog
  <1>3. Logged'
    BY <1>1, <1>2 DEF IInv, Logged, Rowed, Kind
  <1>4. Shape'
    BY <1>1, <1>2 DEF IInv, Shape, Pc
  <1>5. Connected' /\ Silent' /\ Relaying' /\ NoSplice' /\ NoSilentTruncation'
    BY <1>1 DEF IInv, Connected, Silent, Relaying, Relayed, Quiet, Kind, NoSplice,
                NoSilentTruncation
  <1> QED  BY <1>3, <1>4, <1>5 DEF IInv

LEMMA FailureKeeps ==
    ASSUME IInv, NEW k \in Kind, Retry(k) \/ FallBack(k) \/ FinishFails(k)
    PROVE  IInv'
  <1>1. PICK row \in {"failed", "prepared"} :
            /\ pc = k /\ UNCHANGED <<client, open, stream>>
            /\ Settled(k, row)
            /\ pc' = "over" \/ (pc' = "select" /\ row = "failed")
    BY DEF Retry, FallBack, FinishFails, Failed, Raise
  <1>2. log \in Seq(Entry) /\ log # <<>> /\ client.got = <<>> /\ ~stream.visible
        /\ stream.end = "none" /\ open = 0
    BY <1>1 DEF IInv, Shape, Logged, Silent, Connected, Quiet, Rowed, Kind
  <1>3. /\ log' \in Seq(Entry) /\ Len(log') = Len(log) /\ log' # <<>>
        /\ \A i \in 1 .. Len(log) : i < Len(log) => log'[i] = log[i]
        /\ log'[Len(log')].row = row /\ log'[Len(log')].verdict = "failure"
    BY <1>1, <1>2, SettledLog
  <1>4. Logged'
    BY <1>1, <1>2, <1>3 DEF IInv, Logged, Rowed, Kind, Settles
  <1>5. Shape'
    BY <1>1, <1>3 DEF IInv, Shape, Pc
  <1>6. Connected' /\ Silent' /\ Relaying' /\ NoSplice' /\ NoSilentTruncation'
    BY <1>1, <1>2 DEF Connected, Silent, Relaying, Relayed, Quiet, Kind, NoSplice,
                NoSilentTruncation
  <1> QED  BY <1>4, <1>5, <1>6 DEF IInv

\* The provider's stream is over, or the client has left: the handle settles its
\* attempt and the connection is closed.
LEMMA EndKeeps ==
    ASSUME IInv, WriteFails \/ ReadEnds \/ ReadFails
    PROVE  IInv'
  <1>1. /\ pc \in {"relay", "read"} /\ open = 1 /\ log \in Seq(Entry) /\ log # <<>>
        /\ stream.end = "none" /\ stream.read \in Nat
        /\ client \in [is : {"reading", "stalled", "gone"}, got : Seq(Item)]
        /\ stream \in [read : 0 .. MaxChunks, end : Ends, visible : BOOLEAN]
        /\ UNCHANGED client /\ open' = open - 1
    BY DEF WriteFails, ReadEnds, ReadFails, IInv, Shape, Connected, Logged, Relaying, Rowed
  <1>2. PICK row \in {"prepared", "succeeded", "interrupted"}, verdict \in {"success", "failure"} :
            /\ Noted(row, verdict)
            /\ verdict = IF stream'.end \in Ended THEN "success" ELSE "failure"
            /\ row \in {"prepared", IF stream'.end \in Ended THEN "succeeded" ELSE "interrupted"}
    <2>1. CASE WriteFails
      <3>1. stream'.end \notin Ended
        BY <1>1, <2>1 DEF WriteFails, Ended
      <3> QED BY <2>1, <3>1 DEF WriteFails
    <2>2. CASE ReadFails
      <3>1. stream'.end \notin Ended
        BY <1>1, <2>2 DEF ReadFails, Ended
      <3> QED BY <2>2, <3>1 DEF ReadFails
    <2>3. CASE ReadEnds
      <3>1. stream'.end \in Ended
        BY <1>1, <2>3 DEF ReadEnds
      <3> QED BY <2>3, <3>1 DEF ReadEnds
    <2> QED BY <2>1, <2>2, <2>3
  <1>3. /\ log' \in Seq(Entry) /\ Len(log') = Len(log) /\ log' # <<>>
        /\ \A i \in 1 .. Len(log) : i < Len(log) => log'[i] = log[i]
        /\ log'[Len(log')].ep = log[Len(log)].ep
        /\ log'[Len(log')].row = row /\ log'[Len(log')].verdict = verdict
    BY <1>1, <1>2, NotedLog
  <1>4. /\ stream' \in [read : 0 .. MaxChunks, end : Ends, visible : BOOLEAN]
        /\ stream'.read = stream.read /\ stream'.visible = stream.visible
        /\ pc' \in {"broken", "over"}
        /\ pc' = "broken" => pc = "read"
        /\ pc' = "over" => (stream'.end \in Ended /\ pc = "read") \/ client.is = "gone"
    <2>1. CASE WriteFails
      BY <1>1, <2>1 DEF WriteFails
    <2>2. CASE ReadFails
      BY <1>1, <2>2 DEF ReadFails, Ends
    <2>3. CASE ReadEnds
      BY <1>1, <2>3 DEF ReadEnds, Ends
    <2> QED BY <2>1, <2>2, <2>3
  <1>5. Logged'
    <2>1. \A i \in 1 .. Len(log') : i < Len(log') => Settles(log'[i])
      BY <1>3 DEF IInv, Logged
    <2> QED  BY <1>2, <1>3, <1>4, <2>1 DEF Logged, Rowed, Kind
  <1>6. Shape' /\ Connected' /\ Silent'
    BY <1>1, <1>3, <1>4 DEF Shape, Connected, Silent, Pc, Quiet, Kind
  <1>7. Relaying'
    BY <1>1, <1>3, <1>4 DEF IInv, Relaying, Relayed
  <1>8. NoSplice'
    BY <1>1 DEF IInv, NoSplice
  <1>9. NoSilentTruncation'
    <2>1. SUFFICES ASSUME pc' = "over", client.is = "reading"
                   PROVE  /\ Visible' /\ stream'.end \in Ended /\ Len(client'.got) = stream'.read
      BY <1>1 DEF NoSilentTruncation
    <2>2. /\ pc = "read" /\ stream'.end \in Ended /\ stream.read = Len(client.got)
          /\ stream.read >= 1
      BY <1>4, <2>1 DEF IInv, Relaying, Relayed
    <2>3. client.got[1] \in Endpoint /\ 1 \in DOMAIN client.got
      BY <1>1, <2>2, NowEndpoint DEF IInv, Relaying, Relayed
    <2> QED  BY <1>1, <1>4, <2>2, <2>3 DEF Visible
  <1> QED  BY <1>5, <1>6, <1>7, <1>8, <1>9 DEF IInv

-----------------------------------------------------------------------------
(* Steps that write to the client during the relay.                        *)

\* What a client has after one more item.
LEMMA GotMore ==
    ASSUME client \in [is : {"reading", "stalled", "gone"}, got : Seq(Item)],
           NEW x \in Item, Got(x)
    PROVE  /\ client' \in [is : {"reading", "stalled", "gone"}, got : Seq(Item)]
           /\ client'.is = client.is
           /\ client.is # "reading" => client' = client
           /\ client.is = "reading" => client'.got = Append(client.got, x)
  BY DEF Got

\* An item after the chunks of one endpoint: another of them, or an interruption.
LEMMA NoSpliceMore ==
    ASSUME client \in [is : {"reading", "stalled", "gone"}, got : Seq(Item)],
           NEW e \in Endpoint, \A i \in DOMAIN client.got : client.got[i] = e,
           NEW x \in {e, "interrupted"}, client' = client \/ client'.got = Append(client.got, x)
    PROVE  NoSplice'
  <1>1. CASE client' = client
    BY <1>1 DEF NoSplice
  <1>2. CASE client'.got = Append(client.got, x)
    <2> DEFINE n == Len(client.got)
    <2>1. n \in Nat /\ DOMAIN client.got = 1 .. n /\ DOMAIN client'.got = 1 .. n + 1
          /\ client'.got[n + 1] = x /\ \A i \in 1 .. n : client'.got[i] = e
      BY <1>2
    <2> HIDE DEF n
    <2> QED  BY <2>1 DEF NoSplice
  <1> QED  BY <1>1, <1>2

LEMMA WriteKeeps ==
    ASSUME IInv, Write
    PROVE  IInv'
  <1> DEFINE e == log[Len(log)].ep
  <1>1. /\ pc = "relay" /\ pc' = "read" /\ client.is # "stalled" /\ Got(Now)
        /\ UNCHANGED <<log, open>> /\ log \in Seq(Entry) /\ log # <<>>
        /\ client \in [is : {"reading", "stalled", "gone"}, got : Seq(Item)]
        /\ \A i \in DOMAIN client.got : client.got[i] = e
    BY DEF Write, IInv, Shape, Relaying, Relayed
  <1>2. Now = e /\ e \in Endpoint /\ e \in Item
    BY <1>1, NowEndpoint DEF Item
  <1>3. /\ client' \in [is : {"reading", "stalled", "gone"}, got : Seq(Item)]
        /\ client'.is = client.is
        /\ client.is # "reading" => client' = client
        /\ client.is = "reading" => client'.got = Append(client.got, e)
    BY <1>1, <1>2, GotMore
  <1>4. /\ stream' \in [read : 0 .. MaxChunks, end : Ends, visible : BOOLEAN]
        /\ stream'.read = stream.read /\ stream'.end = stream.end /\ stream'.visible
    BY ZenonT(30) DEF Write, IInv, Shape
  <1> HIDE DEF e
  <1>5. NoSplice'
    BY <1>1, <1>2, <1>3, NoSpliceMore
  <1>6. /\ \A i \in DOMAIN client'.got : client'.got[i] = e
        /\ client.is = "reading" => Len(client'.got) = Len(client.got) + 1
    <2>1. CASE client.is = "reading"
      <3>1. /\ Len(client'.got) = Len(client.got) + 1
            /\ DOMAIN client'.got = 1 .. Len(client.got) + 1
            /\ DOMAIN client.got = 1 .. Len(client.got) /\ Len(client.got) \in Nat
            /\ client'.got[Len(client.got) + 1] = e
            /\ \A i \in 1 .. Len(client.got) : client'.got[i] = client.got[i]
        <4>1. client.got \in Seq(Item) /\ client'.got = Append(client.got, e)
          BY <1>1, <1>3, <2>1
        <4> QED  BY <1>2, <4>1
      <3> QED  BY <1>1, <3>1
    <2>2. CASE client.is # "reading"
      BY <1>1, <1>3, <2>2
    <2> QED  BY <2>1, <2>2
  <1>7. Relaying'
    BY <1>1, <1>3, <1>4, <1>6 DEF IInv, Shape, Relaying, Relayed, e
  <1>8. Shape' /\ Connected' /\ Silent'
    BY <1>1, <1>3, <1>4 DEF IInv, Shape, Connected, Silent, Pc, Quiet, Kind
  <1>9. Logged' /\ NoSilentTruncation'
    BY <1>1, <1>4 DEF IInv, Logged, Rowed, Kind, NoSilentTruncation
  <1> QED  BY <1>5, <1>7, <1>8, <1>9 DEF IInv

LEMMA InterruptKeeps ==
    ASSUME IInv, Interrupt \/ AsgiInterrupt
    PROVE  IInv'
  <1> DEFINE e == log[Len(log)].ep
  <1>1. /\ pc = "broken" /\ pc' = "over" /\ Got("interrupted")
        /\ UNCHANGED <<log, open, stream>> /\ log \in Seq(Entry) /\ log # <<>>
        /\ client \in [is : {"reading", "stalled", "gone"}, got : Seq(Item)]
        /\ \A i \in DOMAIN client.got : client.got[i] = e
        /\ client.is = "reading" => stream.read = Len(client.got)
        /\ stream.read >= 1 /\ stream.visible
    BY DEF Interrupt, AsgiInterrupt, IInv, Shape, Relaying, Relayed
  <1>2. e \in Endpoint /\ "interrupted" \in Item
    BY <1>1, NowEndpoint DEF Item
  <1>3. /\ client' \in [is : {"reading", "stalled", "gone"}, got : Seq(Item)]
        /\ client'.is = client.is
        /\ client.is # "reading" => client' = client
        /\ client.is = "reading" => client'.got = Append(client.got, "interrupted")
    BY <1>1, <1>2, GotMore
  <1> HIDE DEF e
  <1>4. NoSplice'
    BY <1>1, <1>2, <1>3, NoSpliceMore
  <1>5. NoSilentTruncation'
    <2>1. SUFFICES ASSUME client.is = "reading"
                   PROVE  Visible' /\ client'.got[Len(client'.got)] = "interrupted"
      BY <1>3 DEF NoSilentTruncation
    <2>2. /\ client.got \in Seq(Item) /\ Len(client.got) \in Nat /\ Len(client.got) >= 1
          /\ client'.got = Append(client.got, "interrupted")
      BY <1>1, <1>3, <2>1
    <2>3. client'.got[1] = client.got[1] /\ 1 \in DOMAIN client'.got /\ 1 \in DOMAIN client.got
          /\ client'.got[Len(client'.got)] = "interrupted"
      BY <1>2, <2>2
    <2> QED  BY <1>1, <1>2, <2>3 DEF Visible
  <1>6. Shape' /\ Connected' /\ Silent' /\ Relaying'
    BY <1>1, <1>3 DEF IInv, Shape, Connected, Silent, Relaying, Relayed, Pc, Quiet, Kind
  <1>7. Logged'
    BY <1>1 DEF IInv, Logged, Rowed, Kind
  <1> QED  BY <1>4, <1>5, <1>6, <1>7 DEF IInv

\* The client stops reading or leaves, while the handler is at work.
LEMMA ClientKeeps ==
    ASSUME IInv, ClientNext
    PROVE  IInv'
  <1>1. /\ pc # "over" /\ UNCHANGED <<pc, log, open, stream>>
        /\ client' \in [is : {"reading", "stalled", "gone"}, got : Seq(Item)]
        /\ client'.got = client.got /\ client'.is # "reading"
    BY DEF ClientNext, Stall, Depart, IInv, Shape
  <1>2. Shape' /\ Connected' /\ Silent' /\ Logged' /\ NoSplice' /\ NoSilentTruncation'
    BY <1>1 DEF IInv, Shape, Connected, Silent, Logged, NoSplice, NoSilentTruncation
  <1>3. Relaying'
    BY <1>1, ZenonT(30) DEF IInv, Relaying
  <1> QED  BY <1>2, <1>3 DEF IInv

-----------------------------------------------------------------------------

LEMMA InitIInv ==
    ASSUME Init
    PROVE  IInv
  <1>1. MaxChunks \in Nat
    BY ConstantsAssumption
  <1>2. Shape
    BY <1>1 DEF Init, Shape, Pc, Ends
  <1> QED  BY <1>2 DEF Init, IInv, Connected, Silent, Relaying, Relayed, Logged, Rowed, Kind,
                      NoSplice, NoSilentTruncation

LEMMA StepKeeps ==
    ASSUME IInv, [Next]_vars
    PROVE  IInv'
  <1>1. CASE UNCHANGED vars
    BY <1>1 DEF vars, IInv, Shape, Connected, Silent, Relaying, Logged, NoSplice,
                NoSilentTruncation, Visible
  <1>2. CASE HandlerNext
    BY <1>2, LoopSteps, EarlyEnds, HandleSteps, AdmitKeeps, PrepareKeeps, FailureKeeps, EndKeeps,
       WriteKeeps, InterruptKeeps DEF HandlerNext
  <1> QED  BY <1>1, <1>2, ClientKeeps DEF Next

LEMMA IInvHolds == Spec => []IInv
  <1>1. Init => IInv
    BY InitIInv
  <1>2. IInv /\ [Next]_vars => IInv'
    BY StepKeeps
  <1> QED  BY <1>1, <1>2, PTL DEF Spec

\* The bytes that a client gets come from one endpoint, and nothing but one
\* interruption event follows them, for any pool and any policy.
THEOREM OneAnswer == Spec => []NoSplice
  BY IInvHolds, PTL DEF IInv

\* A client that kept reading never takes part of an answer for the whole, for
\* streams of any length.
THEOREM TruncationTold == Spec => []NoSilentTruncation
  BY IInvHolds, PTL DEF IInv

\* No request has two upstream connections, and none outlives its handler.
THEOREM ConnectionsReleased == Spec => []UpstreamReleased
  <1>1. IInv => UpstreamReleased
    BY DEF IInv, Connected, UpstreamReleased
  <1> QED  BY <1>1, IInvHolds, PTL

\* A fallback leaves no attempt behind that may have reached a provider and is
\* neither reported nor finished.
THEOREM FallbacksSettle == Spec => []EarlierAttemptsSettled
  <1>1. IInv => EarlierAttemptsSettled
    BY DEF IInv, Shape, Logged, Settles, EarlierAttemptsSettled
  <1> QED  BY <1>1, IInvHolds, PTL

\* A stream of which a byte was written is settled as what it was when the
\* handler is done.
THEOREM RelaySettles == Spec => []VisibleStreamSettled
  <1>1. IInv => VisibleStreamSettled
    BY DEF IInv, Logged, VisibleStreamSettled, Latest
  <1> QED  BY <1>1, IInvHolds, PTL

-----------------------------------------------------------------------------
(* The variables of the loop.                                              *)

Loops ==
    /\ query \in Query
    /\ DOMAIN loop = {"excluded", "counts", "trail", "hops", "waits", "gone"}
    /\ loop.excluded \in [Endpoint -> Nat] /\ loop.counts \in [Endpoint -> Nat]
    /\ loop.hops \in 0 .. MaxHops /\ loop.waits \in 0 .. MaxWaits
    /\ loop.gone \subseteq Endpoint
    /\ pc = "admitted" \/ pc \in Rowed => loop.hops < MaxHops

\* The steps that change the loop's variables; the others leave it or go on from
\* an admission to the next point of the same attempt.
LEMMA LoopsKept ==
    ASSUME IInv, Loops, [Next]_vars
    PROVE  Loops'
  <1>1. {MaxHops, MaxWaits} \subseteq Nat
    BY ConstantsAssumption
  <1>2. CASE Rollover
    <2>1. \A e \in Endpoint : e \in RateLimited => loop.excluded[e] - 1 \in Nat
      BY DEF RateLimited, Loops
    <2> QED  BY <1>1, <1>2, <2>1 DEF Rollover, Selects, Loops, Rowed, Kind
  <1>3. CASE \E e \in Endpoint : Pass(e)
    BY <1>3 DEF Pass, Excluding, Loops, Selects, Rowed, Kind
  <1>4. CASE \E e \in Endpoint : Admit(e)
    BY <1>1, <1>4 DEF Admit, Valid, Loops
  <1>5. CASE Leave
    <2>1. Now \in Endpoint
      BY <1>5, NowEndpoint DEF Leave, IInv, Shape, Logged
    <2> QED  BY <1>5, <2>1 DEF Leave, Excluding, Loops, Rowed, Kind
  <1>6. CASE \E k \in Kind : Retry(k) \/ FallBack(k)
    <2>1. PICK k \in Kind : Retry(k) \/ FallBack(k)
      BY <1>6
    <2>2. /\ pc = k /\ pc' = "select" /\ query' = query /\ Now \in Endpoint
          /\ loop.hops < MaxHops
      BY <2>1, NowEndpoint DEF Retry, FallBack, Failed, IInv, Shape, Logged, Loops, Rowed
    <2>3. CASE Retry(k)
      BY <2>2, <2>3 DEF Retry, Recorded, Loops, Rowed, Kind
    <2>4. CASE FallBack(k)
      BY <1>1, <2>2, <2>4 DEF FallBack, Recorded, Loops, Rowed, Kind
    <2> QED  BY <2>1, <2>3, <2>4
  <1>7. CASE /\ UNCHANGED <<query, loop>>
             /\ pc' = "admitted" \/ pc' \in Rowed => pc = "admitted" \/ pc \in Rowed
    BY <1>7 DEF Loops
  <1>8. CASE UNCHANGED vars
    BY <1>7, <1>8 DEF vars
  <1>9. CASE Receive \/ GiveUp \/ PrepareFails \/ OpenRefused
    <2>1. UNCHANGED <<query, loop>> /\ pc' \in {"over", "select"}
      BY <1>9 DEF Receive, GiveUp, PrepareFails, OpenRefused, Reply, Raise, Handled, DoPost,
                  AsgiPost, Chat
    <2> QED  BY <1>7, <2>1 DEF Rowed, Kind
  <1>a. CASE \/ Prepare \/ OpenSucceeds \/ FirstChunk \/ FirstChunkFails \/ SendHeaders
             \/ NeverRead \/ ClientNext \/ \E k \in Kind : OpenFails(k) \/ FinishFails(k)
    BY <1>7, <1>a DEF Prepare, OpenSucceeds, FirstChunk, FirstChunkFails, SendHeaders, NeverRead,
        ClientNext, OpenFails, FinishFails, Raise, Rowed, Kind
  <1>10. CASE Write \/ WriteFails \/ ReadChunk \/ ReadEnds \/ ReadFails \/ Interrupt \/ AsgiInterrupt
    BY <1>7, <1>10 DEF Write, WriteFails, ReadChunk, ReadEnds, ReadFails, Interrupt, AsgiInterrupt,
        Rowed, Kind
  <1> QED  BY <1>2, <1>3, <1>4, <1>5, <1>6, <1>8, <1>9, <1>a, <1>10 DEF Next, HandlerNext

\* Every variable of a streamed request keeps its type, and its hops, waits and
\* chunks their limits, for any pool and any policy.
THEOREM StreamTypes == Spec => []TypeOK
  <1>1. Init => Loops
    BY ConstantsAssumption DEF Init, FreshLoop, Loops, Rowed, Kind
  <1>2. IInv /\ Loops /\ [Next]_vars => Loops'
    BY LoopsKept
  <1>3. IInv /\ Loops => TypeOK
    BY DEF IInv, Shape, Connected, Loops, TypeOK, FreshLoop
  <1> QED  BY <1>1, <1>2, <1>3, IInvHolds, PTL DEF Spec

-----------------------------------------------------------------------------
(* The number of attempts.                                                 *)

Reported == {i \in DOMAIN log : log[i].verdict # "none"}

Bounded ==
    /\ Attempts \in Nat /\ Attempts <= MaxTotal
    /\ pc = "admitted" \/ pc \in Rowed => Attempts < MaxTotal

\* A report of the latest admission adds at most one attempt, any other change of
\* the log none.
LEMMA ReportedOnce ==
    ASSUME log \in Seq(Entry), log # <<>>, log' \in Seq(Entry), Len(log') = Len(log),
           \A i \in 1 .. Len(log) : i < Len(log) => log'[i] = log[i]
    PROVE  /\ Attempts' \in Nat /\ Attempts' <= Attempts + 1
           /\ log'[Len(log')].verdict = "none" => Attempts' <= Attempts
  <1>1. IsFiniteSet(Reported) /\ IsFiniteSet(Reported')
    <2>1. DOMAIN log = 1 .. Len(log) /\ DOMAIN log' = 1 .. Len(log) /\ Len(log) \in Nat
      OBVIOUS
    <2>2. IsFiniteSet(1 .. Len(log))
      BY <2>1, FS_Interval
    <2> QED  BY <2>1, <2>2, FS_Subset DEF Reported
  <1>2. Reported' \subseteq Reported \cup {Len(log)}
    BY DEF Reported
  <1>3. log'[Len(log')].verdict = "none" => Reported' \subseteq Reported
    BY DEF Reported
  <1>4. /\ Cardinality(Reported') \in Nat /\ Cardinality(Reported) \in Nat
        /\ IsFiniteSet(Reported \cup {Len(log)})
        /\ Cardinality(Reported \cup {Len(log)}) <= Cardinality(Reported) + 1
    <2>1. Cardinality(Reported') \in Nat /\ Cardinality(Reported) \in Nat
      BY <1>1, FS_CardinalityType
    <2>2. /\ IsFiniteSet(Reported \cup {Len(log)})
          /\ Cardinality(Reported \cup {Len(log)}) =
                IF Len(log) \in Reported THEN Cardinality(Reported) ELSE Cardinality(Reported) + 1
      BY <1>1, FS_AddElement, ZenonT(30)
    <2> QED  BY <2>1, <2>2
  <1>5. /\ Cardinality(Reported') <= Cardinality(Reported \cup {Len(log)})
        /\ log'[Len(log')].verdict = "none" => Cardinality(Reported') <= Cardinality(Reported)
    BY <1>1, <1>2, <1>3, <1>4, FS_Subset
  <1>6. Cardinality(Reported \cup {Len(log)}) \in Nat
    BY <1>4, FS_CardinalityType
  <1>7. Attempts = Cardinality(Reported) /\ Attempts' = Cardinality(Reported')
    BY DEF Attempts, Reported
  <1> QED  BY <1>4, <1>5, <1>6, <1>7

LEMMA BoundedKept ==
    ASSUME IInv, Bounded, [Next]_vars
    PROVE  Bounded'
  <1>1. MaxTotal \in Nat /\ log \in Seq(Entry) /\ Attempts \in Nat
    BY ConstantsAssumption DEF IInv, Shape, Bounded
  <1>2. CASE log' = log /\ (pc' = "admitted" \/ pc' \in Rowed => pc = "admitted" \/ pc \in Rowed)
    BY <1>2 DEF Bounded, Attempts
  <1>3. CASE \E e \in Endpoint : Admit(e)
    <2>1. PICK e \in Endpoint : Admit(e)
      BY <1>3
    <2> DEFINE x == [ep |-> e, row |-> "none", verdict |-> "none", short |-> FALSE]
    <2>2. log' = Append(log, x) /\ x.verdict = "none" /\ x \in Entry
      BY <2>1 DEF Admit, Entry
    <2> HIDE DEF x
    <2>3. {i \in DOMAIN log' : log'[i].verdict # "none"} = {i \in DOMAIN log : log[i].verdict # "none"}
      <3>1. /\ DOMAIN log = 1 .. Len(log) /\ DOMAIN log' = 1 .. Len(log) + 1 /\ Len(log) \in Nat
            /\ log'[Len(log) + 1] = x /\ \A i \in 1 .. Len(log) : log'[i] = log[i]
        BY <1>1, <2>2
      <3> QED  BY <2>2, <3>1
    <2>4. Attempts' = Attempts
      BY <2>3 DEF Attempts
    <2>5. Attempts < MaxTotal
      BY <2>1 DEF Admit, Selects
    <2> QED  BY <1>1, <2>4, <2>5 DEF Bounded
  <1>4. CASE Prepare
    <2>1. /\ pc = "admitted" /\ log # <<>> /\ Noted("prepared", "none")
      BY <1>4 DEF Prepare, IInv, Logged
    <2>2. /\ log' \in Seq(Entry) /\ Len(log') = Len(log)
          /\ \A i \in 1 .. Len(log) : i < Len(log) => log'[i] = log[i]
          /\ log'[Len(log')].verdict = "none"
      BY <1>1, <2>1, NotedLog
    <2>3. Attempts' \in Nat /\ Attempts' <= Attempts
      BY <1>1, <2>1, <2>2, ReportedOnce
    <2> QED  BY <1>1, <2>1, <2>3 DEF Bounded
  <1>5. CASE \E k \in Kind : Retry(k) \/ FallBack(k) \/ FinishFails(k)
    <2>1. PICK k \in Kind, row \in {"failed", "prepared"} :
            pc = k /\ pc' \in {"select", "over"} /\ Settled(k, row)
      BY <1>5 DEF Retry, FallBack, FinishFails, Failed, Raise
    <2>2. log # <<>> /\ Attempts < MaxTotal
      BY <2>1 DEF IInv, Logged, Bounded, Rowed
    <2>3. /\ log' \in Seq(Entry) /\ Len(log') = Len(log)
          /\ \A i \in 1 .. Len(log) : i < Len(log) => log'[i] = log[i]
      BY <1>1, <2>1, <2>2, SettledLog
    <2>4. Attempts' \in Nat /\ Attempts' <= Attempts + 1
      BY <1>1, <2>2, <2>3, ReportedOnce
    <2> QED  BY <1>1, <2>1, <2>2, <2>4 DEF Bounded, Rowed, Kind
  <1>6. CASE WriteFails \/ ReadEnds \/ ReadFails
    <2>1. PICK row \in {"prepared", "succeeded", "interrupted"}, verdict \in {"success", "failure"} :
            pc \in {"relay", "read"} /\ pc' \in {"broken", "over"} /\ Noted(row, verdict)
      BY <1>6 DEF WriteFails, ReadEnds, ReadFails
    <2>2. log # <<>> /\ Attempts < MaxTotal
      BY <2>1 DEF IInv, Logged, Bounded, Rowed
    <2>3. /\ log' \in Seq(Entry) /\ Len(log') = Len(log)
          /\ \A i \in 1 .. Len(log) : i < Len(log) => log'[i] = log[i]
      BY <1>1, <2>1, <2>2, NotedLog
    <2>4. Attempts' \in Nat /\ Attempts' <= Attempts + 1
      BY <1>1, <2>2, <2>3, ReportedOnce
    <2> QED  BY <1>1, <2>1, <2>2, <2>4 DEF Bounded, Rowed, Kind
  <1>7. CASE Receive \/ GiveUp \/ PrepareFails \/ OpenRefused
    <2>1. log' = log /\ pc' \in {"over", "select"}
      BY <1>7 DEF Receive, GiveUp, PrepareFails, OpenRefused, Reply, Raise, Handled, DoPost,
                  AsgiPost, Chat
    <2> QED  BY <1>2, <2>1 DEF Rowed, Kind
  <1>8. CASE \/ Rollover \/ Leave \/ OpenSucceeds \/ FirstChunk \/ FirstChunkFails \/ SendHeaders
             \/ NeverRead \/ ClientNext \/ UNCHANGED vars
             \/ (\E e \in Endpoint : Pass(e)) \/ \E k \in Kind : OpenFails(k)
    BY <1>2, <1>8 DEF Rollover, Leave, OpenSucceeds, FirstChunk, FirstChunkFails, SendHeaders,
        NeverRead, ClientNext, vars, Pass, OpenFails, Rowed, Kind
  <1>9. CASE Write \/ ReadChunk \/ Interrupt \/ AsgiInterrupt
    BY <1>2, <1>9 DEF Write, ReadChunk, Interrupt, AsgiInterrupt, Rowed, Kind
  <1> QED  BY <1>3, <1>4, <1>5, <1>6, <1>7, <1>8, <1>9 DEF Next, HandlerNext

\* A streamed request reports at most max_total_attempts attempts, although a
\* rollover readmits endpoints and forgets their counts.
THEOREM StreamAttemptsBounded == Spec => [](Attempts <= MaxTotal)
  <1>1. Init => Bounded
    <2>1. ASSUME Init PROVE Reported = {}
      BY <2>1 DEF Init, Reported
    <2>2. ASSUME Init PROVE Attempts = 0
      BY <2>1, <2>2, FS_EmptySet, ZenonT(30) DEF Attempts, Reported
    <2> QED  BY <2>2, ConstantsAssumption DEF Init, Bounded, Rowed, Kind
  <1>2. IInv /\ Bounded /\ [Next]_vars => Bounded'
    BY BoundedKept
  <1>3. Bounded => Attempts <= MaxTotal
    BY DEF Bounded
  <1> QED  BY <1>1, <1>2, <1>3, IInvHolds, PTL DEF Spec

=============================================================================
