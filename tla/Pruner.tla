--------------------------------- MODULE Pruner ---------------------------------
(***************************************************************************)
(* The OpenAI payload that leaves the gateway: ir_to_openai_request        *)
(* (protocol/openai.py) and what the adapter prunes of it for Groq and     *)
(* NVIDIA (pruner.py, providers/adapters.py).  Texts are lengths, as in    *)
(* ContextManager; here the estimate counts the whole JSON document.       *)
(***************************************************************************)
EXTENDS ContextManager

Framing == 40    \* JSON around a message: role, ids, punctuation
Envelope == 80   \* JSON around the request

\* The messages of one IR message: a user message is its text and then its
\* tool results, a tool message only its result; other roles are dropped.
Spoken(m) ==
    LET text == [id |-> m.id, role |-> m.role, content |-> m.content, fixed |-> m.fixed,
                 shape |-> m.shape]
        answer == [text EXCEPT !.role = "tool", !.content = m.result, !.fixed = 0]
    IN  CASE m.role \in {"system", "assistant"} -> <<text>>
          [] m.role = "user" -> (IF m.content > 0 THEN <<text>> ELSE <<>>)
                                    \o (IF m.result > 0 THEN <<answer>> ELSE <<>>)
          [] m.role = "tool" -> <<answer>>
          [] OTHER -> <<>>

\* ir_to_openai_request: system_instruction becomes the first message unless
\* the conversation has a system message of its own.
ToOpenAI(r) ==
    LET own == \E i \in DOMAIN r.messages : r.messages[i].role = "system"
        first == [id |-> 0, role |-> "system", content |-> r.system, fixed |-> 0,
                  shape |-> "flat"]
        upTo[i \in 0 .. Len(r.messages)] ==
            IF i = 0 THEN <<>> ELSE upTo[i - 1] \o Spoken(r.messages[i])
        spoken == upTo[Len(r.messages)]
    IN  [messages |-> (IF r.system > 0 /\ ~own THEN <<first>> ELSE <<>>) \o spoken,
         tools |-> r.tools, prose |-> r.prose]

\* pruner.estimate_tokens.
PayloadTokens(p) ==
    LET upTo[i \in 0 .. Len(p.messages)] ==
            IF i = 0 THEN Envelope + p.tools + p.prose
            ELSE upTo[i - 1] + p.messages[i].content + p.messages[i].fixed + Framing
    IN  Tokens(upTo[Len(p.messages)])

\* The messages of `roles' in `range' whose text is longer than `above' are
\* summarised.
Shorten(p, range, roles, above, limit) ==
    LET s == p.messages
        short(i) == Condensed(s[i].content, s[i].shape, above, limit)
    IN  [p EXCEPT !.messages = Each([i \in DOMAIN s |->
            IF i \in range /\ s[i].role \in roles THEN [s[i] EXCEPT !.content = short(i)]
            ELSE s[i]])]

\* start_idx: the system message, if it comes first, and the one after it.
Kept(p) == IF p.messages[1].role = "system" THEN 2 ELSE 1

\* Pop the oldest message that is not kept while more than the tail is left
\* and the payload is too long.
Shed(p, tail, target) ==
    LET most == Larger(Kept(p) + tail, Len(p.messages)) - (Kept(p) + tail)
        left(n) == [p EXCEPT !.messages = Without(@, Kept(p), n)]
    IN  left(Min({n \in 0 .. most : n = most \/ PayloadTokens(left(n)) <= target}))

\* Both prunings return as soon as the payload fits, and what the last step
\* leaves of it in any case.
FirstFitting(stages, target) ==
    stages[Min({i \in DOMAIN stages : i = Len(stages) \/ PayloadTokens(stages[i]) <= target})]

\* prune_openai_request with a minimum tail of two.
prune_openai_request(p, context, margin) ==
    LET target == Larger(512, context - margin)
        n == Len(p.messages)
        recent == Larger(Kept(p) + 1, n - 1)    \* tail_cutoff, counted from 1
        few == Shorten(p, 1 .. n, {"tool", "user"}, 2000, 1500)
        older == Shorten(p, (Kept(p) + 1) .. (recent - 1), {"tool"}, 400, 300)
        results == Shorten(older, recent .. n, {"tool"}, 1200, 800)
        six == Shed(results, 6, target)
        two == Shed(Shed(six, 4, target), 2, target)
        reasoning == Shorten(two, (Kept(p) + 1) .. (Len(two.messages) - 1), {"assistant"},
                             400, 300)
    IN  IF PayloadTokens(p) <= target THEN p
        ELSE IF n <= 2 THEN few
        ELSE FirstFitting(<<results, six, two, reasoning>>, target)

\* The steps of prune_for_groq_tpm that make a payload shorter: tool
\* descriptions (compact_tool_definitions) first.
CompactTools(p) == [p EXCEPT !.prose = Smaller(p.prose, 150)]

\* A long system message, if it comes first; it has no blank lines to drop.
SystemCut == 1800 + 70
CutSystem(p) ==
    LET s == p.messages
    IN  [p EXCEPT !.messages = Each([i \in DOMAIN s |->
            IF i = 1 /\ s[i].role = "system" /\ s[i].content > 1800
            THEN [s[i] EXCEPT !.content = SystemCut] ELSE s[i]])]

\* Tool results, and what the user says, at two strengths.
CompactResults(p) ==
    LET all == DOMAIN p.messages
    IN  Shorten(Shorten(p, all, {"tool"}, 600, 500), all, {"user"}, 2000, 1500)

CompactHarder(p) == Shorten(p, DOMAIN p.messages, {"tool", "user"}, 1000, 800)

prune_for_groq_tpm(p, most) ==
    LET described == CompactTools(p)
        condensed == CutSystem(described)
        results == CompactResults(condensed)
        window == prune_openai_request(results, most, 150)
        last == Shed(CompactHarder(window), 2, most)
    IN  FirstFitting(<<p, described, condensed, results, window, last>>, most)

\* OpenAICompatibleAdapter.prepare_request: the output is capped at what the
\* model supports, and for Groq at 950; Groq and NVIDIA get a pruned prompt.
prepare_request(family, r, maxOutput) ==
    LET payload == ToOpenAI(r)
        out == Smaller(r.out, maxOutput)
    IN  CASE family = "groq" -> [prompt |-> prune_for_groq_tpm(payload, 3800),
                                 out |-> Smaller(out, 950)]
          [] family = "nvidia" -> [prompt |-> prune_openai_request(payload, 16000, 500),
                                   out |-> out]
          [] family = "other" -> [prompt |-> payload, out |-> out]

=============================================================================
