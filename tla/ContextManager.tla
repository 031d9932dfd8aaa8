----------------------------- MODULE ContextManager -----------------------------
(***************************************************************************)
(* ContextManager.compact (agent/context.py): how a conversation is made   *)
(* to fit the input budget of the model it is sent to.                     *)
(*                                                                         *)
(* A text is its length in characters; the limits are those of the code.   *)
(* The shape of a text tells what extract_diagnostic_summary leaves of it: *)
(* flat has no line breaks, log has more lines than any summary holds, and *)
(* the summary of terse is short.  A message keeps the place it had in the *)
(* client's conversation as its id.  Tool definitions are one text, of     *)
(* which only the prose can be condensed.                                  *)
(***************************************************************************)
EXTENDS Naturals, Sequences, FiniteSetsExt

CONSTANT TailTurns   \* preserve_tail_turns

ASSUME TailAssumption == TailTurns \in Nat

Shapes == {"flat", "log", "terse"}

\* NormalizedMessage: its text, the text of its tool result, and what is never
\* condensed: reasoning and the arguments of its tool calls.
Message(id, role, content, result, fixed, shape) ==
    [id |-> id, role |-> role, content |-> content, result |-> result, fixed |-> fixed,
     shape |-> shape]

Larger(m, n) == IF m < n THEN n ELSE m
Smaller(m, n) == IF m < n THEN m ELSE n

\* estimate_tokens, of a number of characters.
Tokens(chars) == Larger(1, (chars + 3) \div 4)

\* What a summary adds: its first line, the mark between two halves, the mark
\* at a cut end; and the whole of a short one.
HeadLine == 67
MiddleMark == 21
EndMark == 16
TerseSummary == 200

\* extract_diagnostic_summary.  A text just above the limit may grow.
Summary(chars, shape, limit) ==
    CASE chars <= limit -> chars
      [] chars > limit /\ shape = "flat" ->
            HeadLine + MiddleMark + 2 * Larger(50, (limit - 60) \div 2)
      [] chars > limit /\ shape = "log" -> limit + EndMark
      [] chars > limit /\ shape = "terse" -> TerseSummary

\* Only texts longer than `above' are summarised.
Condensed(chars, shape, above, limit) ==
    IF chars > above THEN Summary(chars, shape, limit) ELSE chars

\* The sequence f itself, written so that TLC evaluates its elements once.
Each(f) == SubSeq(f, 1, Len(f))

SizeOf(m) == m.content + m.result + m.fixed

Chars(messages) ==
    LET upTo[i \in 0 .. Len(messages)] == IF i = 0 THEN 0 ELSE upTo[i - 1] + SizeOf(messages[i])
    IN  upTo[Len(messages)]

\* estimate_tokens of a NormalizedRequest, which leaves out the tools.
Estimate(r) == Tokens(r.system + Chars(r.messages))

-----------------------------------------------------------------------------
(* The phases.                                                             *)

Users(messages) == {i \in DOMAIN messages : messages[i].role = "user"}

\* Mutated: the latest user message is taken for the root objective.
RootIndexLatest(messages) == IF Users(messages) = {} THEN 0 ELSE Max(Users(messages))

\* first_user_idx, 0 if there is none, and protected_prefix_count.
RootIndex(messages) == IF Users(messages) = {} THEN 0 ELSE Min(Users(messages))
Protected(messages) == Larger(1, RootIndex(messages))

\* Phase 1: long tool results and logs, the root objective's text excepted.
Phase1(messages) ==
    Each([i \in DOMAIN messages |->
        LET m == messages[i]
            limit == IF i = Len(messages) THEN 1200 ELSE 600
        IN  [m EXCEPT !.result = Condensed(@, m.shape, 400, 400),
                      !.content = IF i = RootIndex(messages) THEN @
                                  ELSE Condensed(@, m.shape, 1000, limit)]])

\* What phase 2 puts between the first and the last 300 characters.
ReasoningMark == 58

\* Phase 2, first part: what lies between the root and the recent turns.
Phase2(messages) ==
    Each([i \in DOMAIN messages |->
        LET m == messages[i] IN
        IF i > Protected(messages) /\ i + TailTurns <= Len(messages)
        THEN [m EXCEPT !.result = Condensed(@, m.shape, 300, 300),
                       !.content = IF m.role = "assistant" /\ @ > 600
                                   THEN 600 + ReasoningMark ELSE @]
        ELSE m])

\* The messages that are left when the n after the first `keep' are popped.
Without(messages, keep, n) ==
    SubSeq(messages, 1, Smaller(keep, Len(messages))) \o SubSeq(messages, keep + n + 1, Len(messages))

\* Mutated: the eviction does not stop at the recent turns.
EvictAll(r, tail, target) ==
    LET keep == Protected(r.messages)
        most == Larger(keep, Len(r.messages)) - keep
        left(n) == [r EXCEPT !.messages = Without(@, keep, n)]
    IN  left(Min({n \in 0 .. most : n = most \/ Estimate(left(n)) <= target}))

\* Phases 2 and 5: evict the oldest unprotected message while there are more
\* than the protected ones and the tail, and they do not fit.
Evict(r, tail, target) ==
    LET keep == Protected(r.messages)
        most == Larger(keep + tail, Len(r.messages)) - (keep + tail)
        left(n) == [r EXCEPT !.messages = Without(@, keep, n)]
    IN  left(Min({n \in 0 .. most : n = most \/ Estimate(left(n)) <= target}))

\* Phase 3: everything but the root objective.
Phase3(messages) ==
    Each([i \in DOMAIN messages |->
        LET m == messages[i] IN
        IF i = RootIndex(messages) THEN m
        ELSE [m EXCEPT !.result = Condensed(@, m.shape, 250, 250),
                       !.content = Condensed(@, m.shape, 500, 400)]])

SystemMark == 57

\* Phase 4: tool descriptions and the system instruction.
Phase4(r) ==
    [r EXCEPT !.prose = Smaller(@, 120),
              !.system = IF @ > 2000 THEN 2000 + SystemMark ELSE @]

\* compact: the result of the first phase after which the request fits, or of
\* the last.
compact(r, target) ==
    LET one == [r EXCEPT !.messages = Phase1(@)]
        two == [one EXCEPT !.messages = Phase2(@)]
        evicted == Evict(two, TailTurns, target)
        three == [evicted EXCEPT !.messages = Phase3(@)]
        five == Evict(Phase4(three), 2, target)
        stages == <<r, one, two, evicted, three, five>>
    IN  stages[Min({i \in 1 .. 6 : i = 6 \/ Estimate(stages[i]) <= target})]

\* _require_fit, which raises ContextOverflowError otherwise.
Fits(r, target) == Estimate(r) <= target

=============================================================================
