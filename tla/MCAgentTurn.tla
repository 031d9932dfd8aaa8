------------------------------ MODULE MCAgentTurn ------------------------------
(***************************************************************************)
(* AgentTurn for TLC.                                                      *)
(***************************************************************************)
EXTENDS AgentTurn, TLC

CONSTANTS small, medium, large

\* A Groq model with a small window, one behind another provider that holds
\* less than it claims, and a large one at NVIDIA.
MCProfile ==
    small :> [window |-> 8192, maxOut |-> 1500, tools |-> TRUE, family |-> "groq"]
        @@ medium :> [window |-> 32768, maxOut |-> 4096, tools |-> TRUE, family |-> "other"]
        @@ large :> [window |-> 131072, maxOut |-> 8192, tools |-> FALSE, family |-> "nvidia"]
MCHolds == small :> 4000 @@ medium :> 9000 @@ large :> 12000
MCOutputCap == small :> 900 @@ medium :> 2048 @@ large :> 8192

Turn(role, text, args, shape) == [role |-> role, text |-> text, args |-> args, shape |-> shape]

\* The root objective, rounds of a tool call and its result, and a last word.
Rounds(root, n, args, result, shape, end) ==
    <<Turn("user", root, 0, "flat")>>
        \o [i \in 1 .. 2 * n |-> IF i % 2 = 1 THEN Turn("assistant", 700, args, "flat")
                                 ELSE Turn("tool", result, 0, shape)]
        \o end

LastWord == <<Turn("user", 1500, 0, "log")>>
MCConversations ==
    {[dialect |-> s[1], system |-> s[2], tools |-> s[3], prose |-> s[4], out |-> task[3],
      turns |-> Rounds(task[1], work[1], task[2], work[2], work[3], task[4])] :
        s \in {<<"openai", 0, 0, 0>>, <<"openai", 6000, 1000, 4000>>,
               <<"anthropic", 6000, 1000, 4000>>},
        task \in {<<200, 50, 0, LastWord>>, <<6000, 30000, 3000, <<>>>>},
        work \in {<<1, 9000, "log">>, <<1, 60000, "flat">>, <<5, 300, "flat">>,
                  <<5, 9000, "terse">>}}

ASSUME MCAssumption == ClientsSpeak /\ TailTurns >= 2

\* Two tools: one with typed arguments, one with an object, an array of objects
\* and an object that may hold anything, and nothing else.
Open == [properties |-> NoMembers, required |-> {}, closed |-> FALSE, items |-> "any"]
Flat == [properties |-> "n" :> "integer" @@ "f" :> "number" @@ "s" :> "string" @@ "b" :> "boolean"
                            @@ "u" :> "date" @@ "o" :> "object",
         required |-> {"n"}, closed |-> FALSE, items |-> "any", below |-> Open]
Deep == [properties |-> "o" :> "object" @@ "a" :> "array", required |-> {"o"}, closed |-> TRUE,
         items |-> "object", below |-> Flat]
MCSchemas == "flat" :> Flat @@ "deep" :> Deep

\* Arguments: proper, to be repaired, missing, of the wrong type, that int() cannot
\* read, and nested.
Whole == Scalar("integer", "whole")
Code == Scalar("string", "code")
Objects ==
    {NoMembers,
     "n" :> Whole @@ "s" :> Code @@ "u" :> Whole,
     "n" :> Scalar("string", "digits") @@ "b" :> Scalar("string", "yes"),
     "n" :> Scalar("boolean", "true") @@ "s" :> Whole @@ "f" :> Scalar("string", "decimal"),
     "n" :> Scalar("string", "superscript"),
     "n" :> Code,
     "n" :> Whole @@ "b" :> Code,
     "n" :> Whole @@ "o" :> Holding("object", "s" :> Code),
     "s" :> Code}
Nested ==
    {k :> Holding("object", o) : k \in {"o", "input"}, o \in Objects}
        \cup {"o" :> Holding("object", "n" :> Whole) @@ "a" :> Holding("array", o) : o \in Objects}
        \cup {"o" :> Holding("object", "n" :> Whole) @@ "a" :> Scalar("array", "none"),
              "o" :> Holding("object", "n" :> Whole) @@ "x" :> Code}
Sources == [form : {"json", "fenced"}, object : Objects \cup Nested]
               \cup [form : {"loose"}, object : Objects]
               \cup [form : {"nothing", "prose"}, object : {NoMembers}]
Calls == [tool : {"flat", "deep"}, source : Sources]
             \cup [tool : {"other"}, source : {[form |-> "json", object |-> NoMembers]}]
MCReplies ==
    {[text |-> "none", calls |-> <<c>>] : c \in Calls}
        \cup {[text |-> t, calls |-> <<>>] : t \in {"none", "some", "bomb"}}
=============================================================================
