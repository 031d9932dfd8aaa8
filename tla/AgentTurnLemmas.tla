----------------------------- MODULE AgentTurnLemmas ----------------------------
(***************************************************************************)
(* Lemmas about the operators of the modules that AgentTurn is made of:    *)
(* what the classifier makes of each refusal, that the validator's repairs *)
(* conform, and what compaction, conversion and pruning do to a prompt,    *)
(* whatever the sizes and the number of its messages.  They keep it a      *)
(* prompt (Sizes), keep its frame of root objective and last messages      *)
(* (What stays), say each message once and in its place (What is said),    *)
(* and drop messages only from the oldest on (What the pruner leaves).     *)
(***************************************************************************)
EXTENDS Integers, FailureClassifier, Pruner, ToolValidator, FiniteSetTheorems, NaturalsInduction,
        WellFoundedInduction, TLAPS

-----------------------------------------------------------------------------
(* Minima                                                                  *)

LEMMA NatMin ==
    ASSUME NEW T \in SUBSET Nat, T # {}
    PROVE  \E x \in T : \A y \in T : x <= y
<1> DEFINE R == OpToRel(<, Nat)
<1>1. IsWellFoundedOn(R, Nat)
  BY NatLessThanWellFounded
<1>2. PICK x \in T : \A y \in T : ~(<<y, x>> \in R)
  <2> HIDE DEF R
  <2> QED BY <1>1, WFMin, Zenon
<1>3. ASSUME NEW y \in T PROVE x <= y
  <2>1. ~(<<y, x>> \in R)
    BY <1>2
  <2>2. x \in Nat /\ y \in Nat
    OBVIOUS
  <2>3. CASE y < x
    BY <2>1, <2>2, <2>3 DEF OpToRel
  <2> QED BY <2>2, <2>3
<1> QED BY <1>3

LEMMA MinIsLeast ==
    ASSUME NEW T, T \subseteq Nat, T # {}
    PROVE  Min(T) \in T /\ \A y \in T : Min(T) <= y
<1>1. \E x \in T : \A y \in T : x <= y
  BY NatMin
<1> QED BY <1>1, Zenon DEF Min

LEMMA MinIs ==
    ASSUME NEW T, T \subseteq Nat, NEW k \in T, \A y \in T : k <= y
    PROVE  Min(T) = k
<1>1. Min(T) \in T /\ Min(T) <= k
  BY MinIsLeast, Zenon
<1>2. k <= Min(T) /\ Min(T) \in Nat /\ k \in Nat
  BY <1>1, Zenon
<1> QED BY <1>1, <1>2

-----------------------------------------------------------------------------
(* The classifier: the first rule that applies decides                     *)

Applicable(rules) == {i \in DOMAIN rules : rules[i][1]}
Deciding(rules) == rules[Min(Applicable(rules))][2]

\* No rule applies.
Silent(rules) == Applicable(rules) = {}

\* A list of rules, of whatever it is made.
IsRules(s) == \E R : s \in Seq(R)

\* The k-th rule of s applies, and none before it.
FirstAt(s, k) == k \in DOMAIN s /\ s[k][1] /\ \A j \in DOMAIN s : j < k => ~s[j][1]

\* The rules of s come to the verdict v.
Decides(s, v) == \E k : FirstAt(s, k) /\ s[k][2] = v

\* Conditions of some of the rules.
OverOutput(code, text) == code \in {400, 429, NoCode} /\ "outputCap" \in text
Unavailable(code, text) == code \in {408, 500, 502, 503, 504, 529} \/ "overloaded" \in text
ClientFault(code) == code \in 400 .. 499
Oversized(text) == OversizedTpm(text) /\ ("tryAgain" \in text => "over" \in text)
Throttled(code, text) ==
    Finds(text, {"tpm", "tryAgain"}) /\ ("limit" \in text \/ code \in {413, 429})
Overflows(code, text) == code = 413 \/ "overflow" \in text
Unpaid(code, text) == code = 402 \/ "billing" \in text
RateLimited(code, text) == code = 429 \/ "tpm" \in text
NotThere(code, text) == code \in {404, 410} \/ (code = 400 /\ "deprecated" \in text)
Unsuited(code, text) == code = 400 /\ "schema" \in text
Denied(code, text) == code \in {401, 403} \/ Finds(text, {"forbidden", "badKey", "badSyntax"})

\* What some of the verdicts depend on.
RateReason(text) == IF "upstream" \in text THEN "upstream_rate_limit" ELSE "rate_limit"
DeniedForGood(code, text) == code \in {401, 403} \/ Finds(text, {"forbidden", "badKey"})
FaultReason(code, text) ==
    IF code \in {503, 529} \/ "overloaded" \in text THEN "overloaded" ELSE "server_error"

\* The marks that the rules of each group look for.
TransportMarks == {"ssl", "refused", "outputCap", "empty"}
SizeMarks == {"over", "tooLarge", "tpm", "tryAgain", "overflow"}
QuotaMarks == {"freePerDay", "billing", "tpm"}
ModelMarks == {"deprecated", "badTool", "schema"}
AccessMarks == {"forbidden", "badKey", "badSyntax", "waf"}

Lacks(text, marks) == text \cap marks = {}
Status(code, codes) == code \in codes

\* Refusals that pass the rules for the connection, for sizes and for quotas.
Unexplained(r) ==
    /\ Lacks(r.text, TransportMarks) /\ Lacks(r.text, SizeMarks) /\ Lacks(r.text, QuotaMarks)
    /\ ~Status(r.code, {413}) /\ ~Status(r.code, {402, 429})

\* What the classifier makes of the refusals of each cause.  First what lists of
\* rules decide, then what the rules of each group do, then the cascade of groups.
LEMMA VerdictsByCause ==
    /\ \A r \in Refusals("tooLarge") :
        classify_failure(r.code, r.text) = Verdict("payload_too_large", FALSE, FALSE, FALSE)
    /\ \A r \in Refusals("outputCap") :
        classify_failure(r.code, r.text) = Verdict("output_cap_exceeded", TRUE, FALSE, FALSE)
    /\ \A r \in Refusals("rate") :
        \E reason : classify_failure(r.code, r.text) = Verdict(reason, TRUE, TRUE, FALSE)
    /\ \A r \in Refusals("daily") :
        classify_failure(r.code, r.text) = Verdict("billing", FALSE, FALSE, FALSE)
    /\ \A r \in Refusals("gone") :
        classify_failure(r.code, r.text) = Verdict("model_not_found", FALSE, FALSE, TRUE)
    /\ \A r \in Refusals("credentials") :
        \E forGood : classify_failure(r.code, r.text) = Verdict("auth", FALSE, FALSE, forGood)
    /\ \A r \in Refusals("badRequest") :
        \E reason : classify_failure(r.code, r.text) = Verdict(reason, FALSE, FALSE, FALSE)
    /\ \A r \in Refusals("outage") :
        \E reason, again : classify_failure(r.code, r.text) = Verdict(reason, again, TRUE, FALSE)
    /\ classify_failure(502, {"empty"}) = Verdict("empty_completion", TRUE, FALSE, FALSE)
    /\ \E reason : classify_failure(502, {}) = Verdict(reason, TRUE, TRUE, FALSE)
<1>FirstDecides.
      ASSUME NEW s, IsRules(s), NEW k, FirstAt(s, k)
      PROVE  Deciding(s) = s[k][2] /\ Applicable(s) # {}
  <2> USE <1>FirstDecides
  <2>0. PICK R : s \in Seq(R)
    BY DEF IsRules
  <2>1. Applicable(s) \subseteq Nat /\ k \in Applicable(s) /\ k \in Nat
    BY <2>0 DEF Applicable, FirstAt
  <2>2. \A y \in Applicable(s) : k <= y
    BY <2>0 DEF Applicable, FirstAt
  <2>3. Min(Applicable(s)) = k
    BY <2>1, <2>2, MinIs
  <2> QED BY <2>1, <2>3 DEF Deciding

<1>JoinedRules.
      ASSUME NEW s, IsRules(s), NEW t, IsRules(t)
      PROVE  /\ IsRules(s \o t)
             /\ Len(s) \in Nat /\ Len(t) \in Nat
             /\ DOMAIN s = 1 .. Len(s) /\ DOMAIN t = 1 .. Len(t)
             /\ DOMAIN (s \o t) = 1 .. (Len(s) + Len(t))
             /\ \A i \in 1 .. Len(s) : (s \o t)[i] = s[i]
             /\ \A i \in 1 .. Len(t) : (s \o t)[Len(s) + i] = t[i]
  <2> USE <1>JoinedRules
  <2>1. PICK R : s \in Seq(R)
    BY DEF IsRules
  <2>2. PICK Q : t \in Seq(Q)
    BY DEF IsRules
  <2> DEFINE U == R \cup Q
  <2>3. s \in Seq(U) /\ t \in Seq(U)
    BY <2>1, <2>2
  <2> HIDE DEF U
  <2>4. s \o t \in Seq(U)
    BY <2>3
  <2>5. IsRules(s \o t)
    BY <2>4 DEF IsRules
  <2> QED BY <2>3, <2>5

\* The rules of s come before those of t.
<1>HeadDecides.
      ASSUME NEW s, IsRules(s), NEW t, IsRules(t), NEW k, FirstAt(s, k)
      PROVE  FirstAt(s \o t, k) /\ (s \o t)[k] = s[k]
  <2> USE <1>HeadDecides
  <2> DEFINE u == s \o t
  <2>1. /\ Len(s) \in Nat /\ Len(t) \in Nat
        /\ DOMAIN s = 1 .. Len(s) /\ DOMAIN u = 1 .. (Len(s) + Len(t))
        /\ \A i \in 1 .. Len(s) : u[i] = s[i]
    BY <1>JoinedRules
  <2> HIDE DEF u
  <2>2. k \in DOMAIN u /\ u[k] = s[k] /\ s[k][1] /\ k \in 1 .. Len(s)
    BY <2>1 DEF FirstAt
  <2>3. ASSUME NEW j \in DOMAIN u, j < k PROVE ~u[j][1]
    <3>1. j \in DOMAIN s /\ u[j] = s[j]
      BY <2>1, <2>2, <2>3
    <3> QED BY <2>3, <3>1 DEF FirstAt
  <2> QED BY <2>2, <2>3 DEF FirstAt, u

<1>TailDecides.
      ASSUME NEW s, IsRules(s), NEW t, IsRules(t), Silent(s), NEW k, FirstAt(t, k)
      PROVE  FirstAt(s \o t, Len(s) + k) /\ (s \o t)[Len(s) + k] = t[k]
  <2> USE <1>TailDecides
  <2> DEFINE u == s \o t
             n == Len(s) + k
  <2>1. /\ Len(s) \in Nat /\ Len(t) \in Nat
        /\ DOMAIN s = 1 .. Len(s) /\ DOMAIN t = 1 .. Len(t) /\ DOMAIN u = 1 .. (Len(s) + Len(t))
        /\ \A i \in 1 .. Len(s) : u[i] = s[i]
        /\ \A i \in 1 .. Len(t) : u[Len(s) + i] = t[i]
    BY <1>JoinedRules
  <2> HIDE DEF u
  <2>2. k \in 1 .. Len(t) /\ t[k][1]
    BY <2>1 DEF FirstAt
  <2>3. n \in DOMAIN u /\ u[n] = t[k]
    BY <2>1, <2>2
  <2>4. ASSUME NEW j \in DOMAIN u, j < n PROVE ~u[j][1]
    <3>1. CASE j <= Len(s)
      <4>1. j \in DOMAIN s /\ u[j] = s[j]
        BY <2>1, <3>1
      <4> QED BY <4>1 DEF Applicable, Silent
    <3>2. CASE j > Len(s)
      <4>1. PICK i \in 1 .. Len(t) : j = Len(s) + i /\ i < k
        <5>1. j - Len(s) \in 1 .. Len(t) /\ j = Len(s) + (j - Len(s)) /\ j - Len(s) < k
          BY <2>1, <2>2, <2>4, <3>2
        <5> QED BY <5>1
      <4>2. u[j] = t[i] /\ ~t[i][1]
        BY <2>1, <4>1 DEF FirstAt
      <4> QED BY <4>2
    <3> QED BY <2>1, <3>1, <3>2
  <2>5. FirstAt(u, n)
    BY <2>2, <2>3, <2>4 DEF FirstAt
  <2> QED BY <2>3, <2>5 DEF u

<1>NoneDecides.
      ASSUME NEW s, IsRules(s), NEW t, IsRules(t), Silent(s), Silent(t)
      PROVE  Silent(s \o t)
  <2> USE <1>NoneDecides
  <2> DEFINE u == s \o t
  <2>1. /\ Len(s) \in Nat /\ Len(t) \in Nat
        /\ DOMAIN s = 1 .. Len(s) /\ DOMAIN t = 1 .. Len(t) /\ DOMAIN u = 1 .. (Len(s) + Len(t))
        /\ \A i \in 1 .. Len(s) : u[i] = s[i]
        /\ \A i \in 1 .. Len(t) : u[Len(s) + i] = t[i]
    BY <1>JoinedRules
  <2> HIDE DEF u
  <2>2. ASSUME NEW j \in DOMAIN u PROVE ~u[j][1]
    <3>1. CASE j <= Len(s)
      <4>1. j \in DOMAIN s /\ u[j] = s[j]
        BY <2>1, <3>1
      <4> QED BY <4>1 DEF Applicable, Silent
    <3>2. CASE j > Len(s)
      <4>1. PICK i \in 1 .. Len(t) : j = Len(s) + i
        <5>1. j - Len(s) \in 1 .. Len(t) /\ j = Len(s) + (j - Len(s))
          BY <2>1, <3>2
        <5> QED BY <5>1
      <4>2. u[j] = t[i] /\ i \in DOMAIN t
        BY <2>1, <4>1
      <4> QED BY <4>2 DEF Applicable, Silent
    <3> QED BY <2>1, <3>1, <3>2
  <2> QED BY <2>2 DEF Applicable, Silent, u

<1>HeadVerdict.
      ASSUME NEW s, IsRules(s), NEW t, IsRules(t), NEW v, Decides(s, v)
      PROVE  Decides(s \o t, v)
  <2> USE <1>HeadVerdict
  <2>1. PICK k : FirstAt(s, k) /\ s[k][2] = v
    BY DEF Decides
  <2>2. FirstAt(s \o t, k) /\ (s \o t)[k] = s[k]
    BY <2>1, <1>HeadDecides, Zenon
  <2> QED BY <2>1, <2>2, Zenon DEF Decides

<1>TailVerdict.
      ASSUME NEW s, IsRules(s), NEW t, IsRules(t), Silent(s), NEW v, Decides(t, v)
      PROVE  Decides(s \o t, v)
  <2> USE <1>TailVerdict
  <2>1. PICK k : FirstAt(t, k) /\ t[k][2] = v
    BY DEF Decides
  <2>2. FirstAt(s \o t, Len(s) + k) /\ (s \o t)[Len(s) + k] = t[k]
    BY <2>1, <1>TailDecides, ZenonT(30)
  <2> QED BY <2>1, <2>2, Zenon DEF Decides

<1>TwoRules.
      ASSUME NEW s, IsRules(s), DOMAIN s = 1 .. 2
      PROVE  /\ Silent(s) <=> ~(s[1][1] \/ s[2][1])
             /\ s[1][1] => Decides(s, s[1][2])
             /\ ~s[1][1] /\ s[2][1] => Decides(s, s[2][2])
  <2> USE <1>TwoRules
  <2>1. \A i \in DOMAIN s : i = 1 \/ i = 2
    OBVIOUS
  <2>2. Silent(s) <=> ~(s[1][1] \/ s[2][1])
    BY <2>1 DEF Applicable, Silent
  <2>3. /\ s[1][1] => FirstAt(s, 1)
        /\ ~s[1][1] /\ s[2][1] => FirstAt(s, 2)
    BY <2>1 DEF FirstAt
  <2> QED BY <2>2, <2>3 DEF Decides

<1>ThreeRules.
      ASSUME NEW s, IsRules(s), DOMAIN s = 1 .. 3
      PROVE  /\ Silent(s) <=> ~(s[1][1] \/ s[2][1] \/ s[3][1])
             /\ s[1][1] => Decides(s, s[1][2])
             /\ ~s[1][1] /\ s[2][1] => Decides(s, s[2][2])
             /\ ~s[1][1] /\ ~s[2][1] /\ s[3][1] => Decides(s, s[3][2])
  <2> USE <1>ThreeRules
  <2>1. \A i \in DOMAIN s : i = 1 \/ i = 2 \/ i = 3
    OBVIOUS
  <2>2. Silent(s) <=> ~(s[1][1] \/ s[2][1] \/ s[3][1])
    BY <2>1 DEF Applicable, Silent
  <2>3. /\ s[1][1] => FirstAt(s, 1)
        /\ ~s[1][1] /\ s[2][1] => FirstAt(s, 2)
        /\ ~s[1][1] /\ ~s[2][1] /\ s[3][1] => FirstAt(s, 3)
    BY <2>1 DEF FirstAt
  <2> QED BY <2>2, <2>3 DEF Decides

<1>FourRules.
      ASSUME NEW s, IsRules(s), DOMAIN s = 1 .. 4
      PROVE  /\ Silent(s) <=> ~(s[1][1] \/ s[2][1] \/ s[3][1] \/ s[4][1])
             /\ s[1][1] => Decides(s, s[1][2])
             /\ ~s[1][1] /\ s[2][1] => Decides(s, s[2][2])
             /\ ~s[1][1] /\ ~s[2][1] /\ s[3][1] => Decides(s, s[3][2])
             /\ ~s[1][1] /\ ~s[2][1] /\ ~s[3][1] /\ s[4][1] => Decides(s, s[4][2])
  <2> USE <1>FourRules
  <2>1. \A i \in DOMAIN s : i = 1 \/ i = 2 \/ i = 3 \/ i = 4
    OBVIOUS
  <2>2. Silent(s) <=> ~(s[1][1] \/ s[2][1] \/ s[3][1] \/ s[4][1])
    BY <2>1 DEF Applicable, Silent
  <2>3. /\ s[1][1] => FirstAt(s, 1)
        /\ ~s[1][1] /\ s[2][1] => FirstAt(s, 2)
        /\ ~s[1][1] /\ ~s[2][1] /\ s[3][1] => FirstAt(s, 3)
        /\ ~s[1][1] /\ ~s[2][1] /\ ~s[3][1] /\ s[4][1] => FirstAt(s, 4)
    BY <2>1 DEF FirstAt
  <2> QED BY <2>2, <2>3 DEF Decides

<1>TransportGroup.
      ASSUME NEW code, NEW text
      PROVE  LET s == TransportRules(code, text)
                 c1 == "ssl" \in text
                 c2 == "refused" \in text
                 c3 == OverOutput(code, text)
                 c4 == "empty" \in text
             IN  /\ IsRules(s)
                 /\ Silent(s) <=> ~(c1 \/ c2 \/ c3 \/ c4)
                 /\ c1 =>
                        Decides(s, Verdict("ssl_cert_verification", FALSE, TRUE, FALSE))
                 /\ ~c1 /\ c2 =>
                        Decides(s, Verdict("connection_refused", FALSE, TRUE, FALSE))
                 /\ ~c1 /\ ~c2 /\ c3 =>
                        Decides(s, Verdict("output_cap_exceeded", TRUE, FALSE, FALSE))
                 /\ ~c1 /\ ~c2 /\ ~c3 /\ c4 =>
                        Decides(s, Verdict("empty_completion", TRUE, FALSE, FALSE))
  <2> USE <1>TransportGroup
  <2> DEFINE s == TransportRules(code, text)
             R == {s[1], s[2], s[3], s[4]}
             c1 == "ssl" \in text
             c2 == "refused" \in text
             c3 == OverOutput(code, text)
             c4 == "empty" \in text
  <2>1. s \in Seq(R) /\ DOMAIN s = 1 .. 4
    BY DEF TransportRules
  <2>2. IsRules(s)
    <3> HIDE DEF s, R
    <3> QED BY <2>1 DEF IsRules
  <2>3. s[1][1] <=> c1
    BY Zenon DEF TransportRules, OverOutput
  <2>4. s[2][1] <=> c2
    BY Zenon DEF TransportRules, OverOutput
  <2>5. s[3][1] <=> c3
    BY ZenonT(30) DEF TransportRules, OverOutput
  <2>6. s[4][1] <=> c4
    BY Zenon DEF TransportRules, OverOutput
  <2>7. /\ s[1][2] = Verdict("ssl_cert_verification", FALSE, TRUE, FALSE)
        /\ s[2][2] = Verdict("connection_refused", FALSE, TRUE, FALSE)
        /\ s[3][2] = Verdict("output_cap_exceeded", TRUE, FALSE, FALSE)
        /\ s[4][2] = Verdict("empty_completion", TRUE, FALSE, FALSE)
    BY DEF TransportRules, OverOutput
  <2> HIDE DEF s, c1, c2, c3, c4
  <2>8. /\ Silent(s) <=> ~(s[1][1] \/ s[2][1] \/ s[3][1] \/ s[4][1])
        /\ s[1][1] => Decides(s, s[1][2])
        /\ ~s[1][1] /\ s[2][1] => Decides(s, s[2][2])
        /\ ~s[1][1] /\ ~s[2][1] /\ s[3][1] => Decides(s, s[3][2])
        /\ ~s[1][1] /\ ~s[2][1] /\ ~s[3][1] /\ s[4][1] => Decides(s, s[4][2])
    BY <2>1, <2>2, <1>FourRules
  <2>9. /\ Silent(s) <=> ~(c1 \/ c2 \/ c3 \/ c4)
        /\ c1 => Decides(s, s[1][2])
        /\ ~c1 /\ c2 => Decides(s, s[2][2])
        /\ ~c1 /\ ~c2 /\ c3 => Decides(s, s[3][2])
        /\ ~c1 /\ ~c2 /\ ~c3 /\ c4 => Decides(s, s[4][2])
    BY <2>3, <2>4, <2>5, <2>6, <2>8, Zenon
  <2>10. /\ c1 => Decides(s, Verdict("ssl_cert_verification", FALSE, TRUE, FALSE))
         /\ ~c1 /\ c2 => Decides(s, Verdict("connection_refused", FALSE, TRUE, FALSE))
         /\ ~c1 /\ ~c2 /\ c3 => Decides(s, Verdict("output_cap_exceeded", TRUE, FALSE, FALSE))
         /\ ~c1 /\ ~c2 /\ ~c3 /\ c4 => Decides(s, Verdict("empty_completion", TRUE, FALSE, FALSE))
    BY <2>7, <2>9, Zenon
  <2> QED BY <2>2, <2>9, <2>10, Zenon DEF s, c1, c2, c3, c4

<1>SizeGroup.
      ASSUME NEW code, NEW text
      PROVE  LET s == SizeRules(code, text)
                 c1 == Oversized(text)
                 c2 == Throttled(code, text)
                 c3 == Overflows(code, text)
             IN  /\ IsRules(s)
                 /\ Silent(s) <=> ~(c1 \/ c2 \/ c3)
                 /\ c1 =>
                        Decides(s, Verdict("payload_too_large", FALSE, FALSE, FALSE))
                 /\ ~c1 /\ c2 =>
                        Decides(s, Verdict("rate_limit", TRUE, TRUE, FALSE))
                 /\ ~c1 /\ ~c2 /\ c3 =>
                        Decides(s, Verdict("payload_too_large", FALSE, FALSE, FALSE))
  <2> USE <1>SizeGroup
  <2> DEFINE s == SizeRules(code, text)
             R == {s[1], s[2], s[3]}
             c1 == Oversized(text)
             c2 == Throttled(code, text)
             c3 == Overflows(code, text)
  <2>1. s \in Seq(R) /\ DOMAIN s = 1 .. 3
    BY DEF SizeRules
  <2>2. IsRules(s)
    <3> HIDE DEF s, R
    <3> QED BY <2>1 DEF IsRules
  <2>3. s[1][1] <=> c1
    BY Zenon DEF SizeRules, Oversized, Throttled, Overflows
  <2>4. s[2][1] <=> c2
    BY ZenonT(30) DEF SizeRules, Oversized, Throttled, Overflows
  <2>5. s[3][1] <=> c3
    BY Zenon DEF SizeRules, Oversized, Throttled, Overflows
  <2>6. /\ s[1][2] = Verdict("payload_too_large", FALSE, FALSE, FALSE)
        /\ s[2][2] = Verdict("rate_limit", TRUE, TRUE, FALSE)
        /\ s[3][2] = Verdict("payload_too_large", FALSE, FALSE, FALSE)
    BY DEF SizeRules, Oversized, Throttled, Overflows
  <2> HIDE DEF s, c1, c2, c3
  <2>7. /\ Silent(s) <=> ~(s[1][1] \/ s[2][1] \/ s[3][1])
        /\ s[1][1] => Decides(s, s[1][2])
        /\ ~s[1][1] /\ s[2][1] => Decides(s, s[2][2])
        /\ ~s[1][1] /\ ~s[2][1] /\ s[3][1] => Decides(s, s[3][2])
    BY <2>1, <2>2, <1>ThreeRules
  <2>8. /\ Silent(s) <=> ~(c1 \/ c2 \/ c3)
        /\ c1 => Decides(s, s[1][2])
        /\ ~c1 /\ c2 => Decides(s, s[2][2])
        /\ ~c1 /\ ~c2 /\ c3 => Decides(s, s[3][2])
    BY <2>3, <2>4, <2>5, <2>7, Zenon
  <2>9. /\ c1 => Decides(s, Verdict("payload_too_large", FALSE, FALSE, FALSE))
        /\ ~c1 /\ c2 => Decides(s, Verdict("rate_limit", TRUE, TRUE, FALSE))
        /\ ~c1 /\ ~c2 /\ c3 => Decides(s, Verdict("payload_too_large", FALSE, FALSE, FALSE))
    BY <2>6, <2>8, Zenon
  <2> QED BY <2>2, <2>8, <2>9, Zenon DEF s, c1, c2, c3

<1>QuotaGroup.
      ASSUME NEW code, NEW text
      PROVE  LET s == QuotaRules(code, text)
                 c1 == "freePerDay" \in text
                 c2 == Unpaid(code, text)
                 c3 == RateLimited(code, text)
             IN  /\ IsRules(s)
                 /\ Silent(s) <=> ~(c1 \/ c2 \/ c3)
                 /\ c1 =>
                        Decides(s, Verdict("billing", FALSE, FALSE, FALSE))
                 /\ ~c1 /\ c2 =>
                        Decides(s, Verdict("billing", FALSE, TRUE, TRUE))
                 /\ ~c1 /\ ~c2 /\ c3 =>
                        Decides(s, Verdict(RateReason(text), TRUE, TRUE, FALSE))
  <2> USE <1>QuotaGroup
  <2> DEFINE s == QuotaRules(code, text)
             R == {s[1], s[2], s[3]}
             c1 == "freePerDay" \in text
             c2 == Unpaid(code, text)
             c3 == RateLimited(code, text)
  <2>1. s \in Seq(R) /\ DOMAIN s = 1 .. 3
    BY DEF QuotaRules
  <2>2. IsRules(s)
    <3> HIDE DEF s, R
    <3> QED BY <2>1 DEF IsRules
  <2>3. s[1][1] <=> c1
    BY Zenon DEF QuotaRules, Unpaid, RateLimited, RateReason
  <2>4. s[2][1] <=> c2
    BY Zenon DEF QuotaRules, Unpaid, RateLimited, RateReason
  <2>5. s[3][1] <=> c3
    BY Zenon DEF QuotaRules, Unpaid, RateLimited, RateReason
  <2>6. /\ s[1][2] = Verdict("billing", FALSE, FALSE, FALSE)
        /\ s[2][2] = Verdict("billing", FALSE, TRUE, TRUE)
        /\ s[3][2] = Verdict(RateReason(text), TRUE, TRUE, FALSE)
    BY DEF QuotaRules, Unpaid, RateLimited, RateReason
  <2> HIDE DEF s, c1, c2, c3
  <2>7. /\ Silent(s) <=> ~(s[1][1] \/ s[2][1] \/ s[3][1])
        /\ s[1][1] => Decides(s, s[1][2])
        /\ ~s[1][1] /\ s[2][1] => Decides(s, s[2][2])
        /\ ~s[1][1] /\ ~s[2][1] /\ s[3][1] => Decides(s, s[3][2])
    BY <2>1, <2>2, <1>ThreeRules
  <2>8. /\ Silent(s) <=> ~(c1 \/ c2 \/ c3)
        /\ c1 => Decides(s, s[1][2])
        /\ ~c1 /\ c2 => Decides(s, s[2][2])
        /\ ~c1 /\ ~c2 /\ c3 => Decides(s, s[3][2])
    BY <2>3, <2>4, <2>5, <2>7, Zenon
  <2>9. /\ c1 => Decides(s, Verdict("billing", FALSE, FALSE, FALSE))
        /\ ~c1 /\ c2 => Decides(s, Verdict("billing", FALSE, TRUE, TRUE))
        /\ ~c1 /\ ~c2 /\ c3 => Decides(s, Verdict(RateReason(text), TRUE, TRUE, FALSE))
    BY <2>6, <2>8, Zenon
  <2> QED BY <2>2, <2>8, <2>9, Zenon DEF s, c1, c2, c3

<1>ModelGroup.
      ASSUME NEW code, NEW text
      PROVE  LET s == ModelRules(code, text)
                 c1 == NotThere(code, text)
                 c2 == "badTool" \in text
                 c3 == Unsuited(code, text)
             IN  /\ IsRules(s)
                 /\ Silent(s) <=> ~(c1 \/ c2 \/ c3)
                 /\ c1 =>
                        Decides(s, Verdict("model_not_found", FALSE, FALSE, TRUE))
                 /\ ~c1 /\ c2 =>
                        Decides(s, Verdict("malformed_tool_call", FALSE, FALSE, FALSE))
                 /\ ~c1 /\ ~c2 /\ c3 =>
                        Decides(s, Verdict("schema_incompatible", FALSE, FALSE, FALSE))
  <2> USE <1>ModelGroup
  <2> DEFINE s == ModelRules(code, text)
             R == {s[1], s[2], s[3]}
             c1 == NotThere(code, text)
             c2 == "badTool" \in text
             c3 == Unsuited(code, text)
  <2>1. s \in Seq(R) /\ DOMAIN s = 1 .. 3
    BY DEF ModelRules
  <2>2. IsRules(s)
    <3> HIDE DEF s, R
    <3> QED BY <2>1 DEF IsRules
  <2>3. s[1][1] <=> c1
    BY DEF ModelRules, NotThere, Unsuited
  <2>4. s[2][1] <=> c2
    BY Zenon DEF ModelRules, NotThere, Unsuited
  <2>5. s[3][1] <=> c3
    BY Zenon DEF ModelRules, NotThere, Unsuited
  <2>6. /\ s[1][2] = Verdict("model_not_found", FALSE, FALSE, TRUE)
        /\ s[2][2] = Verdict("malformed_tool_call", FALSE, FALSE, FALSE)
        /\ s[3][2] = Verdict("schema_incompatible", FALSE, FALSE, FALSE)
    BY DEF ModelRules, NotThere, Unsuited
  <2> HIDE DEF s, c1, c2, c3
  <2>7. /\ Silent(s) <=> ~(s[1][1] \/ s[2][1] \/ s[3][1])
        /\ s[1][1] => Decides(s, s[1][2])
        /\ ~s[1][1] /\ s[2][1] => Decides(s, s[2][2])
        /\ ~s[1][1] /\ ~s[2][1] /\ s[3][1] => Decides(s, s[3][2])
    BY <2>1, <2>2, <1>ThreeRules
  <2>8. /\ Silent(s) <=> ~(c1 \/ c2 \/ c3)
        /\ c1 => Decides(s, s[1][2])
        /\ ~c1 /\ c2 => Decides(s, s[2][2])
        /\ ~c1 /\ ~c2 /\ c3 => Decides(s, s[3][2])
    BY <2>3, <2>4, <2>5, <2>7, Zenon
  <2>9. /\ c1 => Decides(s, Verdict("model_not_found", FALSE, FALSE, TRUE))
        /\ ~c1 /\ c2 => Decides(s, Verdict("malformed_tool_call", FALSE, FALSE, FALSE))
        /\ ~c1 /\ ~c2 /\ c3 => Decides(s, Verdict("schema_incompatible", FALSE, FALSE, FALSE))
    BY <2>6, <2>8, Zenon
  <2> QED BY <2>2, <2>8, <2>9, Zenon DEF s, c1, c2, c3

<1>AccessGroup.
      ASSUME NEW code, NEW text
      PROVE  LET s == AccessRules(code, text)
                 c1 == Denied(code, text)
                 c2 == "waf" \in text
             IN  /\ IsRules(s)
                 /\ Silent(s) <=> ~(c1 \/ c2)
                 /\ c1 =>
                        Decides(s, Verdict("auth", FALSE, FALSE, DeniedForGood(code, text)))
                 /\ ~c1 /\ c2 =>
                        Decides(s, Verdict("waf_blocked", FALSE, TRUE, FALSE))
  <2> USE <1>AccessGroup
  <2> DEFINE s == AccessRules(code, text)
             R == {s[1], s[2]}
             c1 == Denied(code, text)
             c2 == "waf" \in text
  <2>1. s \in Seq(R) /\ DOMAIN s = 1 .. 2
    BY DEF AccessRules
  <2>2. IsRules(s)
    <3> HIDE DEF s, R
    <3> QED BY <2>1 DEF IsRules
  <2>3. s[1][1] <=> c1
    BY ZenonT(30) DEF AccessRules, Denied, DeniedForGood
  <2>4. s[2][1] <=> c2
    BY Zenon DEF AccessRules, Denied, DeniedForGood
  <2>5. /\ s[1][2] = Verdict("auth", FALSE, FALSE, DeniedForGood(code, text))
        /\ s[2][2] = Verdict("waf_blocked", FALSE, TRUE, FALSE)
    BY DEF AccessRules, Denied, DeniedForGood
  <2> HIDE DEF s, c1, c2
  <2>6. /\ Silent(s) <=> ~(s[1][1] \/ s[2][1])
        /\ s[1][1] => Decides(s, s[1][2])
        /\ ~s[1][1] /\ s[2][1] => Decides(s, s[2][2])
    BY <2>1, <2>2, <1>TwoRules
  <2>7. /\ Silent(s) <=> ~(c1 \/ c2)
        /\ c1 => Decides(s, s[1][2])
        /\ ~c1 /\ c2 => Decides(s, s[2][2])
    BY <2>3, <2>4, <2>6, Zenon
  <2>8. /\ c1 => Decides(s, Verdict("auth", FALSE, FALSE, DeniedForGood(code, text)))
        /\ ~c1 /\ c2 => Decides(s, Verdict("waf_blocked", FALSE, TRUE, FALSE))
    BY <2>5, <2>7, Zenon
  <2> QED BY <2>2, <2>7, <2>8, Zenon DEF s, c1, c2

<1>ProviderGroup.
      ASSUME NEW code, NEW text
      PROVE  LET s == ProviderRules(code, text)
                 c1 == Unavailable(code, text)
                 c2 == "timeout" \in text
                 c3 == ClientFault(code)
                 c4 == TRUE
             IN  /\ IsRules(s)
                 /\ Silent(s) <=> ~(c1 \/ c2 \/ c3 \/ c4)
                 /\ c1 =>
                        Decides(s, Verdict(FaultReason(code, text), TRUE, TRUE, FALSE))
                 /\ ~c1 /\ c2 =>
                        Decides(s, Verdict("timeout", TRUE, TRUE, FALSE))
                 /\ ~c1 /\ ~c2 /\ c3 =>
                        Decides(s, Verdict("client_error", FALSE, FALSE, FALSE))
                 /\ ~c1 /\ ~c2 /\ ~c3 /\ c4 =>
                        Decides(s, Verdict("unknown", TRUE, TRUE, FALSE))
  <2> DEFINE s == ProviderRules(code, text)
             R == {s[1], s[2], s[3], s[4]}
             c1 == Unavailable(code, text)
             c2 == "timeout" \in text
             c3 == ClientFault(code)
             c4 == TRUE
  <2>1. s \in Seq(R) /\ DOMAIN s = 1 .. 4
    BY DEF ProviderRules
  <2>2. IsRules(s)
    <3> HIDE DEF s, R
    <3> QED BY <2>1 DEF IsRules
  <2>3. s[1][1] <=> c1
    <3>1. s[1][1] <=> (code \in {408, 500, 502, 503, 504, 529} \/ "overloaded" \in text)
      BY ZenonT(60) DEF ProviderRules
    <3> HIDE DEF s
    <3> QED BY <3>1, Zenon DEF Unavailable
  <2>4. s[2][1] <=> c2
    BY Zenon DEF ProviderRules
  <2>5. s[3][1] <=> c3
    BY ZenonT(30) DEF ProviderRules, ClientFault
  <2>6. s[4][1] <=> c4
    BY DEF ProviderRules, Unavailable, ClientFault, FaultReason
  <2>7. /\ s[1][2] = Verdict(FaultReason(code, text), TRUE, TRUE, FALSE)
        /\ s[2][2] = Verdict("timeout", TRUE, TRUE, FALSE)
        /\ s[3][2] = Verdict("client_error", FALSE, FALSE, FALSE)
        /\ s[4][2] = Verdict("unknown", TRUE, TRUE, FALSE)
    BY DEF ProviderRules, Unavailable, ClientFault, FaultReason
  <2> HIDE DEF s, c1, c2, c3, c4
  <2>8. /\ Silent(s) <=> ~(s[1][1] \/ s[2][1] \/ s[3][1] \/ s[4][1])
        /\ s[1][1] => Decides(s, s[1][2])
        /\ ~s[1][1] /\ s[2][1] => Decides(s, s[2][2])
        /\ ~s[1][1] /\ ~s[2][1] /\ s[3][1] => Decides(s, s[3][2])
        /\ ~s[1][1] /\ ~s[2][1] /\ ~s[3][1] /\ s[4][1] => Decides(s, s[4][2])
    BY <2>1, <2>2, <1>FourRules
  <2>9. /\ Silent(s) <=> ~(c1 \/ c2 \/ c3 \/ c4)
        /\ c1 => Decides(s, s[1][2])
        /\ ~c1 /\ c2 => Decides(s, s[2][2])
        /\ ~c1 /\ ~c2 /\ c3 => Decides(s, s[3][2])
        /\ ~c1 /\ ~c2 /\ ~c3 /\ c4 => Decides(s, s[4][2])
    BY <2>3, <2>4, <2>5, <2>6, <2>8, Zenon
  <2>10. /\ c1 => Decides(s, Verdict(FaultReason(code, text), TRUE, TRUE, FALSE))
         /\ ~c1 /\ c2 => Decides(s, Verdict("timeout", TRUE, TRUE, FALSE))
         /\ ~c1 /\ ~c2 /\ c3 => Decides(s, Verdict("client_error", FALSE, FALSE, FALSE))
         /\ ~c1 /\ ~c2 /\ ~c3 /\ c4 => Decides(s, Verdict("unknown", TRUE, TRUE, FALSE))
    BY <2>7, <2>9, Zenon
  <2> QED BY <2>2, <2>9, <2>10, Zenon DEF s, c1, c2, c3, c4

\* The verdict is that of the first group of rules of which one applies.
<1>Cascade.
      ASSUME NEW code, NEW text, NEW v
      PROVE  LET T == TransportRules(code, text)
                 S == SizeRules(code, text)
                 Q == QuotaRules(code, text)
                 M == ModelRules(code, text)
                 A == AccessRules(code, text)
                 P == ProviderRules(code, text)
                 c == classify_failure(code, text)
             IN  /\ Decides(T, v) => c = v
                 /\ Silent(T) /\ Decides(S, v) => c = v
                 /\ Silent(T) /\ Silent(S) /\ Decides(Q, v) => c = v
                 /\ Silent(T) /\ Silent(S) /\ Silent(Q) /\ Decides(M, v)
                        => c = v
                 /\ Silent(T) /\ Silent(S) /\ Silent(Q)
                      /\ Silent(M) /\ Decides(A, v) => c = v
                 /\ Silent(T) /\ Silent(S) /\ Silent(Q)
                      /\ Silent(M) /\ Silent(A) /\ Decides(P, v) => c = v
  <2> USE <1>Cascade
  <2> DEFINE T == TransportRules(code, text)
             S == SizeRules(code, text)
             Q == QuotaRules(code, text)
             M == ModelRules(code, text)
             A == AccessRules(code, text)
             P == ProviderRules(code, text)
             s2 == T \o S
             s3 == s2 \o Q
             s4 == s3 \o M
             s5 == s4 \o A
             s6 == s5 \o P
             c == classify_failure(code, text)
  <2>1. IsRules(T) /\ IsRules(S) /\ IsRules(Q) /\ IsRules(M) /\ IsRules(A) /\ IsRules(P)
    <3>1. IsRules(T) BY <1>TransportGroup, Zenon
    <3>2. IsRules(S) BY <1>SizeGroup, Zenon
    <3>3. IsRules(Q) BY <1>QuotaGroup, Zenon
    <3>4. IsRules(M) BY <1>ModelGroup, Zenon
    <3>5. IsRules(A) BY <1>AccessGroup, Zenon
    <3>6. IsRules(P) BY <1>ProviderGroup, Zenon
    <3> QED BY <3>1, <3>2, <3>3, <3>4, <3>5, <3>6
  <2>2. c = Deciding(s6)
    BY DEF classify_failure, Deciding, Applicable
  <2> HIDE DEF T, S, Q, M, A, P, c
  <2>3. IsRules(s2) /\ IsRules(s3) /\ IsRules(s4) /\ IsRules(s5) /\ IsRules(s6)
    <3>2. IsRules(s2) BY <2>1, <1>JoinedRules
    <3> HIDE DEF s2
    <3>3. IsRules(s3) BY <2>1, <3>2, <1>JoinedRules
    <3> HIDE DEF s3
    <3>4. IsRules(s4) BY <2>1, <3>3, <1>JoinedRules
    <3> HIDE DEF s4
    <3>5. IsRules(s5) BY <2>1, <3>4, <1>JoinedRules
    <3> HIDE DEF s5
    <3>6. IsRules(s6) BY <2>1, <3>5, <1>JoinedRules
    <3> QED BY <3>2, <3>3, <3>4, <3>5, <3>6
  <2>4. Decides(s6, v) => c = v
    <3> HIDE DEF s6
    <3> QED BY <2>2, <2>3, <1>FirstDecides DEF Decides
  <2>5. /\ Decides(s5, v) \/ (Silent(s5) /\ Decides(P, v)) => Decides(s6, v)
    <3> HIDE DEF s5
    <3> QED BY <2>1, <2>3, <1>HeadVerdict, <1>TailVerdict
  <2>6. /\ Decides(s4, v) \/ (Silent(s4) /\ Decides(A, v)) => Decides(s5, v)
        /\ Silent(s4) /\ Silent(A) => Silent(s5)
    <3> HIDE DEF s4
    <3> QED BY <2>1, <2>3, <1>HeadVerdict, <1>TailVerdict, <1>NoneDecides
  <2>7. /\ Decides(s3, v) \/ (Silent(s3) /\ Decides(M, v)) => Decides(s4, v)
        /\ Silent(s3) /\ Silent(M) => Silent(s4)
    <3> HIDE DEF s3
    <3> QED BY <2>1, <2>3, <1>HeadVerdict, <1>TailVerdict, <1>NoneDecides
  <2>8. /\ Decides(s2, v) \/ (Silent(s2) /\ Decides(Q, v)) => Decides(s3, v)
        /\ Silent(s2) /\ Silent(Q) => Silent(s3)
    <3> HIDE DEF s2
    <3> QED BY <2>1, <2>3, <1>HeadVerdict, <1>TailVerdict, <1>NoneDecides
  <2>9. /\ Decides(T, v) \/ (Silent(T) /\ Decides(S, v)) => Decides(s2, v)
        /\ Silent(T) /\ Silent(S) => Silent(s2)
    BY <2>1, <2>3, <1>HeadVerdict, <1>TailVerdict, <1>NoneDecides
  <2> HIDE DEF s2, s3, s4, s5, s6
  <2>10. /\ Decides(T, v) => c = v
         /\ Silent(T) /\ Decides(S, v) => c = v
         /\ Silent(T) /\ Silent(S) /\ Decides(Q, v) => c = v
         /\ Silent(T) /\ Silent(S) /\ Silent(Q) /\ Decides(M, v) => c = v
         /\ Silent(T) /\ Silent(S) /\ Silent(Q)
              /\ Silent(M) /\ Decides(A, v) => c = v
         /\ Silent(T) /\ Silent(S) /\ Silent(Q)
              /\ Silent(M) /\ Silent(A) /\ Decides(P, v) => c = v
    <3>1. Decides(T, v) \/ (Silent(T) /\ Decides(S, v)) => c = v
      BY <2>4, <2>5, <2>6, <2>7, <2>8, <2>9
    <3>2. Silent(T) /\ Silent(S) /\ Decides(Q, v) => c = v
      BY <2>4, <2>5, <2>6, <2>7, <2>8, <2>9
    <3>3. Silent(T) /\ Silent(S) /\ Silent(Q) /\ Decides(M, v) => c = v
      BY <2>4, <2>5, <2>6, <2>7, <2>8, <2>9
    <3>4. Silent(T) /\ Silent(S) /\ Silent(Q)
              /\ Silent(M) /\ Decides(A, v) => c = v
      BY <2>4, <2>5, <2>6, <2>7, <2>8, <2>9
    <3>5. Silent(T) /\ Silent(S) /\ Silent(Q)
              /\ Silent(M) /\ Silent(A) /\ Decides(P, v) => c = v
      BY <2>4, <2>5, <2>6, <2>7, <2>8, <2>9
    <3> QED BY <3>1, <3>2, <3>3, <3>4, <3>5, Zenon
  <2> QED BY <2>10, Zenon DEF T, S, Q, M, A, P, c

<1>TransportSilent.
      ASSUME NEW code, NEW text, Lacks(text, TransportMarks)
      PROVE  Silent(TransportRules(code, text))
  <2> USE <1>TransportSilent
  <2>1. "ssl" \notin text /\ "refused" \notin text /\ "empty" \notin text /\ ~OverOutput(code, text)
    BY DEF OverOutput, TransportMarks, Lacks
  <2> QED BY <2>1, <1>TransportGroup, Zenon

<1>SizeSilent.
      ASSUME NEW code, NEW text, Lacks(text, SizeMarks), ~Status(code, {413})
      PROVE  Silent(SizeRules(code, text))
  <2> USE <1>SizeSilent
  <2>1. ~Oversized(text) /\ ~Throttled(code, text) /\ ~Overflows(code, text)
    BY DEF Oversized, OversizedTpm, Throttled, Overflows, Finds, SizeMarks, Lacks, Status
  <2> QED BY <2>1, <1>SizeGroup, Zenon

<1>QuotaSilent.
      ASSUME NEW code, NEW text, Lacks(text, QuotaMarks), ~Status(code, {402, 429})
      PROVE  Silent(QuotaRules(code, text))
  <2> USE <1>QuotaSilent
  <2>1. "freePerDay" \notin text /\ ~Unpaid(code, text) /\ ~RateLimited(code, text)
    BY DEF Unpaid, RateLimited, QuotaMarks, Lacks, Status
  <2> QED BY <2>1, <1>QuotaGroup, Zenon

<1>ModelSilent.
      ASSUME NEW code, NEW text, Lacks(text, ModelMarks), ~Status(code, {404, 410})
      PROVE  Silent(ModelRules(code, text))
  <2> USE <1>ModelSilent
  <2>1. ~NotThere(code, text) /\ "badTool" \notin text /\ ~Unsuited(code, text)
    BY DEF NotThere, Unsuited, ModelMarks, Lacks, Status
  <2> QED BY <2>1, <1>ModelGroup, Zenon

<1>AccessSilent.
      ASSUME NEW code, NEW text, Lacks(text, AccessMarks), ~Status(code, {401, 403})
      PROVE  Silent(AccessRules(code, text))
  <2> USE <1>AccessSilent
  <2>1. ~Denied(code, text) /\ "waf" \notin text
    BY DEF Denied, AccessMarks, Finds, Lacks, Status
  <2> QED BY <2>1, <1>AccessGroup, ZenonT(30)

\* What the first rule that applies makes of a refusal.
<1>BadCertificate.
      ASSUME NEW code, NEW text, "ssl" \in text
      PROVE  classify_failure(code, text) = Verdict("ssl_cert_verification", FALSE, TRUE, FALSE)
  <2> USE <1>BadCertificate
  <2>1. Decides(TransportRules(code, text), Verdict("ssl_cert_verification", FALSE, TRUE, FALSE))
    BY <1>TransportGroup, Zenon
  <2> QED BY <2>1, <1>Cascade, Zenon

<1>ConnectionRefused.
      ASSUME NEW code, NEW text, "ssl" \notin text, "refused" \in text
      PROVE  classify_failure(code, text) = Verdict("connection_refused", FALSE, TRUE, FALSE)
  <2> USE <1>ConnectionRefused
  <2>1. Decides(TransportRules(code, text), Verdict("connection_refused", FALSE, TRUE, FALSE))
    BY <1>TransportGroup, Zenon
  <2> QED BY <2>1, <1>Cascade, Zenon

<1>OverTheCap.
      ASSUME NEW code, NEW text, "ssl" \notin text, "refused" \notin text, OverOutput(code, text)
      PROVE  classify_failure(code, text) = Verdict("output_cap_exceeded", TRUE, FALSE, FALSE)
  <2> USE <1>OverTheCap
  <2>1. Decides(TransportRules(code, text), Verdict("output_cap_exceeded", TRUE, FALSE, FALSE))
    BY <1>TransportGroup, Zenon
  <2> QED BY <2>1, <1>Cascade, Zenon

<1>SaidNothing.
      ASSUME NEW code, NEW text, "ssl" \notin text, "refused" \notin text, ~OverOutput(code, text),
             "empty" \in text
      PROVE  classify_failure(code, text) = Verdict("empty_completion", TRUE, FALSE, FALSE)
  <2> USE <1>SaidNothing
  <2>1. Decides(TransportRules(code, text), Verdict("empty_completion", TRUE, FALSE, FALSE))
    BY <1>TransportGroup, Zenon
  <2> QED BY <2>1, <1>Cascade, Zenon

<1>MoreThanTheLimit.
      ASSUME NEW code, NEW text, Silent(TransportRules(code, text)), Oversized(text)
      PROVE  classify_failure(code, text) = Verdict("payload_too_large", FALSE, FALSE, FALSE)
  <2> USE <1>MoreThanTheLimit
  <2>1. Decides(SizeRules(code, text), Verdict("payload_too_large", FALSE, FALSE, FALSE))
    BY <1>SizeGroup, Zenon
  <2> QED BY <2>1, <1>Cascade, Zenon

<1>TryAgainLater.
      ASSUME NEW code, NEW text, Silent(TransportRules(code, text)), ~Oversized(text),
             Throttled(code, text)
      PROVE  classify_failure(code, text) = Verdict("rate_limit", TRUE, TRUE, FALSE)
  <2> USE <1>TryAgainLater
  <2>1. Decides(SizeRules(code, text), Verdict("rate_limit", TRUE, TRUE, FALSE))
    BY <1>SizeGroup, Zenon
  <2> QED BY <2>1, <1>Cascade, Zenon

<1>TooLong.
      ASSUME NEW code, NEW text, Silent(TransportRules(code, text)), ~Oversized(text),
             ~Throttled(code, text), Overflows(code, text)
      PROVE  classify_failure(code, text) = Verdict("payload_too_large", FALSE, FALSE, FALSE)
  <2> USE <1>TooLong
  <2>1. Decides(SizeRules(code, text), Verdict("payload_too_large", FALSE, FALSE, FALSE))
    BY <1>SizeGroup, Zenon
  <2> QED BY <2>1, <1>Cascade, Zenon

<1>DailyAllowance.
      ASSUME NEW code, NEW text, Silent(TransportRules(code, text)), Silent(SizeRules(code, text)),
             "freePerDay" \in text
      PROVE  classify_failure(code, text) = Verdict("billing", FALSE, FALSE, FALSE)
  <2> USE <1>DailyAllowance
  <2>1. Decides(QuotaRules(code, text), Verdict("billing", FALSE, FALSE, FALSE))
    BY <1>QuotaGroup, Zenon
  <2> QED BY <2>1, <1>Cascade, Zenon

<1>TooManyRequests.
      ASSUME NEW code, NEW text, Silent(TransportRules(code, text)), Silent(SizeRules(code, text)),
             "freePerDay" \notin text, ~Unpaid(code, text), RateLimited(code, text)
      PROVE  classify_failure(code, text) = Verdict(RateReason(text), TRUE, TRUE, FALSE)
  <2> USE <1>TooManyRequests
  <2>1. Decides(QuotaRules(code, text), Verdict(RateReason(text), TRUE, TRUE, FALSE))
    BY <1>QuotaGroup, Zenon
  <2> QED BY <2>1, <1>Cascade, Zenon

<1>ModelGone.
      ASSUME NEW code, NEW text, Silent(TransportRules(code, text)), Silent(SizeRules(code, text)),
             Silent(QuotaRules(code, text)), NotThere(code, text)
      PROVE  classify_failure(code, text) = Verdict("model_not_found", FALSE, FALSE, TRUE)
  <2> USE <1>ModelGone
  <2>1. Decides(ModelRules(code, text), Verdict("model_not_found", FALSE, FALSE, TRUE))
    BY <1>ModelGroup, Zenon
  <2> QED BY <2>1, <1>Cascade, Zenon

<1>DoesNotSuit.
      ASSUME NEW code, NEW text, Silent(TransportRules(code, text)), Silent(SizeRules(code, text)),
             Silent(QuotaRules(code, text)), ~NotThere(code, text), "badTool" \notin text,
             Unsuited(code, text)
      PROVE  classify_failure(code, text) = Verdict("schema_incompatible", FALSE, FALSE, FALSE)
  <2> USE <1>DoesNotSuit
  <2>1. Decides(ModelRules(code, text), Verdict("schema_incompatible", FALSE, FALSE, FALSE))
    BY <1>ModelGroup, Zenon
  <2> QED BY <2>1, <1>Cascade, Zenon

<1>NoAccess.
      ASSUME NEW code, NEW text, Silent(TransportRules(code, text)), Silent(SizeRules(code, text)),
             Silent(QuotaRules(code, text)), Silent(ModelRules(code, text)), Denied(code, text)
      PROVE  classify_failure(code, text) = Verdict("auth", FALSE, FALSE, DeniedForGood(code, text))
  <2> USE <1>NoAccess
  <2>1. Decides(AccessRules(code, text), Verdict("auth", FALSE, FALSE, DeniedForGood(code, text)))
    BY <1>AccessGroup, Zenon
  <2> QED BY <2>1, <1>Cascade, Zenon

<1>ServerFault.
      ASSUME NEW code, NEW text, Silent(TransportRules(code, text)), Silent(SizeRules(code, text)),
             Silent(QuotaRules(code, text)), Silent(ModelRules(code, text)),
             Silent(AccessRules(code, text)), Unavailable(code, text)
      PROVE  classify_failure(code, text) = Verdict(FaultReason(code, text), TRUE, TRUE, FALSE)
  <2> USE <1>ServerFault
  <2>1. Decides(ProviderRules(code, text), Verdict(FaultReason(code, text), TRUE, TRUE, FALSE))
    BY <1>ProviderGroup, Zenon
  <2> QED BY <2>1, <1>Cascade, Zenon

<1>RequestFault.
      ASSUME NEW code, NEW text, Silent(TransportRules(code, text)), Silent(SizeRules(code, text)),
             Silent(QuotaRules(code, text)), Silent(ModelRules(code, text)),
             Silent(AccessRules(code, text)), ~Unavailable(code, text), "timeout" \notin text,
             ClientFault(code)
      PROVE  classify_failure(code, text) = Verdict("client_error", FALSE, FALSE, FALSE)
  <2> USE <1>RequestFault
  <2>1. Decides(ProviderRules(code, text), Verdict("client_error", FALSE, FALSE, FALSE))
    BY <1>ProviderGroup, Zenon
  <2> QED BY <2>1, <1>Cascade, Zenon
\* What the classifier makes of the refusals of each cause.

<1>SizeVerdict.
      ASSUME NEW r \in Refusals("tooLarge")
      PROVE  classify_failure(r.code, r.text) = Verdict("payload_too_large", FALSE, FALSE, FALSE)
  <2> USE <1>SizeVerdict
  <2>1. Silent(TransportRules(r.code, r.text))
    <3>1. Lacks(r.text, TransportMarks)
      BY DEF Refusals, Refusal, TransportMarks, Lacks
    <3> QED BY <3>1, <1>TransportSilent
  <2>2. CASE Oversized(r.text)
    BY <2>1, <2>2, <1>MoreThanTheLimit, Zenon
  <2>3. CASE ~Oversized(r.text)
    <3>1. ~Throttled(r.code, r.text) /\ Overflows(r.code, r.text)
      BY <2>3 DEF Refusals, Refusal, Oversized, OversizedTpm, Throttled, Overflows, Finds
    <3> QED BY <2>1, <2>3, <3>1, <1>TooLong, Zenon
  <2> QED BY <2>2, <2>3, Zenon

<1>CapVerdict.
      ASSUME NEW r \in Refusals("outputCap")
      PROVE  classify_failure(r.code, r.text) = Verdict("output_cap_exceeded", TRUE, FALSE, FALSE)
  <2> USE <1>CapVerdict
  <2>1. "ssl" \notin r.text /\ "refused" \notin r.text /\ OverOutput(r.code, r.text)
    BY DEF Refusals, Refusal, OverOutput
  <2> QED BY <2>1, <1>OverTheCap, Zenon

<1>RateVerdict.
      ASSUME NEW r \in Refusals("rate")
      PROVE  \E reason : classify_failure(r.code, r.text) = Verdict(reason, TRUE, TRUE, FALSE)
  <2> USE <1>RateVerdict
  <2>1. Silent(TransportRules(r.code, r.text))
    <3>1. Lacks(r.text, TransportMarks)
      BY DEF Refusals, Refusal, TransportMarks, Lacks
    <3> QED BY <3>1, <1>TransportSilent
  <2>2. CASE "tryAgain" \in r.text
    <3>1. ~Oversized(r.text) /\ Throttled(r.code, r.text)
      BY <2>2 DEF Refusals, Refusal, Oversized, OversizedTpm, Throttled, Finds
    <3>2. classify_failure(r.code, r.text) = Verdict("rate_limit", TRUE, TRUE, FALSE)
      BY <2>1, <3>1, <1>TryAgainLater, Zenon
    <3> QED BY <3>2, Zenon
  <2>3. CASE "tryAgain" \notin r.text
    <3>1. Lacks(r.text, SizeMarks) /\ ~Status(r.code, {413})
      BY <2>3 DEF Refusals, Refusal, SizeMarks, Lacks, Status
    <3>2. "freePerDay" \notin r.text /\ ~Unpaid(r.code, r.text) /\ RateLimited(r.code, r.text)
      BY <2>3 DEF Refusals, Refusal, Unpaid, RateLimited
    <3>3. Silent(SizeRules(r.code, r.text))
      BY <3>1, <1>SizeSilent
    <3>4. classify_failure(r.code, r.text) = Verdict(RateReason(r.text), TRUE, TRUE, FALSE)
      BY <2>1, <3>2, <3>3, <1>TooManyRequests, Zenon
    <3> QED BY <3>4, Zenon
  <2> QED BY <2>2, <2>3, Zenon

<1>DailyVerdict.
      ASSUME NEW r \in Refusals("daily")
      PROVE  classify_failure(r.code, r.text) = Verdict("billing", FALSE, FALSE, FALSE)
  <2> USE <1>DailyVerdict
  <2>1. Lacks(r.text, TransportMarks) /\ Lacks(r.text, SizeMarks) /\ ~Status(r.code, {413})
    BY DEF Refusals, Refusal, TransportMarks, SizeMarks, Lacks, Status
  <2>2. Silent(TransportRules(r.code, r.text)) /\ Silent(SizeRules(r.code, r.text))
    BY <2>1, <1>TransportSilent, <1>SizeSilent
  <2>3. "freePerDay" \in r.text
    BY DEF Refusals, Refusal
  <2> QED BY <2>2, <2>3, <1>DailyAllowance, Zenon

<1>ThreeSilent.
      ASSUME NEW r, Unexplained(r)
      PROVE  /\ Silent(TransportRules(r.code, r.text))
             /\ Silent(SizeRules(r.code, r.text))
             /\ Silent(QuotaRules(r.code, r.text))
  BY <1>ThreeSilent, <1>TransportSilent, <1>SizeSilent, <1>QuotaSilent DEF Unexplained

<1>GoneVerdict.
      ASSUME NEW r \in Refusals("gone")
      PROVE  classify_failure(r.code, r.text) = Verdict("model_not_found", FALSE, FALSE, TRUE)
  <2> USE <1>GoneVerdict
  <2>1. Unexplained(r)
    BY DEF Refusals, Refusal, TransportMarks, SizeMarks, QuotaMarks, Lacks, Status, Unexplained
  <2>2. NotThere(r.code, r.text)
    BY DEF Refusals, Refusal, NotThere
  <2>3. Silent(TransportRules(r.code, r.text)) /\ Silent(SizeRules(r.code, r.text))
          /\ Silent(QuotaRules(r.code, r.text))
    BY <2>1, <1>ThreeSilent
  <2> QED BY <2>2, <2>3, <1>ModelGone, Zenon

<1>CredentialsVerdict.
      ASSUME NEW r \in Refusals("credentials")
      PROVE  \E forGood : classify_failure(r.code, r.text) = Verdict("auth", FALSE, FALSE, forGood)
  <2> USE <1>CredentialsVerdict
  <2>1. Unexplained(r)
    BY DEF Refusals, Refusal, TransportMarks, SizeMarks, QuotaMarks, Lacks, Status, Unexplained
  <2>2. Lacks(r.text, ModelMarks) /\ ~Status(r.code, {404, 410}) /\ Denied(r.code, r.text)
    BY DEF Refusals, Refusal, ModelMarks, Lacks, Status, Denied, Finds
  <2>3. Silent(TransportRules(r.code, r.text)) /\ Silent(SizeRules(r.code, r.text))
          /\ Silent(QuotaRules(r.code, r.text)) /\ Silent(ModelRules(r.code, r.text))
    BY <2>1, <2>2, <1>ThreeSilent, <1>ModelSilent
  <2>4. classify_failure(r.code, r.text) = Verdict("auth", FALSE, FALSE, DeniedForGood(r.code, r.text))
    BY <2>2, <2>3, <1>NoAccess, ZenonT(30)
  <2> QED BY <2>4, Zenon

<1>BadRequestVerdict.
      ASSUME NEW r \in Refusals("badRequest")
      PROVE  \E reason : classify_failure(r.code, r.text) = Verdict(reason, FALSE, FALSE, FALSE)
  <2> USE <1>BadRequestVerdict
  <2>1. Unexplained(r)
    BY DEF Refusals, Refusal, TransportMarks, SizeMarks, QuotaMarks, Lacks, Status, Unexplained
  <2>2. Silent(TransportRules(r.code, r.text)) /\ Silent(SizeRules(r.code, r.text))
          /\ Silent(QuotaRules(r.code, r.text))
    BY <2>1, <1>ThreeSilent
  <2>3. CASE "schema" \in r.text
    <3>1. ~NotThere(r.code, r.text) /\ "badTool" \notin r.text /\ Unsuited(r.code, r.text)
      BY <2>3 DEF Refusals, Refusal, NotThere, Unsuited
    <3>2. classify_failure(r.code, r.text) = Verdict("schema_incompatible", FALSE, FALSE, FALSE)
      BY <2>2, <3>1, <1>DoesNotSuit, Zenon
    <3> QED BY <3>2, Zenon
  <2>4. CASE "schema" \notin r.text
    <3>1. Lacks(r.text, ModelMarks) /\ ~Status(r.code, {404, 410})
      BY <2>4 DEF Refusals, Refusal, ModelMarks, Lacks, Status
    <3>2. Silent(ModelRules(r.code, r.text))
      BY <3>1, <1>ModelSilent
    <3>3. CASE "badSyntax" \in r.text
      <4>1. Denied(r.code, r.text) /\ DeniedForGood(r.code, r.text) = FALSE
        BY <3>3 DEF Refusals, Refusal, Denied, DeniedForGood, Finds
      <4>2. classify_failure(r.code, r.text)
              = Verdict("auth", FALSE, FALSE, DeniedForGood(r.code, r.text))
        BY <2>2, <3>2, <4>1, <1>NoAccess, Zenon
      <4> QED BY <4>1, <4>2, Zenon
    <3>4. CASE "badSyntax" \notin r.text
      <4>1. ~Unavailable(r.code, r.text) /\ "timeout" \notin r.text /\ ClientFault(r.code)
        BY <2>4, <3>4 DEF Refusals, Refusal, Unavailable, ClientFault
      <4>2. Lacks(r.text, AccessMarks) /\ ~Status(r.code, {401, 403})
        BY <2>4, <3>4 DEF Refusals, Refusal, AccessMarks, Lacks, Status
      <4>3. Silent(AccessRules(r.code, r.text))
        BY <4>2, <1>AccessSilent
      <4>4. classify_failure(r.code, r.text) = Verdict("client_error", FALSE, FALSE, FALSE)
        BY <2>2, <3>2, <4>1, <4>3, <1>RequestFault, Zenon
      <4> QED BY <4>4, Zenon
    <3> QED BY <3>3, <3>4, Zenon
  <2> QED BY <2>3, <2>4, Zenon

\* A fault of the provider that has no other mark than that it is one.
<1>FaultVerdict.
      ASSUME NEW r, Unexplained(r), Lacks(r.text, ModelMarks), Lacks(r.text, AccessMarks),
             ~Status(r.code, {404, 410}), ~Status(r.code, {401, 403}), Unavailable(r.code, r.text)
      PROVE  classify_failure(r.code, r.text) = Verdict(FaultReason(r.code, r.text), TRUE, TRUE, FALSE)
  <2> USE <1>FaultVerdict
  <2>1. Silent(TransportRules(r.code, r.text)) /\ Silent(SizeRules(r.code, r.text))
          /\ Silent(QuotaRules(r.code, r.text))
    BY <1>ThreeSilent
  <2>2. Silent(ModelRules(r.code, r.text)) /\ Silent(AccessRules(r.code, r.text))
    BY <1>ModelSilent, <1>AccessSilent
  <2> QED BY <2>1, <2>2, <1>ServerFault, ZenonT(30)

<1>OutageVerdict.
      ASSUME NEW r \in Refusals("outage")
      PROVE  \E reason, again :
                 classify_failure(r.code, r.text) = Verdict(reason, again, TRUE, FALSE)
  <2> USE <1>OutageVerdict
  <2>1. CASE "ssl" \in r.text
    BY <2>1, <1>BadCertificate, Zenon
  <2>2. CASE "ssl" \notin r.text /\ "refused" \in r.text
    BY <2>2, <1>ConnectionRefused, Zenon
  <2>3. CASE "ssl" \notin r.text /\ "refused" \notin r.text
    <3>1. Unexplained(r)
      BY <2>3 DEF Refusals, Refusal, TransportMarks, SizeMarks, QuotaMarks, Lacks, Status, Unexplained
    <3>2. /\ Lacks(r.text, ModelMarks) /\ Lacks(r.text, AccessMarks)
          /\ ~Status(r.code, {404, 410}) /\ ~Status(r.code, {401, 403})
      BY <2>3 DEF Refusals, Refusal, ModelMarks, AccessMarks, Lacks, Status
    <3>3. Unavailable(r.code, r.text)
      BY <2>3 DEF Refusals, Refusal, Unavailable
    <3>4. classify_failure(r.code, r.text) = Verdict(FaultReason(r.code, r.text), TRUE, TRUE, FALSE)
      BY <3>1, <3>2, <3>3, <1>FaultVerdict, ZenonT(30)
    <3> QED BY <3>4, Zenon
  <2> QED BY <2>1, <2>2, <2>3, Zenon

\* An answer that is no answer: an empty body, and one that is not JSON.
<1>GarbledVerdicts.
      /\ classify_failure(502, {"empty"}) = Verdict("empty_completion", TRUE, FALSE, FALSE)
      /\ \E reason : classify_failure(502, {}) = Verdict(reason, TRUE, TRUE, FALSE)
  <2>1. classify_failure(502, {"empty"}) = Verdict("empty_completion", TRUE, FALSE, FALSE)
    <3>1. "ssl" \notin {"empty"} /\ "refused" \notin {"empty"} /\ ~OverOutput(502, {"empty"})
      BY DEF OverOutput
    <3> QED BY <3>1, <1>SaidNothing, ZenonT(30)
  <2> DEFINE r == Refusal(502, {})
  <2>2. Unexplained(r) /\ r.code = 502 /\ r.text = {}
    BY DEF Refusal, TransportMarks, SizeMarks, QuotaMarks, Lacks, Status, Unexplained
  <2>3. /\ Lacks(r.text, ModelMarks) /\ Lacks(r.text, AccessMarks)
        /\ ~Status(r.code, {404, 410}) /\ ~Status(r.code, {401, 403}) /\ Unavailable(r.code, r.text)
    BY <2>2 DEF ModelMarks, AccessMarks, Lacks, Status, Unavailable
  <2> HIDE DEF r
  <2>4. classify_failure(r.code, r.text) = Verdict(FaultReason(r.code, r.text), TRUE, TRUE, FALSE)
    BY <2>2, <2>3, <1>FaultVerdict, ZenonT(30)
  <2> QED BY <2>1, <2>2, <2>4, ZenonT(30)
<1> QED BY <1>SizeVerdict, <1>CapVerdict, <1>RateVerdict, <1>DailyVerdict, <1>GoneVerdict,
           <1>CredentialsVerdict, <1>BadRequestVerdict, <1>OutageVerdict, <1>GarbledVerdicts, Zenon, ZenonT(30)

-----------------------------------------------------------------------------
(* The validator: repaired arguments conform                               *)

\* An object whose members are values, down to the members of its members.
Typed(o) ==
    \A k \in DOMAIN o : IsValue(o[k]) /\ \A j \in DOMAIN o[k].members : IsValue(o[k].members[j])

LEMMA NothingReadsAsObject ==
    ASSUME NEW type \in {"object", "array"}, NEW value, HasType(type, value)
    PROVE  value.type \in Accepts(type)
BY DEF HasType, Coercible, Takes

LEMMA RepairedValue ==
    ASSUME NEW type, NEW value, IsValue(value), HasType(type, value)
    PROVE  Repaired(type, value).type \in Accepts(type)
<1>1. CASE value.type \in Accepts(type)
  BY <1>1 DEF Repaired
<1>2. CASE value.type \notin Accepts(type)
  <2>1. type \in {"integer", "number", "boolean", "string"}
    BY <1>2 DEF HasType, Coercible, Takes
  <2>2. type \in Accepts(type)
    BY <2>1 DEF Accepts
  <2> DEFINE r == [value EXCEPT !.type = type, !.text = Converted(type, value)]
  <2>3. r = Repaired(type, value)
    BY <1>2 DEF Repaired
  <2>4. r.type = type
    BY DEF IsValue
  <2> HIDE DEF r
  <2> QED BY <2>2, <2>3, <2>4
<1> QED BY <1>1, <1>2

LEMMA RepairedBelowConforms ==
    ASSUME NEW object, NEW schema, ValidBelow(object, schema),
           \A k \in DOMAIN object : IsValue(object[k])
    PROVE  ConformsBelow(RepairedBelow(object, schema), schema)
<1> DEFINE fixed == RepairedBelow(object, schema)
<1>1. /\ DOMAIN fixed = DOMAIN object
      /\ \A k \in DOMAIN object : k \in DOMAIN schema.properties =>
            fixed[k] = Repaired(schema.properties[k], object[k])
  BY DEF RepairedBelow, Present
<1> HIDE DEF fixed
<1>2. ASSUME NEW k \in DOMAIN fixed, k \in DOMAIN schema.properties
      PROVE  fixed[k].type \in Accepts(schema.properties[k])
  <2>1. IsValue(object[k]) /\ fixed[k] = Repaired(schema.properties[k], object[k])
    BY <1>1, <1>2
  <2>2. HasType(schema.properties[k], object[k])
    BY <1>1, <1>2 DEF ValidBelow, Present
  <2> QED BY <2>1, <2>2, RepairedValue
<1>3. Complete(object, schema)
  BY DEF ValidBelow
<1>4. ConformsBelow(fixed, schema)
  BY <1>1, <1>2, <1>3 DEF ConformsBelow, Complete
<1> QED BY <1>4 DEF fixed

LEMMA RepairConforms ==
    ASSUME NEW object, NEW schema, Valid(object, schema), Typed(object)
    PROVE  /\ Conforms(RepairedArguments(object, schema), schema)
           /\ DOMAIN RepairedArguments(object, schema) = DOMAIN object
           /\ \A k \in DOMAIN object :
                \/ RepairedArguments(object, schema)[k] = object[k]
                \/ /\ k \in DOMAIN schema.properties
                   /\ \/ object[k].type \notin Accepts(schema.properties[k])
                      \/ schema.properties[k] \in {"object", "array"}
<1> DEFINE fixed == RepairedArguments(object, schema)
           Nested(k) == schema.properties[k] \in {"object", "array"}
           Deep(k) == LooksInto(schema.properties[k], schema)
<1>1. /\ DOMAIN fixed = DOMAIN object
      /\ \A k \in DOMAIN object :
            /\ k \notin DOMAIN schema.properties => fixed[k] = object[k]
            /\ k \in DOMAIN schema.properties /\ ~Nested(k) =>
                    fixed[k] = Repaired(schema.properties[k], object[k])
            /\ k \in DOMAIN schema.properties /\ Nested(k) /\ ~Deep(k) => fixed[k] = object[k]
            /\ k \in DOMAIN schema.properties /\ Nested(k) /\ Deep(k) =>
                    fixed[k] = [object[k] EXCEPT !.members =
                                    RepairedBelow(object[k].members, schema.below)]
  BY DEF RepairedArguments, Present
<1>2. Complete(object, schema)
  BY DEF Valid
<1>3. ASSUME NEW k \in DOMAIN object, k \in DOMAIN schema.properties
      PROVE  /\ HasType(schema.properties[k], object[k])
             /\ Deep(k) => ValidBelow(object[k].members, schema.below)
  <2>1. k \in Present(object, schema)
    BY <1>3 DEF Present
  <2> QED BY <2>1 DEF Valid
<1>4. \A k : Deep(k) => Nested(k)
  BY DEF LooksInto
<1> HIDE DEF fixed, Deep
<1>5. ASSUME NEW k \in DOMAIN object, k \in DOMAIN schema.properties, Nested(k), Deep(k)
      PROVE  /\ fixed[k].type \in Accepts(schema.properties[k])
             /\ ConformsBelow(fixed[k].members, schema.below)
  <2> DEFINE below == RepairedBelow(object[k].members, schema.below)
  <2>1. IsValue(object[k]) /\ \A j \in DOMAIN object[k].members : IsValue(object[k].members[j])
    BY DEF Typed
  <2>2. fixed[k] = [object[k] EXCEPT !.members = below]
    BY <1>1, <1>5, SMTT(20)
  <2>3. ConformsBelow(below, schema.below)
    BY <1>3, <1>5, <2>1, RepairedBelowConforms
  <2> HIDE DEF below
  <2>4. fixed[k].type = object[k].type /\ fixed[k].members = below
    BY <2>1, <2>2 DEF IsValue
  <2>5. object[k].type \in Accepts(schema.properties[k])
    BY <1>3, <1>5, NothingReadsAsObject
  <2> QED BY <2>3, <2>4, <2>5
<1>6. ASSUME NEW k \in DOMAIN object, k \in DOMAIN schema.properties, Nested(k), ~Deep(k)
      PROVE  fixed[k].type \in Accepts(schema.properties[k])
  BY <1>1, <1>3, <1>6, NothingReadsAsObject
<1>7. ASSUME NEW k \in DOMAIN object, k \in DOMAIN schema.properties, ~Nested(k)
      PROVE  fixed[k].type \in Accepts(schema.properties[k])
  <2>1. fixed[k] = Repaired(schema.properties[k], object[k]) /\ IsValue(object[k])
    BY <1>1, <1>7 DEF Typed
  <2> QED BY <1>3, <1>7, <2>1, RepairedValue
<1>8. ConformsBelow(fixed, schema)
  BY <1>1, <1>2, <1>5, <1>6, <1>7 DEF ConformsBelow, Complete
<1>9. Conforms(fixed, schema)
  BY <1>1, <1>4, <1>5, <1>8, ZenonT(30) DEF Conforms, Deep
<1>10. ASSUME NEW k \in DOMAIN object
       PROVE  \/ fixed[k] = object[k]
              \/ /\ k \in DOMAIN schema.properties
                 /\ object[k].type \notin Accepts(schema.properties[k]) \/ Nested(k)
  BY <1>1, <1>10, ZenonT(30) DEF Repaired
<1> QED BY <1>1, <1>9, <1>10 DEF fixed

LEMMA TextTrimmed ==
    ASSUME NEW v, IsValue(v)
    PROVE  /\ IsValue(TrimmedText(v))
           /\ TrimmedText(v).type = v.type /\ TrimmedText(v).members = v.members
<1>1. CASE v.text = "code"
  <2>1. TrimmedText(v) = [type |-> v.type, text |-> "trimmed", members |-> v.members]
    BY <1>1 DEF TrimmedText, IsValue
  <2> QED BY <2>1 DEF IsValue
<1>2. CASE v.text # "code"
  BY <1>2 DEF TrimmedText
<1> QED BY <1>1, <1>2

LEMMA MembersReplaced ==
    ASSUME NEW v, IsValue(v), NEW m
    PROVE  LET w == [TrimmedText(v) EXCEPT !.members = m] IN
           IsValue(w) /\ w.type = v.type /\ w.members = m
<1> DEFINE t == TrimmedText(v)
<1>1. IsValue(t) /\ t.type = v.type
  BY TextTrimmed
<1> HIDE DEF t
<1> DEFINE w == [t EXCEPT !.members = m]
<1>2. w = [type |-> t.type, text |-> t.text, members |-> m]
  BY <1>1 DEF IsValue
<1>3. IsValue(w) /\ w.type = v.type /\ w.members = m
  BY <1>1, <1>2 DEF IsValue
<1> QED BY <1>3 DEF t

LEMMA InsideTrimmed ==
    ASSUME NEW o, Typed(o)
    PROVE  /\ Typed(TrimmedInside(o))
           /\ DOMAIN TrimmedInside(o) = DOMAIN o
           /\ \A k \in DOMAIN o : TrimmedInside(o)[k].type = o[k].type
<1> DEFINE inside == TrimmedInside(o)
<1>1. /\ DOMAIN inside = DOMAIN o
      /\ \A k \in DOMAIN o :
            inside[k] = [TrimmedText(o[k]) EXCEPT !.members = TrimmedBelow(TrimmedText(o[k]).members)]
  BY DEF TrimmedInside
<1> HIDE DEF inside
<1>2. ASSUME NEW k \in DOMAIN o
      PROVE  /\ IsValue(inside[k]) /\ inside[k].type = o[k].type
             /\ \A j \in DOMAIN inside[k].members : IsValue(inside[k].members[j])
  <2> DEFINE m == TrimmedBelow(TrimmedText(o[k]).members)
  <2>1. IsValue(o[k]) /\ \A j \in DOMAIN o[k].members : IsValue(o[k].members[j])
    BY DEF Typed
  <2>2. TrimmedText(o[k]).members = o[k].members
    BY <2>1, TextTrimmed
  <2>3. /\ DOMAIN m = DOMAIN o[k].members
        /\ \A j \in DOMAIN o[k].members : m[j] = TrimmedText(o[k].members[j])
    BY <2>2 DEF TrimmedBelow
  <2>4. inside[k] = [TrimmedText(o[k]) EXCEPT !.members = m]
    BY <1>1
  <2> HIDE DEF m
  <2>5. IsValue(inside[k]) /\ inside[k].type = o[k].type /\ inside[k].members = m
    BY <2>1, <2>4, MembersReplaced
  <2>6. \A j \in DOMAIN m : IsValue(m[j])
    BY <2>1, <2>3, TextTrimmed
  <2> QED BY <2>5, <2>6
<1>3. Typed(inside)
  BY <1>1, <1>2 DEF Typed
<1> QED BY <1>1, <1>2, <1>3 DEF inside

LEMMA ObjectIsTyped ==
    ASSUME NEW o, IsObject(o)
    PROVE  Typed(o) /\ \A k \in DOMAIN o : Typed(o[k].members)
<1>1. ASSUME NEW k \in DOMAIN o
      PROVE  /\ IsValue(o[k])
             /\ \A j \in DOMAIN o[k].members :
                    /\ IsValue(o[k].members[j])
                    /\ \A i \in DOMAIN o[k].members[j].members : IsValue(o[k].members[j].members[i])
  BY DEF IsObject, Members
<1> QED BY <1>1 DEF Typed

\* Removing trailing commas does not change what is an envelope.
LEMMA TrimmedObject ==
    ASSUME NEW o, NEW schema, IsObject(o)
    PROVE  /\ Typed(Unwrapped(Trimmed(o), schema))
           /\ DOMAIN Unwrapped(Trimmed(o), schema) = DOMAIN Unwrapped(o, schema)
<1> DEFINE trimmed == Trimmed(o)
<1>1. /\ DOMAIN trimmed = DOMAIN o
      /\ \A k \in DOMAIN o :
            trimmed[k] = [TrimmedText(o[k]) EXCEPT !.members = TrimmedInside(TrimmedText(o[k]).members)]
  BY DEF Trimmed
<1> HIDE DEF trimmed
<1>2. Typed(o) /\ \A k \in DOMAIN o : Typed(o[k].members)
  BY ObjectIsTyped
<1>3. ASSUME NEW k \in DOMAIN o
      PROVE  /\ IsValue(trimmed[k]) /\ trimmed[k].type = o[k].type
             /\ Typed(trimmed[k].members) /\ DOMAIN trimmed[k].members = DOMAIN o[k].members
  <2> DEFINE m == TrimmedInside(TrimmedText(o[k]).members)
  <2>1. IsValue(o[k]) /\ TrimmedText(o[k]).members = o[k].members
    BY <1>2, TextTrimmed DEF Typed
  <2>2. Typed(m) /\ DOMAIN m = DOMAIN o[k].members
    BY <1>2, <2>1, InsideTrimmed
  <2>3. trimmed[k] = [TrimmedText(o[k]) EXCEPT !.members = m]
    BY <1>1
  <2> HIDE DEF m
  <2>4. IsValue(trimmed[k]) /\ trimmed[k].type = o[k].type /\ trimmed[k].members = m
    BY <2>1, <2>3, MembersReplaced
  <2> QED BY <2>2, <2>4
<1>4. Wrapper(trimmed, schema) = Wrapper(o, schema) /\ Wrapper(o, schema) \subseteq DOMAIN o
  BY <1>1, <1>3 DEF Wrapper
<1>5. CASE Wrapper(o, schema) = {}
  <2>1. Unwrapped(trimmed, schema) = trimmed /\ Unwrapped(o, schema) = o
    BY <1>4, <1>5 DEF Unwrapped
  <2>2. Typed(trimmed)
    BY <1>1, <1>3 DEF Typed
  <2> QED BY <1>1, <2>1, <2>2 DEF trimmed
<1>6. CASE Wrapper(o, schema) # {}
  <2> DEFINE w == CHOOSE k \in Wrapper(o, schema) : TRUE
  <2>1. w \in Wrapper(o, schema)
    BY <1>6
  <2>2. Unwrapped(trimmed, schema) = trimmed[w].members /\ Unwrapped(o, schema) = o[w].members
    BY <1>4, <1>6 DEF Unwrapped
  <2> HIDE DEF w
  <2>3. w \in DOMAIN o
    BY <1>4, <2>1
  <2> QED BY <1>3, <2>2, <2>3 DEF trimmed
<1> QED BY <1>5, <1>6

LEMMA UnwrappedIsTyped ==
    ASSUME NEW o, NEW schema, IsObject(o)
    PROVE  Typed(Unwrapped(o, schema))
<1>1. Typed(o) /\ \A k \in DOMAIN o : Typed(o[k].members)
  BY ObjectIsTyped
<1>2. CASE Wrapper(o, schema) = {}
  BY <1>1, <1>2 DEF Unwrapped
<1>3. CASE Wrapper(o, schema) # {}
  <2> DEFINE w == CHOOSE k \in Wrapper(o, schema) : TRUE
  <2>1. w \in Wrapper(o, schema)
    BY <1>3
  <2>2. Unwrapped(o, schema) = o[w].members
    BY <1>3 DEF Unwrapped
  <2> HIDE DEF w
  <2>3. w \in DOMAIN o
    BY <2>1 DEF Wrapper
  <2> QED BY <1>1, <2>2, <2>3
<1> QED BY <1>2, <1>3

\* What is parsed, once it is out of its envelope.
LEMMA ParsedObject ==
    ASSUME NEW source, NEW schema, IsObject(source.object)
    PROVE  LET object == Unwrapped(Parsed(source), schema)
               own == Unwrapped(source.object, schema)
           IN  /\ Typed(object)
               /\ DOMAIN object \subseteq DOMAIN own
               /\ source.form \in {"json", "loose"} => object = own
<1>1. CASE source.form = "nothing"
  <2>1. Parsed(source) = <<>>
    BY <1>1 DEF Parsed, NoMembers, Mended
  <2>2. DOMAIN Parsed(source) = {}
    BY <2>1
  <2>3. Wrapper(Parsed(source), schema) = {}
    BY <2>2 DEF Wrapper
  <2>4. Unwrapped(Parsed(source), schema) = Parsed(source)
    BY <2>3 DEF Unwrapped
  <2>5. Typed(Parsed(source))
    BY <2>2 DEF Typed
  <2> QED BY <1>1, <2>2, <2>4, <2>5
<1>2. CASE source.form \notin {"nothing"} \cup Mended
  <2>1. Parsed(source) = source.object
    BY <1>2 DEF Parsed
  <2> QED BY <2>1, UnwrappedIsTyped
<1>3. CASE source.form \in Mended
  <2>1. Parsed(source) = Trimmed(source.object) /\ source.form \notin {"json", "loose"}
    BY <1>3 DEF Parsed, Mended
  <2> QED BY <2>1, TrimmedObject
<1> QED BY <1>1, <1>2, <1>3

-----------------------------------------------------------------------------
(* Pruning returns one of its stages, whichever fits first                 *)

Few(p) == Shorten(p, 1 .. Len(p.messages), {"tool", "user"}, 2000, 1500)
Recent(p) == Larger(Kept(p) + 1, Len(p.messages) - 1)
Older(p) == Shorten(p, (Kept(p) + 1) .. (Recent(p) - 1), {"tool"}, 400, 300)
Results(p) == Shorten(Older(p), Recent(p) .. Len(p.messages), {"tool"}, 1200, 800)
Six(p, target) == Shed(Results(p), 6, target)
Four(p, target) == Shed(Six(p, target), 4, target)
Two(p, target) == Shed(Four(p, target), 2, target)
Terse(p, q) == Shorten(q, (Kept(p) + 1) .. (Len(q.messages) - 1), {"assistant"}, 400, 300)

LEMMA FirstFittingIsStage ==
    ASSUME NEW S, NEW stages, stages \in Seq(S), Len(stages) # 0, NEW target
    PROVE  FirstFitting(stages, target) \in S
<1> DEFINE fits(i) == PayloadTokens(stages[i]) <= target
           T == {i \in DOMAIN stages : i = Len(stages) \/ fits(i)}
<1> HIDE DEF fits
<1>1. T \subseteq Nat /\ T # {}
  OBVIOUS
<1>2. T \subseteq DOMAIN stages
  OBVIOUS
<1>3. FirstFitting(stages, target) = stages[Min(T)]
  BY Zenon DEF FirstFitting, fits
<1> HIDE DEF T
<1>4. Min(T) \in DOMAIN stages
  BY <1>1, <1>2, MinIsLeast, Zenon
<1>5. \A i \in DOMAIN stages : stages[i] \in S
  OBVIOUS
<1> QED BY <1>3, <1>4, <1>5, Zenon

LEMMA PruneStages ==
    ASSUME NEW p, NEW context, NEW margin
    PROVE  \E target : prune_openai_request(p, context, margin) \in
                {p, Few(p), Results(p), Six(p, target), Two(p, target), Terse(p, Two(p, target))}
<1> DEFINE target == Larger(512, context - margin)
           results == Results(p)
           six == Six(p, target)
           two == Two(p, target)
           terse == Terse(p, two)
           S == {p, Few(p), results, six, two, terse}
           fits == PayloadTokens(p) <= target
           short == Len(p.messages) <= 2
<1>1. prune_openai_request(p, context, margin) =
            IF fits THEN p
            ELSE IF short THEN Few(p) ELSE FirstFitting(<<results, six, two, terse>>, target)
  BY ZenonT(30) DEF prune_openai_request, Few, Recent, Older, Results, Six, Four, Two, Terse
<1> HIDE DEF target, results, six, two, terse, fits, short
<1>2. <<results, six, two, terse>> \in Seq(S) /\ Len(<<results, six, two, terse>>) # 0
  OBVIOUS
<1>3. FirstFitting(<<results, six, two, terse>>, target) \in S
  BY <1>2, FirstFittingIsStage, Zenon
<1>4. prune_openai_request(p, context, margin) \in S
  BY <1>1, <1>3, Zenon
<1> QED BY <1>4, ZenonT(30) DEF results, six, two, terse

LEMMA GroqStages ==
    ASSUME NEW p, NEW most
    PROVE  LET condensed == CutSystem(CompactTools(p))
               kept == prune_openai_request(CompactResults(condensed), most, 150)
           IN  prune_for_groq_tpm(p, most) \in
                {p, CompactTools(p), condensed, CompactResults(condensed), kept,
                 Shed(CompactHarder(kept), 2, most)}
<1> DEFINE described == CompactTools(p)
           condensed == CutSystem(described)
           told == CompactResults(condensed)
           kept == prune_openai_request(told, most, 150)
           least == Shed(CompactHarder(kept), 2, most)
           stages == <<p, described, condensed, told, kept, least>>
           S == {p, described, condensed, told, kept, least}
<1>1. prune_for_groq_tpm(p, most) = FirstFitting(stages, most)
  BY ZenonT(30) DEF prune_for_groq_tpm
<1> HIDE DEF described, condensed, told, kept, least
<1>2. stages \in Seq(S) /\ Len(stages) # 0
  OBVIOUS
<1> HIDE DEF stages
<1>3. prune_for_groq_tpm(p, most) \in S
  BY <1>1, <1>2, FirstFittingIsStage, Zenon
<1> QED BY <1>3, Zenon DEF described, condensed, told, kept, least

-----------------------------------------------------------------------------
(* Sizes: what compaction leaves is a request with sizes of its own        *)

MessageT == [id : Nat, role : {"system", "user", "assistant", "tool"}, content : Nat,
             result : Nat, fixed : Nat, shape : Shapes]
RequestT == [system : Nat, tools : Nat, prose : Nat, out : Nat, messages : Seq(MessageT)]

\* The messages that are said as one: a user message is a text or a tool result.
SpeakT == {m \in MessageT : m.role = "user" => (m.content = 0 <=> m.result # 0)}

LEMMA MessageSpeaks ==
    ASSUME NEW id, id \in Nat, NEW role, role \in {"system", "user", "assistant", "tool"},
           NEW content, content \in Nat, NEW result, result \in Nat, NEW fixed, fixed \in Nat,
           NEW shape, shape \in Shapes, role = "user" => (content = 0 <=> result # 0)
    PROVE  /\ Message(id, role, content, result, fixed, shape) \in SpeakT
           /\ Message(id, role, content, result, fixed, shape).id = id
           /\ Message(id, role, content, result, fixed, shape).role = role
BY DEF Message, MessageT, SpeakT

\* The number of characters up to message i, from those before it.
Summed(s, f, i) == IF i = 0 THEN 0 ELSE f[i - 1] + SizeOf(s[i])
Sums(s, n, f) == f = [i \in 0 .. n |-> Summed(s, f, i)]

LEMMA SumsAt ==
    ASSUME NEW s, NEW n, NEW f, Sums(s, n, f), NEW i, i \in 0 .. n
    PROVE  f[i] = Summed(s, f, i)
<1> DEFINE F(g) == [j \in 0 .. n |-> Summed(s, g, j)]
<1>1. f = F(f)
  BY Zenon DEF Sums
<1>2. F(f)[i] = Summed(s, f, i)
  OBVIOUS
<1> HIDE DEF F
<1> QED BY <1>1, <1>2

\* The function of the sums exists: it is extended one message at a time.
LEMMA SumsExist ==
    ASSUME NEW s, NEW n \in Nat
    PROVE  \E f : Sums(s, n, f)
<1> DEFINE B == {k \in Nat : ~ \E f : Sums(s, k, f)}
<1>1. SUFFICES ASSUME B # {} PROVE FALSE
  OBVIOUS
<1>2. PICK k \in B : \A m \in B : k <= m
  <2>1. B \in SUBSET Nat
    OBVIOUS
  <2> HIDE DEF B
  <2> QED BY <1>1, <2>1, NatMin
<1>3. CASE k = 0
  <2> DEFINE f == [i \in 0 .. 0 |-> 0]
  <2>1. Sums(s, 0, f)
    BY DEF Sums, Summed
  <2> QED BY <1>3, <2>1
<1>4. CASE k # 0
  <2>1. k - 1 \in Nat /\ ~(k <= k - 1) /\ k \in Nat
    BY <1>4
  <2>2. PICK f : Sums(s, k - 1, f)
    BY <1>2, <2>1
  <2> DEFINE g == [i \in 0 .. k |-> Summed(s, f, i)]
  <2>3. ASSUME NEW i \in 0 .. k - 1 PROVE f[i] = Summed(s, f, i)
    BY ONLY <2>2, SumsAt, i \in 0 .. k - 1
  <2>4. \A i \in 0 .. k - 1 : g[i] = f[i]
    BY <2>1, <2>3
  <2>5. \A i \in 0 .. k : i # 0 => i - 1 \in 0 .. k - 1
    BY <2>1
  <2>6. \A i \in 0 .. k : Summed(s, f, i) = Summed(s, g, i)
    BY <2>4, <2>5 DEF Summed
  <2>7. g = [i \in 0 .. k |-> Summed(s, g, i)]
    <3>1. g = [i \in 0 .. k |-> Summed(s, f, i)]
      OBVIOUS
    <3> HIDE DEF g
    <3> QED BY <2>6, <3>1
  <2>8. Sums(s, k, g)
    <3> HIDE DEF g
    <3> QED BY <2>7 DEF Sums
  <2> QED BY <2>8
<1> QED BY <1>3, <1>4

LEMMA CharsType ==
    ASSUME NEW s, s \in Seq(MessageT)
    PROVE  Chars(s) \in Nat
<1> DEFINE n == Len(s)
<1>1. n \in Nat /\ \A i \in 1 .. n : s[i] \in MessageT
  OBVIOUS
<1>2. \A i \in 1 .. n : SizeOf(s[i]) \in Nat
  <2> TAKE i \in 1 .. n
  <2>1. s[i].content \in Nat /\ s[i].result \in Nat /\ s[i].fixed \in Nat
    BY ONLY i \in 1 .. n, <1>1, SMTT(30) DEF MessageT
  <2>2. \A a, b, c \in Nat : a + b + c \in Nat
    OBVIOUS
  <2> QED BY <2>1, <2>2, Zenon DEF SizeOf
<1>3. \E f : Sums(s, n, f)
  BY <1>1, SumsExist, Zenon
<1>4. PICK f : Sums(s, n, f) /\ Chars(s) = f[n]
  BY <1>3, Zenon DEF Sums, Summed, Chars
<1> HIDE DEF n
<1> DEFINE B == {k \in Nat : k <= n /\ f[k] \notin Nat}
<1>5. B = {}
  <2> SUFFICES ASSUME B # {} PROVE FALSE
    OBVIOUS
  <2>1. PICK k \in B : \A m \in B : k <= m
    <3>1. B \in SUBSET Nat
      OBVIOUS
    <3> HIDE DEF B
    <3> QED BY <3>1, NatMin
  <2>2. k \in 0 .. n /\ k \in Nat /\ f[k] \notin Nat
    BY <1>1
  <2>3. f[k] = Summed(s, f, k)
    BY ONLY <1>4, <2>2, SumsAt
  <2>4. k # 0
    BY <2>2, <2>3 DEF Summed
  <2>5. k - 1 \in Nat /\ k - 1 <= n /\ ~(k <= k - 1) /\ k \in 1 .. n
    BY <1>1, <2>2, <2>4
  <2>6. f[k - 1] \in Nat
    BY <2>1, <2>5
  <2>7. SizeOf(s[k]) \in Nat
    BY <1>2, <2>5
  <2> QED BY <2>2, <2>3, <2>4, <2>6, <2>7 DEF Summed
<1>6. f[n] \in Nat
  BY <1>1, <1>5
<1> QED BY <1>4, <1>6

LEMMA EstimateType ==
    ASSUME NEW r, r.system \in Nat, r.messages \in Seq(MessageT)
    PROVE  Estimate(r) \in Nat
<1>1. Chars(r.messages) \in Nat
  BY CharsType
<1> DEFINE n == r.system + Chars(r.messages)
<1>2. n \in Nat
  BY <1>1
<1> HIDE DEF n
<1>3. Tokens(n) \in Nat
  BY <1>2 DEF Tokens, Larger
<1> QED BY <1>3 DEF Estimate, n

\* A summary is never empty.
LEMMA CondensedType ==
    ASSUME NEW chars \in Nat, NEW shape \in Shapes, NEW above \in Nat, NEW limit \in Nat
    PROVE  /\ Condensed(chars, shape, above, limit) \in Nat
           /\ Condensed(chars, shape, above, limit) = 0 <=> chars = 0
<1>1. Summary(chars, shape, limit) \in Nat /\ (chars > 0 => Summary(chars, shape, limit) > 0)
  <2>1. CASE chars <= limit
    BY <2>1 DEF Summary
  <2>2. CASE chars > limit /\ shape = "flat"
    <3> DEFINE half == Larger(50, (limit - 60) \div 2)
    <3>1. half \in Nat
      BY DEF Larger
    <3> HIDE DEF half
    <3>2. HeadLine + MiddleMark + 2 * half \in Nat /\ HeadLine + MiddleMark + 2 * half > 0
      BY <3>1 DEF HeadLine, MiddleMark
    <3>3. Summary(chars, shape, limit) = HeadLine + MiddleMark + 2 * half
      BY <2>2 DEF Summary, half
    <3> QED BY <3>2, <3>3
  <2>3. CASE chars > limit /\ shape = "log"
    BY <2>3 DEF Summary, EndMark
  <2>4. CASE chars > limit /\ shape = "terse"
    BY <2>4 DEF Summary, TerseSummary
  <2> QED BY <2>1, <2>2, <2>3, <2>4 DEF Shapes
<1> QED BY <1>1 DEF Condensed

LEMMA EachType ==
    ASSUME NEW S, NEW n \in Nat, NEW f, f \in [1 .. n -> S]
    PROVE  Each(f) \in Seq(S) /\ Len(Each(f)) = n /\ \A i \in 1 .. n : Each(f)[i] = f[i]
<1>1. f \in Seq(S) /\ Len(f) = n
  OBVIOUS
<1> QED BY <1>1 DEF Each

\* The message t is m with other texts, where m has texts.
Copies(m, t) ==
    /\ t \in MessageT /\ t.id = m.id /\ t.role = m.role
    /\ t.content = 0 <=> m.content = 0
    /\ t.result = 0 <=> m.result = 0

\* What a phase makes of the messages s: the root objective's text is kept.
Alike(s, t) ==
    /\ t \in Seq(MessageT) /\ Len(t) = Len(s)
    /\ \A i \in DOMAIN s : Copies(s[i], t[i]) /\ (i = RootIndex(s) => t[i].content = s[i].content)

\* Replacing the two condensable texts of a message.
LEMMA MessageEdited ==
    ASSUME NEW m, m \in MessageT, NEW c, c \in Nat, NEW d, d \in Nat,
           c = 0 <=> m.content = 0, d = 0 <=> m.result = 0
    PROVE  Copies(m, [m EXCEPT !.result = d, !.content = c])
<1> DEFINE t == [m EXCEPT !.result = d, !.content = c]
<1>1. t \in MessageT
  BY Zenon DEF MessageT
<1>2. t.id = m.id /\ t.role = m.role /\ t.content = c /\ t.result = d
  BY DEF MessageT
<1> HIDE DEF t
<1>3. Copies(m, t)
  BY <1>1, <1>2, Zenon DEF Copies
<1> QED BY <1>3 DEF t

\* A phase that makes a copy of every message.
LEMMA EachAlike ==
    ASSUME NEW s, s \in Seq(MessageT), NEW f, f \in [DOMAIN s -> MessageT],
           \A i \in DOMAIN s :
                Copies(s[i], f[i]) /\ (i = RootIndex(s) => f[i].content = s[i].content)
    PROVE  Alike(s, Each(f))
<1> DEFINE n == Len(s)
<1>1. DOMAIN s = 1 .. n /\ n \in Nat
  OBVIOUS
<1> HIDE DEF n
<1>2. f \in [1 .. n -> MessageT]
  BY <1>1
<1>3. Each(f) \in Seq(MessageT) /\ Len(Each(f)) = n /\ \A i \in 1 .. n : Each(f)[i] = f[i]
  BY ONLY <1>1, <1>2, EachType
<1>4. \A i \in DOMAIN s : Each(f)[i] = f[i]
  BY <1>1, <1>3
<1> QED BY <1>3, <1>4, Zenon DEF Alike, n

LEMMA Phase1Alike ==
    ASSUME NEW s, s \in Seq(MessageT)
    PROVE  Alike(s, Phase1(s))
<1> DEFINE limit(i) == IF i = Len(s) THEN 1200 ELSE 600
           c(i) == IF i = RootIndex(s) THEN s[i].content
                   ELSE Condensed(s[i].content, s[i].shape, 1000, limit(i))
           d(i) == Condensed(s[i].result, s[i].shape, 400, 400)
           f == [i \in DOMAIN s |-> [s[i] EXCEPT !.result = d(i), !.content = c(i)]]
<1>1. ASSUME NEW i \in DOMAIN s
      PROVE  /\ Copies(s[i], [s[i] EXCEPT !.result = d(i), !.content = c(i)])
             /\ [s[i] EXCEPT !.result = d(i), !.content = c(i)].content = c(i)
             /\ i = RootIndex(s) => c(i) = s[i].content
  <2>1. s[i] \in MessageT
    OBVIOUS
  <2>2. s[i].content \in Nat /\ s[i].result \in Nat /\ s[i].shape \in Shapes /\ limit(i) \in Nat
    BY <2>1 DEF MessageT
  <2>3. c(i) \in Nat /\ (c(i) = 0 <=> s[i].content = 0)
    <3> DEFINE above == 1000
    <3>1. above \in Nat
      OBVIOUS
    <3> HIDE DEF limit, above
    <3>2. /\ Condensed(s[i].content, s[i].shape, above, limit(i)) \in Nat
          /\ Condensed(s[i].content, s[i].shape, above, limit(i)) = 0 <=> s[i].content = 0
      BY <2>2, <3>1, CondensedType, ZenonT(30)
    <3> QED BY <2>2, <3>2 DEF above
  <2>4. d(i) \in Nat /\ (d(i) = 0 <=> s[i].result = 0)
    <3> DEFINE above == 400
    <3>1. above \in Nat
      OBVIOUS
    <3> HIDE DEF above, limit, c
    <3>2. /\ Condensed(s[i].result, s[i].shape, above, above) \in Nat
          /\ Condensed(s[i].result, s[i].shape, above, above) = 0 <=> s[i].result = 0
      BY <2>2, <3>1, CondensedType, ZenonT(30)
    <3> QED BY <3>2 DEF above
  <2> HIDE DEF c, d
  <2>5. Copies(s[i], [s[i] EXCEPT !.result = d(i), !.content = c(i)])
    BY <2>1, <2>3, <2>4, MessageEdited, Zenon
  <2>6. [s[i] EXCEPT !.result = d(i), !.content = c(i)].content = c(i)
    BY <2>1, Zenon DEF MessageT
  <2>7. i = RootIndex(s) => c(i) = s[i].content
    BY ZenonT(30) DEF c
  <2> QED BY <2>5, <2>6, <2>7
<1>2. Phase1(s) = Each(f)
  BY DEF Phase1
<1> HIDE DEF c, d
<1>3. /\ f = [i \in DOMAIN s |-> f[i]]
      /\ \A i \in DOMAIN s : f[i] = [s[i] EXCEPT !.result = d(i), !.content = c(i)]
  BY Zenon
<1> HIDE DEF f
<1>4. \A i \in DOMAIN s : Copies(s[i], f[i]) /\ (i = RootIndex(s) => f[i].content = s[i].content)
  BY <1>1, <1>3, Zenon
<1>5. f \in [DOMAIN s -> MessageT]
  BY <1>3, <1>4, Zenon DEF Copies
<1> QED BY <1>2, <1>4, <1>5, EachAlike, Zenon

LEMMA Phase2Alike ==
    ASSUME NEW s, s \in Seq(MessageT)
    PROVE  Alike(s, Phase2(s))
<1> DEFINE c(i) == IF s[i].role = "assistant" /\ s[i].content > 600 THEN 600 + ReasoningMark
                   ELSE s[i].content
           d(i) == Condensed(s[i].result, s[i].shape, 300, 300)
           between(i) == i > Protected(s) /\ i + TailTurns <= Len(s)
           f == [i \in DOMAIN s |->
                    IF between(i) THEN [s[i] EXCEPT !.result = d(i), !.content = c(i)] ELSE s[i]]
<1>1. ASSUME NEW i \in DOMAIN s
      PROVE  Copies(s[i], s[i]) /\ Copies(s[i], [s[i] EXCEPT !.result = d(i), !.content = c(i)])
  <2>1. s[i] \in MessageT
    OBVIOUS
  <2>2. s[i].content \in Nat /\ s[i].result \in Nat /\ s[i].shape \in Shapes
    BY <2>1 DEF MessageT
  <2>3. c(i) \in Nat /\ (c(i) = 0 <=> s[i].content = 0)
    BY <2>2 DEF ReasoningMark
  <2>4. d(i) \in Nat /\ (d(i) = 0 <=> s[i].result = 0)
    <3> DEFINE above == 300
    <3>1. above \in Nat
      OBVIOUS
    <3> HIDE DEF above
    <3>2. /\ Condensed(s[i].result, s[i].shape, above, above) \in Nat
          /\ Condensed(s[i].result, s[i].shape, above, above) = 0 <=> s[i].result = 0
      BY <2>2, <3>1, CondensedType, ZenonT(30)
    <3> QED BY <3>2 DEF above
  <2>5. Copies(s[i], s[i])
    BY <2>1, Zenon DEF Copies
  <2> HIDE DEF c, d
  <2> QED BY <2>1, <2>3, <2>4, <2>5, MessageEdited, Zenon
<1>2. Phase2(s) = Each(f)
  BY DEF Phase2
<1>3. \A i \in DOMAIN s : i = RootIndex(s) => ~between(i)
  BY DEF Protected, Larger
<1> HIDE DEF c, d, between
<1>4. /\ f = [i \in DOMAIN s |-> f[i]]
      /\ \A i \in DOMAIN s : f[i] = IF between(i)
                                    THEN [s[i] EXCEPT !.result = d(i), !.content = c(i)] ELSE s[i]
  BY Zenon
<1> HIDE DEF f
<1>5. \A i \in DOMAIN s : Copies(s[i], f[i]) /\ (i = RootIndex(s) => f[i].content = s[i].content)
  BY <1>1, <1>3, <1>4, Zenon
<1>6. f \in [DOMAIN s -> MessageT]
  BY <1>4, <1>5, Zenon DEF Copies
<1> QED BY <1>2, <1>5, <1>6, EachAlike, Zenon

LEMMA Phase3Alike ==
    ASSUME NEW s, s \in Seq(MessageT)
    PROVE  Alike(s, Phase3(s))
<1> DEFINE c(i) == Condensed(s[i].content, s[i].shape, 500, 400)
           d(i) == Condensed(s[i].result, s[i].shape, 250, 250)
           f == [i \in DOMAIN s |->
                    IF i = RootIndex(s) THEN s[i]
                    ELSE [s[i] EXCEPT !.result = d(i), !.content = c(i)]]
<1>1. ASSUME NEW i \in DOMAIN s
      PROVE  Copies(s[i], s[i]) /\ Copies(s[i], [s[i] EXCEPT !.result = d(i), !.content = c(i)])
  <2>1. s[i] \in MessageT
    OBVIOUS
  <2>2. s[i].content \in Nat /\ s[i].result \in Nat /\ s[i].shape \in Shapes
    BY <2>1 DEF MessageT
  <2>3. /\ c(i) \in Nat /\ (c(i) = 0 <=> s[i].content = 0)
        /\ d(i) \in Nat /\ (d(i) = 0 <=> s[i].result = 0)
    <3> DEFINE long == 500
               limit == 400
               above == 250
    <3>1. long \in Nat /\ limit \in Nat /\ above \in Nat
      OBVIOUS
    <3> HIDE DEF long, limit, above
    <3>2. /\ Condensed(s[i].content, s[i].shape, long, limit) \in Nat
          /\ Condensed(s[i].content, s[i].shape, long, limit) = 0 <=> s[i].content = 0
          /\ Condensed(s[i].result, s[i].shape, above, above) \in Nat
          /\ Condensed(s[i].result, s[i].shape, above, above) = 0 <=> s[i].result = 0
      BY <2>2, <3>1, CondensedType, Zenon
    <3> QED BY <3>2 DEF long, limit, above
  <2>4. Copies(s[i], s[i])
    BY <2>1, Zenon DEF Copies
  <2> HIDE DEF c, d
  <2> QED BY <2>1, <2>3, <2>4, MessageEdited, ZenonT(30)
<1>2. Phase3(s) = Each(f)
  BY DEF Phase3
<1> HIDE DEF c, d
<1>3. /\ f = [i \in DOMAIN s |-> f[i]]
      /\ \A i \in DOMAIN s : f[i] = IF i = RootIndex(s) THEN s[i]
                                    ELSE [s[i] EXCEPT !.result = d(i), !.content = c(i)]
  BY Zenon
<1> HIDE DEF f
<1>4. \A i \in DOMAIN s : Copies(s[i], f[i]) /\ (i = RootIndex(s) => f[i].content = s[i].content)
  BY <1>1, <1>3, Zenon
<1>5. f \in [DOMAIN s -> MessageT]
  BY <1>3, <1>4, Zenon DEF Copies
<1> QED BY <1>2, <1>4, <1>5, EachAlike, Zenon

LEMMA ProtectedType ==
    ASSUME NEW s, s \in Seq(MessageT)
    PROVE  Protected(s) \in Nat /\ Protected(s) >= 1
<1>1. RootIndex(s) \in Nat
  <2>1. CASE Users(s) = {}
    BY <2>1 DEF RootIndex
  <2>2. CASE Users(s) # {}
    <3>1. Users(s) \subseteq Nat
      BY DEF Users
    <3>2. Min(Users(s)) \in Users(s)
      BY <2>2, <3>1, MinIsLeast
    <3> QED BY <2>2, <3>1, <3>2 DEF RootIndex
  <2> QED BY <2>1, <2>2
<1> QED BY <1>1 DEF Protected, Larger

LEMMA WithoutType ==
    ASSUME NEW S, NEW s, s \in Seq(S), NEW keep \in Nat, NEW n \in Nat
    PROVE  Without(s, keep, n) \in Seq(S)
<1> DEFINE m == Smaller(keep, Len(s))
           a == SubSeq(s, 1, m)
           b == SubSeq(s, keep + n + 1, Len(s))
<1>1. Len(s) \in Nat /\ m \in 0 .. Len(s)
  BY DEF Smaller
<1> HIDE DEF m
<1>2. a \in Seq(S)
  BY <1>1
<1>3. b \in Seq(S)
  BY <1>1
<1>4. Without(s, keep, n) = a \o b
  BY DEF Without, m
<1> HIDE DEF a, b
<1> QED BY <1>2, <1>3, <1>4

LEMMA MessagesReplaced ==
    ASSUME NEW r, r \in RequestT, NEW s, s \in Seq(MessageT)
    PROVE  [r EXCEPT !.messages = s] \in RequestT
BY DEF RequestT

LEMMA EvictType ==
    ASSUME NEW r, r \in RequestT, NEW tail \in Nat, NEW target
    PROVE  Evict(r, tail, target) \in RequestT
<1> DEFINE keep == Protected(r.messages)
           most == Larger(keep + tail, Len(r.messages)) - (keep + tail)
           left(n) == [r EXCEPT !.messages = Without(r.messages, keep, n)]
           T == {n \in 0 .. most : n = most \/ Estimate(left(n)) <= target}
<1>1. r.messages \in Seq(MessageT)
  BY DEF RequestT
<1>2. keep \in Nat /\ Len(r.messages) \in Nat
  BY <1>1, ProtectedType
<1>3. most \in Nat
  <2> HIDE DEF keep
  <2> QED BY <1>2 DEF Larger
<1>4. ASSUME NEW n \in Nat PROVE left(n) \in RequestT
  <2>1. Without(r.messages, keep, n) \in Seq(MessageT)
    <3> HIDE DEF keep
    <3> QED BY <1>1, <1>2, WithoutType
  <2> QED BY <2>1, MessagesReplaced
<1>5. Evict(r, tail, target) = left(Min(T))
  BY DEF Evict
<1> HIDE DEF keep, left
<1>6. T \subseteq Nat /\ T # {}
  <2> HIDE DEF most
  <2>1. most \in T
    BY <1>3
  <2> QED BY <1>3, <2>1
<1> HIDE DEF T
<1>7. Min(T) \in Nat
  BY <1>6, MinIsLeast, Zenon
<1> QED BY <1>4, <1>5, <1>7

\* compact returns one of its stages, and each is a request.
LEMMA CompactType ==
    ASSUME NEW r, r \in RequestT, NEW target
    PROVE  compact(r, target) \in RequestT
<1> DEFINE one == [r EXCEPT !.messages = Phase1(r.messages)]
           two == [one EXCEPT !.messages = Phase2(one.messages)]
           evicted == Evict(two, TailTurns, target)
           three == [evicted EXCEPT !.messages = Phase3(evicted.messages)]
           four == Phase4(three)
           five == Evict(four, 2, target)
           stages == <<r, one, two, evicted, three, five>>
           T == {i \in 1 .. 6 : i = 6 \/ Estimate(stages[i]) <= target}
<1>1. compact(r, target) = stages[Min(T)]
  BY DEF compact
<1>2. one \in RequestT
  <2>1. Phase1(r.messages) \in Seq(MessageT)
    BY Phase1Alike DEF RequestT, Alike
  <2> QED BY <2>1, MessagesReplaced
<1> HIDE DEF one
<1>3. two \in RequestT
  <2>1. Phase2(one.messages) \in Seq(MessageT)
    BY <1>2, Phase2Alike DEF RequestT, Alike
  <2> QED BY <1>2, <2>1, MessagesReplaced
<1> HIDE DEF two
<1>4. evicted \in RequestT
  BY <1>3, EvictType, TailAssumption
<1> HIDE DEF evicted
<1>5. three \in RequestT
  <2>1. Phase3(evicted.messages) \in Seq(MessageT)
    BY <1>4, Phase3Alike DEF RequestT, Alike
  <2> QED BY <1>4, <2>1, MessagesReplaced
<1> HIDE DEF three
<1>6. four \in RequestT
  <2> DEFINE prose == Smaller(three.prose, 120)
             system == IF three.system > 2000 THEN 2000 + SystemMark ELSE three.system
  <2>1. three.prose \in Nat /\ three.system \in Nat
    BY <1>5 DEF RequestT
  <2>2. prose \in Nat /\ system \in Nat
    BY <2>1 DEF Smaller, SystemMark
  <2>3. four = [three EXCEPT !.prose = prose, !.system = system]
    BY DEF Phase4
  <2> HIDE DEF prose, system, four
  <2> QED BY <1>5, <2>2, <2>3, Zenon DEF RequestT
<1> HIDE DEF four
<1>7. five \in RequestT
  BY <1>6, EvictType
<1> HIDE DEF five
<1>8. \A i \in 1 .. 6 : stages[i] \in RequestT
  BY <1>2, <1>3, <1>4, <1>5, <1>7
<1>9. T \subseteq Nat /\ T \subseteq 1 .. 6 /\ 6 \in T
  OBVIOUS
<1> HIDE DEF stages, T
<1>10. Min(T) \in 1 .. 6
  BY <1>9, MinIsLeast, Zenon
<1> QED BY <1>1, <1>8, <1>10

-----------------------------------------------------------------------------
(* What stays in a prompt                                                  *)

\* The messages s are those numbered 1 - lead .. n without 2 .. k.
Gap(s, lead, n, k) ==
    /\ Len(s) = lead + 1 + n - k
    /\ \A i \in 1 .. Len(s) : s[i].id = IF i <= lead + 1 THEN i - lead ELSE i - lead - 1 + k

\* At most the oldest after the root objective are missing, never the last two.
Cut(s, lead, n) == \E k \in 1 .. n : (k = 1 \/ k + 2 <= n) /\ Gap(s, lead, n, k)

\* Only the first message may be the system's.
Framed(s, lead, n) ==
    /\ lead \in {0, 1} /\ n \in Nat
    /\ Cut(s, lead, n)
    /\ \A i \in 1 .. Len(s) : s[i].role = "system" <=> i <= lead

LEMMA FramedLength ==
    ASSUME NEW S, NEW s, s \in Seq(S), NEW lead, NEW n, Framed(s, lead, n)
    PROVE  lead \in {0, 1} /\ lead + 1 <= Len(s) /\ n >= 1 /\ n \in Nat
<1>1. PICK k \in 1 .. n : Gap(s, lead, n, k)
  BY Zenon DEF Framed, Cut
<1>2. lead \in {0, 1} /\ n \in Nat
  BY DEF Framed
<1>3. Len(s) = lead + 1 + n - k
  BY <1>1 DEF Gap
<1> QED BY <1>2, <1>3

LEMMA WithoutAt ==
    ASSUME NEW S, NEW s, s \in Seq(S), NEW keep \in Nat, NEW d \in Nat, keep + d <= Len(s)
    PROVE  /\ Without(s, keep, d) \in Seq(S)
           /\ Len(Without(s, keep, d)) = Len(s) - d
           /\ \A i \in 1 .. Len(s) - d :
                Without(s, keep, d)[i] = IF i <= keep THEN s[i] ELSE s[i + d]
<1> DEFINE a == SubSeq(s, 1, keep)
           b == SubSeq(s, keep + d + 1, Len(s))
<1>1. Len(s) \in Nat /\ keep <= Len(s) /\ keep \in 0 .. Len(s)
  OBVIOUS
<1>2. a \in Seq(S) /\ Len(a) = keep /\ \A i \in 1 .. keep : a[i] = s[i]
  BY <1>1
<1>3. /\ b \in Seq(S) /\ Len(b) = Len(s) - d - keep
      /\ \A i \in 1 .. Len(s) - d - keep : b[i] = s[i + keep + d]
  BY <1>1
<1>4. Smaller(keep, Len(s)) = keep
  BY <1>1 DEF Smaller
<1>5. Without(s, keep, d) = a \o b
  BY <1>4 DEF Without
<1> HIDE DEF a, b
<1>6. a \o b \in Seq(S) /\ Len(a \o b) = Len(s) - d
  <2>1. a \in Seq(S) /\ b \in Seq(S)
    BY <1>2, <1>3
  <2>2. a \o b \in Seq(S) /\ Len(a \o b) = Len(a) + Len(b)
    BY ONLY <2>1
  <2>3. keep + (Len(s) - d - keep) = Len(s) - d
    BY <1>1
  <2> QED BY <1>2, <1>3, <2>2, <2>3
<1>7. ASSUME NEW i \in 1 .. Len(s) - d
      PROVE  (a \o b)[i] = IF i <= keep THEN s[i] ELSE s[i + d]
  <2>1. CASE i <= keep
    BY <1>1, <1>2, <1>3, <2>1
  <2>2. CASE ~(i <= keep)
    <3>1. (a \o b)[i] = b[i - Len(a)]
      <4>1. /\ a \in Seq(S) /\ b \in Seq(S) /\ Len(a) \in Nat /\ Len(b) \in Nat
            /\ i \in 1 .. Len(a) + Len(b) /\ ~(i <= Len(a))
        BY <1>1, <1>2, <1>3, <2>2
      <4> QED BY ONLY <4>1
    <3>2. i - keep \in 1 .. Len(s) - d - keep /\ (i - keep) + keep + d = i + d
      BY <1>1, <2>2
    <3> QED BY <1>2, <1>3, <2>2, <3>1, <3>2
  <2> QED BY <2>1, <2>2, Zenon
<1> QED BY <1>5, <1>6, <1>7, SMTT(20)

\* Popping messages while more than the first ones and the tail are there.
LEMMA CutFurther ==
    ASSUME NEW S, NEW s, s \in Seq(S), NEW lead, NEW n, Framed(s, lead, n),
           NEW tail \in Nat, tail >= 2,
           NEW d, d \in 0 .. Larger(lead + 1 + tail, Len(s)) - (lead + 1 + tail)
    PROVE  /\ Without(s, lead + 1, d) \in Seq(S)
           /\ Framed(Without(s, lead + 1, d), lead, n)
           /\ Without(s, lead + 1, d)[lead + 1] = s[lead + 1]
<1> DEFINE t == Without(s, lead + 1, d)
           keep == lead + 1
<1>1. /\ lead \in {0, 1} /\ n \in Nat /\ Len(s) \in Nat /\ keep <= Len(s) /\ keep \in Nat
      /\ lead \in Nat
  BY FramedLength
<1>2. d \in Nat /\ (d = 0 \/ keep + tail + d <= Len(s))
  BY <1>1 DEF Larger
<1>3. keep + d <= Len(s)
  BY <1>1, <1>2, SMTT(20)
<1>4. /\ t \in Seq(S) /\ Len(t) = Len(s) - d
      /\ \A i \in 1 .. Len(s) - d : t[i] = IF i <= keep THEN s[i] ELSE s[i + d]
  BY <1>1, <1>2, <1>3, WithoutAt
<1> HIDE DEF t
<1>5. PICK k \in 1 .. n : (k = 1 \/ k + 2 <= n) /\ Gap(s, lead, n, k)
  BY Zenon DEF Framed, Cut
<1>6. /\ Len(s) = keep + n - k
      /\ \A i \in 1 .. Len(s) : s[i].id = IF i <= keep THEN i - lead ELSE i - lead - 1 + k
  BY <1>5 DEF Gap
<1>7. k + d \in 1 .. n /\ (k + d = 1 \/ k + d + 2 <= n) /\ Len(t) = keep + n - (k + d)
  <2> DEFINE m == Len(s)
             p == Len(t)
  <2>1. /\ m = keep + n - k /\ p = m - d /\ keep \in Nat /\ n \in Nat /\ d \in Nat /\ k \in 1 .. n
        /\ k = 1 \/ k + 2 <= n
        /\ d = 0 \/ keep + tail + d <= m
    BY <1>1, <1>2, <1>4, <1>5, <1>6
  <2> HIDE DEF m, p, keep
  <2>2. k + d \in 1 .. n /\ (k + d = 1 \/ k + d + 2 <= n) /\ p = keep + n - (k + d)
    BY ONLY <2>1, tail \in Nat, tail >= 2, SMTT(20)
  <2> QED BY <2>2 DEF p
<1>8. ASSUME NEW i \in 1 .. Len(t)
      PROVE  /\ t[i].id = IF i <= keep THEN i - lead ELSE i - lead - 1 + (k + d)
             /\ t[i].role = "system" <=> i <= lead
  <2>1. \A j \in 1 .. Len(s) : s[j].role = "system" <=> j <= lead
    BY DEF Framed
  <2>2. i \in 1 .. Len(s) - d /\ i \in 1 .. Len(s) /\ i + d \in 1 .. Len(s) /\ i \in Nat
    BY <1>1, <1>2, <1>4, SMTT(20)
  <2>3. CASE i <= keep
    BY <1>4, <1>6, <2>1, <2>2, <2>3, SMTT(20)
  <2>4. CASE ~(i <= keep)
    <3>1. t[i] = s[i + d] /\ ~(i + d <= keep) /\ ~(i + d <= lead) /\ ~(i <= lead)
      BY <1>1, <1>2, <1>4, <2>2, <2>4, SMTT(20)
    <3>2. s[i + d].id = (i + d) - lead - 1 + k /\ ~(s[i + d].role = "system")
      BY <1>6, <2>1, <2>2, <3>1, SMTT(20)
    <3> QED BY <1>1, <1>2, <1>5, <2>2, <2>4, <3>1, <3>2, SMTT(20)
  <2> QED BY <2>3, <2>4
<1>9. Gap(t, lead, n, k + d)
  BY <1>1, <1>7, <1>8, SMTT(20) DEF Gap
<1>10. Framed(t, lead, n)
  BY <1>1, <1>7, <1>8, <1>9, SMTT(20) DEF Framed, Cut
<1>11. t[keep] = s[keep]
  <2>1. keep \in 1 .. Len(s) - d /\ keep <= keep
    BY ONLY <1>1, <1>2, <1>3, SMTT(20)
  <2> QED BY <1>4, <2>1, Zenon
<1> QED BY <1>4, <1>10, <1>11 DEF t

\* What compaction leaves of a conversation whose root objective is `text'.
Adapted(s, lead, n, text) ==
    /\ s \in Seq(SpeakT) /\ Framed(s, lead, n)
    /\ s[lead + 1].role = "user" /\ s[lead + 1].content = text

LEMMA SpeakSeq ==
    ASSUME NEW s, s \in Seq(SpeakT)
    PROVE  s \in Seq(MessageT) /\ Len(s) \in Nat /\ DOMAIN s = 1 .. Len(s)
<1>1. SpeakT \subseteq MessageT
  BY Zenon DEF SpeakT
<1> QED BY <1>1

LEMMA AdaptedRoot ==
    ASSUME NEW s, NEW lead, NEW n, NEW text, Adapted(s, lead, n, text)
    PROVE  RootIndex(s) = lead + 1 /\ Protected(s) = lead + 1
<1>1. s \in Seq(SpeakT) /\ Framed(s, lead, n) /\ s[lead + 1].role = "user"
  BY Zenon DEF Adapted
<1>2. Len(s) \in Nat /\ DOMAIN s = 1 .. Len(s)
  BY <1>1, SpeakSeq
<1>3. lead \in {0, 1} /\ lead + 1 <= Len(s)
  BY <1>1, FramedLength
<1>4. lead + 1 \in Users(s)
  BY <1>1, <1>2, <1>3 DEF Users
<1>5. \A i \in Users(s) : lead + 1 <= i
  <2> TAKE i \in Users(s)
  <2>1. i \in 1 .. Len(s) /\ s[i].role = "user"
    BY <1>2 DEF Users
  <2>2. ~(i <= lead)
    BY <1>1, <2>1 DEF Framed
  <2> QED BY <1>2, <1>3, <2>1, <2>2
<1>6. Users(s) \subseteq Nat
  BY <1>2 DEF Users
<1>7. Min(Users(s)) = lead + 1
  BY <1>4, <1>5, <1>6, MinIs, Zenon
<1>8. RootIndex(s) = lead + 1
  BY <1>4, <1>7, Zenon DEF RootIndex
<1> QED BY <1>3, <1>8 DEF Protected, Larger

LEMMA AlikeAdapted ==
    ASSUME NEW s, NEW lead, NEW n, NEW text, Adapted(s, lead, n, text), NEW t, Alike(s, t)
    PROVE  Adapted(t, lead, n, text)
<1>1. s \in Seq(SpeakT) /\ Framed(s, lead, n) /\ s[lead + 1].role = "user"
        /\ s[lead + 1].content = text
  BY Zenon DEF Adapted
<1>2. s \in Seq(MessageT) /\ Len(s) \in Nat /\ DOMAIN s = 1 .. Len(s)
  BY <1>1, SpeakSeq, SMTT(20)
<1>3. lead \in {0, 1} /\ lead + 1 <= Len(s) /\ lead + 1 \in DOMAIN s
  BY <1>1, <1>2, FramedLength
<1>4. t \in Seq(MessageT) /\ Len(t) = Len(s) /\ \A i \in DOMAIN s : Copies(s[i], t[i])
  BY Zenon DEF Alike
<1>5. t[lead + 1].content = text
  BY <1>1, <1>3, AdaptedRoot, Zenon DEF Alike
<1>6. \A i \in DOMAIN s : t[i].id = s[i].id /\ t[i].role = s[i].role
  BY <1>4, Zenon DEF Copies
<1>7. t \in Seq(SpeakT)
  <2>1. ASSUME NEW i \in DOMAIN s PROVE t[i] \in SpeakT
    <3>1. s[i] \in SpeakT
      BY <1>1
    <3> QED BY <1>4, <3>1, Zenon DEF SpeakT, Copies
  <2> QED BY <1>2, <1>4, <2>1
<1>8. Framed(t, lead, n)
  <2>1. PICK k \in 1 .. n : (k = 1 \/ k + 2 <= n) /\ Gap(s, lead, n, k)
    BY <1>1, ZenonT(30) DEF Framed, Cut
  <2>2. Gap(t, lead, n, k)
    BY <1>2, <1>4, <1>6, <2>1, SMTT(20) DEF Gap
  <2>3. \A i \in 1 .. Len(t) : t[i].role = "system" <=> i <= lead
    BY <1>1, <1>2, <1>4, <1>6, SMTT(20) DEF Framed
  <2>4. lead \in {0, 1} /\ n \in Nat
    BY <1>1 DEF Framed
  <2> QED BY <2>1, <2>2, <2>3, <2>4, Zenon DEF Framed, Cut
<1> QED BY <1>1, <1>3, <1>5, <1>6, <1>7, <1>8, Zenon DEF Adapted

LEMMA EvictAdapts ==
    ASSUME NEW r, r \in RequestT, NEW lead, NEW n, NEW text, Adapted(r.messages, lead, n, text),
           NEW tail \in Nat, tail >= 2, NEW target
    PROVE  /\ Evict(r, tail, target) \in RequestT
           /\ Adapted(Evict(r, tail, target).messages, lead, n, text)
           /\ Evict(r, tail, target).system = r.system
<1> DEFINE s == r.messages
           most == Larger(lead + 1 + tail, Len(s)) - (lead + 1 + tail)
           left(i) == [r EXCEPT !.messages = Without(s, lead + 1, i)]
           T == {i \in 0 .. most : i = most \/ Estimate(left(i)) <= target}
<1>1. /\ s \in Seq(SpeakT) /\ Framed(s, lead, n)
      /\ s[lead + 1].role = "user" /\ s[lead + 1].content = text
  BY Zenon DEF Adapted
<1>2. Protected(s) = lead + 1
  BY AdaptedRoot
<1>3. lead \in Nat /\ Len(s) \in Nat
  BY <1>1, SpeakSeq, FramedLength
<1>4. Evict(r, tail, target) = left(Min(T))
  BY <1>2 DEF Evict
<1>5. most \in Nat
  BY <1>3, SMTT(20) DEF Larger
<1>6. ASSUME NEW i, i \in 0 .. most
      PROVE  left(i) \in RequestT /\ Adapted(left(i).messages, lead, n, text) /\ left(i).system = r.system
  <2> DEFINE t == Without(s, lead + 1, i)
  <2>1. t \in Seq(SpeakT) /\ Framed(t, lead, n) /\ t[lead + 1] = s[lead + 1]
    <3>1. i \in 0 .. Larger(lead + 1 + tail, Len(s)) - (lead + 1 + tail)
      BY <1>6
    <3> QED BY ONLY <1>1, <3>1, CutFurther, tail \in Nat, tail >= 2
  <2>2. t \in Seq(MessageT)
    BY <2>1, SpeakSeq, Zenon
  <2>3. left(i) = [r EXCEPT !.messages = t]
    OBVIOUS
  <2> HIDE DEF t, left
  <2>4. left(i) \in RequestT /\ left(i).messages = t /\ left(i).system = r.system
    BY <2>2, <2>3, MessagesReplaced DEF RequestT
  <2> QED BY <1>1, <2>1, <2>4 DEF Adapted
<1> HIDE DEF left
<1>7. T \subseteq Nat /\ T \subseteq 0 .. most /\ T # {}
  <2> HIDE DEF most
  <2>1. most \in T
    BY <1>5
  <2> QED BY <1>5, <2>1
<1> HIDE DEF T, most
<1>8. Min(T) \in 0 .. most
  BY <1>7, MinIsLeast, Zenon
<1> QED BY <1>4, <1>6, <1>8

\* Replacing the messages of a request by those a phase makes of them.
LEMMA PhaseAdapts ==
    ASSUME NEW r, r \in RequestT, NEW lead, NEW n, NEW text, Adapted(r.messages, lead, n, text),
           NEW t, Alike(r.messages, t)
    PROVE  /\ [r EXCEPT !.messages = t] \in RequestT
           /\ Adapted([r EXCEPT !.messages = t].messages, lead, n, text)
           /\ [r EXCEPT !.messages = t].system = r.system
<1>1. t \in Seq(MessageT) /\ Adapted(t, lead, n, text)
  BY AlikeAdapted DEF Alike
<1>2. [r EXCEPT !.messages = t] \in RequestT
  BY <1>1, MessagesReplaced
<1>3. [r EXCEPT !.messages = t].messages = t /\ [r EXCEPT !.messages = t].system = r.system
  BY DEF RequestT
<1> QED BY <1>1, <1>2, <1>3

LEMMA CompactAdapts ==
    ASSUME NEW r, r \in RequestT, NEW lead, NEW n, NEW text, Adapted(r.messages, lead, n, text),
           NEW target, TailTurns >= 2
    PROVE  /\ Adapted(compact(r, target).messages, lead, n, text)
           /\ compact(r, target).system = 0 <=> r.system = 0
           /\ Fits(r, target) => compact(r, target) = r
<1> DEFINE one == [r EXCEPT !.messages = Phase1(r.messages)]
           two == [one EXCEPT !.messages = Phase2(one.messages)]
           evicted == Evict(two, TailTurns, target)
           three == [evicted EXCEPT !.messages = Phase3(evicted.messages)]
           four == Phase4(three)
           five == Evict(four, 2, target)
           stages == <<r, one, two, evicted, three, five>>
           T == {i \in 1 .. 6 : i = 6 \/ Estimate(stages[i]) <= target}
           Good(x) == /\ x \in RequestT /\ Adapted(x.messages, lead, n, text)
                      /\ x.system = 0 <=> r.system = 0
<1>1. compact(r, target) = stages[Min(T)]
  BY DEF compact
<1>2. \A x \in RequestT : x.messages \in Seq(MessageT) /\ x.system \in Nat /\ x.prose \in Nat
  BY DEF RequestT
<1>3. Good(r)
  OBVIOUS
<1>4. Good(one)
  <2>1. Alike(r.messages, Phase1(r.messages))
    BY <1>2, Phase1Alike
  <2> QED BY <2>1, PhaseAdapts
<1> HIDE DEF one
<1>5. Good(two)
  <2>1. Alike(one.messages, Phase2(one.messages))
    BY <1>2, <1>4, Phase2Alike
  <2> QED BY <1>4, <2>1, PhaseAdapts
<1> HIDE DEF two
<1>6. Good(evicted)
  BY <1>5, EvictAdapts, TailAssumption, SMTT(20)
<1> HIDE DEF evicted
<1>7. Good(three)
  <2>1. Alike(evicted.messages, Phase3(evicted.messages))
    BY <1>2, <1>6, Phase3Alike
  <2> QED BY <1>6, <2>1, PhaseAdapts
<1> HIDE DEF three
<1>8. Good(four)
  <2> DEFINE prose == Smaller(three.prose, 120)
             system == IF three.system > 2000 THEN 2000 + SystemMark ELSE three.system
  <2>1. three.prose \in Nat /\ three.system \in Nat
    BY <1>2, <1>7
  <2>2. prose \in Nat /\ system \in Nat /\ (system = 0 <=> three.system = 0)
    BY <2>1 DEF Smaller, SystemMark
  <2>3. four = [three EXCEPT !.prose = prose, !.system = system]
    BY DEF Phase4
  <2> HIDE DEF prose, system, four
  <2>4. four \in RequestT
    BY <1>7, <2>2, <2>3, Zenon DEF RequestT
  <2>5. four.messages = three.messages /\ four.system = system
    BY <1>7, <2>3 DEF RequestT
  <2> QED BY <1>7, <2>2, <2>4, <2>5
<1> HIDE DEF four
<1>9. Good(five)
  BY <1>8, EvictAdapts
<1> HIDE DEF five, Good
<1>10. \A i \in 1 .. 6 : Good(stages[i])
  BY <1>3, <1>4, <1>5, <1>6, <1>7, <1>9, SMTT(20)
<1>11. T \subseteq Nat /\ T \subseteq 1 .. 6 /\ 6 \in T
  OBVIOUS
<1>12. Fits(r, target) => 1 \in T /\ stages[1] = r
  BY DEF Fits
<1> HIDE DEF stages, T
<1>13. Min(T) \in 1 .. 6
  BY <1>11, MinIsLeast, Zenon
<1>14. Good(compact(r, target))
  BY <1>1, <1>10, <1>13
<1>15. ASSUME Fits(r, target) PROVE compact(r, target) = r
  <2>1. 1 \in T /\ \A y \in T : 1 <= y
    BY <1>11, <1>12, <1>15
  <2>2. Min(T) = 1
    BY <1>11, <2>1, MinIs, ZenonT(30)
  <2> QED BY <1>1, <1>12, <1>15, <2>2
<1> QED BY <1>14, <1>15 DEF Good

-----------------------------------------------------------------------------
(* What is said of it                                                      *)

SaidT == [id : Nat, role : {"system", "user", "assistant", "tool"}, content : Nat, fixed : Nat,
          shape : Shapes]
PayloadT == [messages : Seq(SaidT), tools : Nat, prose : Nat]

LEMMA PayloadMade ==
    ASSUME NEW said, said \in Seq(SaidT), NEW tools \in Nat, NEW prose \in Nat, NEW p,
           p = [messages |-> said, tools |-> tools, prose |-> prose]
    PROVE  p \in PayloadT /\ p.messages = said
BY DEF PayloadT

\* The one message that m is said as, and those of the first i messages.
Word(m) == Spoken(m)[1]
Words(s, i) == [j \in 1 .. i |-> Word(s[j])]

LEMMA SpokenOnce ==
    ASSUME NEW m, m \in SpeakT
    PROVE  /\ Spoken(m) = <<Word(m)>> /\ Word(m) \in SaidT /\ Word(m).id = m.id
           /\ Word(m).role = "system" <=> m.role = "system"
           /\ m.role = "user" /\ m.content > 0 => Word(m).content = m.content
<1> DEFINE text == [id |-> m.id, role |-> m.role, content |-> m.content, fixed |-> m.fixed,
                    shape |-> m.shape]
           answer == [id |-> m.id, role |-> "tool", content |-> m.result, fixed |-> 0,
                      shape |-> m.shape]
<1>1. /\ m.id \in Nat /\ m.role \in {"system", "user", "assistant", "tool"} /\ m.content \in Nat
      /\ m.result \in Nat /\ m.fixed \in Nat /\ m.shape \in Shapes
      /\ m.role = "user" => (m.content = 0 <=> m.result # 0)
  BY SMTT(20) DEF SpeakT, MessageT
<1>2. /\ text \in SaidT /\ text.id = m.id /\ text.role = m.role /\ text.content = m.content
      /\ answer \in SaidT /\ answer.id = m.id /\ answer.role = "tool"
  BY <1>1 DEF SaidT
<1>3. [text EXCEPT !.role = "tool", !.content = m.result, !.fixed = 0] = answer
  <2> DEFINE tool == [text EXCEPT !.role = "tool"]
             told == [tool EXCEPT !.content = m.result]
  <2>1. tool = [id |-> m.id, role |-> "tool", content |-> m.content, fixed |-> m.fixed,
                shape |-> m.shape]
    OBVIOUS
  <2>2. told = [id |-> m.id, role |-> "tool", content |-> m.result, fixed |-> m.fixed,
                shape |-> m.shape]
    <3> HIDE DEF tool
    <3> QED BY <2>1
  <2>3. [told EXCEPT !.fixed = 0] = answer
    <3> HIDE DEF told
    <3> QED BY <2>2
  <2> QED BY <2>3, Zenon
<1> HIDE DEF answer
<1>4. Spoken(m) = CASE m.role \in {"system", "assistant"} -> <<text>>
                    [] m.role = "user" -> (IF m.content > 0 THEN <<text>> ELSE <<>>)
                                              \o (IF m.result > 0 THEN <<answer>> ELSE <<>>)
                    [] m.role = "tool" -> <<answer>>
                    [] OTHER -> <<>>
  BY <1>3, SMTT(20) DEF Spoken
<1> HIDE DEF text
<1>5. CASE m.role \in {"system", "assistant"}
  <2>1. Spoken(m) = <<text>>
    BY <1>4, <1>5, Zenon
  <2>2. Word(m) = text
    BY <2>1 DEF Word
  <2> QED BY <1>2, <1>5, <2>1, <2>2
<1>6. CASE m.role = "tool"
  <2>1. Spoken(m) = <<answer>>
    BY <1>4, <1>6, SMTT(20)
  <2>2. Word(m) = answer
    BY <2>1 DEF Word
  <2> QED BY <1>2, <1>6, <2>1, <2>2
<1>7. CASE m.role = "user" /\ m.content > 0
  <2>1. ~(m.result > 0)
    BY <1>1, <1>7
  <2>2. Spoken(m) = <<text>> \o <<>>
    BY <1>4, <1>7, <2>1, Zenon
  <2>3. Spoken(m) = <<text>>
    BY <2>2, SMTT(20)
  <2>4. Word(m) = text
    BY <2>3 DEF Word
  <2> QED BY <1>2, <1>7, <2>3, <2>4
<1>8. CASE m.role = "user" /\ ~(m.content > 0)
  <2>1. m.result > 0
    BY <1>1, <1>8
  <2>2. Spoken(m) = <<>> \o <<answer>>
    BY <1>4, <1>8, <2>1, Zenon
  <2>3. Spoken(m) = <<answer>>
    BY <2>2
  <2>4. Word(m) = answer
    BY <2>3 DEF Word
  <2> QED BY <1>2, <1>8, <2>3, <2>4
<1> QED BY <1>1, <1>5, <1>6, <1>7, <1>8, SMTT(30)

\* What is said up to message i, from what is said before it.
Says(s, f, i) == IF i = 0 THEN <<>> ELSE f[i - 1] \o Spoken(s[i])
Saying(s, n, f) == f = [i \in 0 .. n |-> Says(s, f, i)]

LEMMA WordsNext ==
    ASSUME NEW s, s \in Seq(SpeakT), NEW i, i \in 1 .. Len(s)
    PROVE  Words(s, i - 1) \o Spoken(s[i]) = Words(s, i)
<1> DEFINE a == Words(s, i - 1)
           b == <<Word(s[i])>>
           c == Words(s, i)
<1>1. i \in Nat /\ i - 1 \in Nat /\ Len(s) \in Nat /\ \A j \in 1 .. i : j \in 1 .. Len(s)
  OBVIOUS
<1>2. \A j \in 1 .. i : s[j] \in SpeakT
  BY <1>1
<1>3. \A j \in 1 .. i : Word(s[j]) \in SaidT
  BY <1>2, SpokenOnce, ZenonT(30)
<1>4. Spoken(s[i]) = b /\ i \in 1 .. i
  BY <1>1, <1>2, SpokenOnce
<1>5. a \in Seq(SaidT) /\ Len(a) = i - 1 /\ \A j \in 1 .. i - 1 : a[j] = Word(s[j])
  BY <1>1, <1>3 DEF Words
<1>6. c \in Seq(SaidT) /\ Len(c) = i /\ \A j \in 1 .. i : c[j] = Word(s[j])
  BY <1>1, <1>3 DEF Words
<1>7. b \in Seq(SaidT) /\ Len(b) = 1 /\ b[1] = Word(s[i])
  BY <1>3, <1>4
<1> HIDE DEF a, b, c
<1>8. a \o b \in Seq(SaidT) /\ Len(a \o b) = i
  <2>1. a \in Seq(SaidT) /\ b \in Seq(SaidT)
    BY <1>5, <1>7
  <2>2. a \o b \in Seq(SaidT) /\ Len(a \o b) = Len(a) + Len(b)
    BY ONLY <2>1
  <2> QED BY <1>1, <1>5, <1>7, <2>2, SMTT(20)
<1>9. ASSUME NEW j \in 1 .. i PROVE (a \o b)[j] = c[j]
  <2>1. CASE j = i
    <3>1. /\ a \in Seq(SaidT) /\ b \in Seq(SaidT)
          /\ i \in 1 .. Len(a) + Len(b) /\ ~(i <= Len(a)) /\ Len(a) \in Nat /\ Len(b) \in Nat
      BY <1>1, <1>5, <1>7
    <3>2. (a \o b)[i] = b[i - Len(a)]
      BY ONLY <3>1
    <3>3. i - Len(a) = 1 /\ c[i] = Word(s[i])
      BY <1>1, <1>5, <1>6, SMTT(20)
    <3> QED BY <1>7, <2>1, <3>2, <3>3, Zenon
  <2>2. CASE j # i
    <3>1. j \in 1 .. i - 1
      BY <1>1, <2>2
    <3>2. (a \o b)[j] = a[j]
      BY <1>5, <1>7, <3>1
    <3> QED BY <1>5, <1>6, <3>1, <3>2
  <2> QED BY <2>1, <2>2, Zenon
<1>10. a \o b = c
  BY <1>6, <1>8, <1>9, SMTT(30)
<1> QED BY <1>4, <1>10 DEF a, b, c

LEMMA SayingAt ==
    ASSUME NEW s, NEW n, NEW f, Saying(s, n, f), NEW i, i \in 0 .. n
    PROVE  f[i] = Says(s, f, i)
<1> DEFINE F(g) == [j \in 0 .. n |-> Says(s, g, j)]
<1>1. f = F(f)
  BY Zenon DEF Saying
<1>2. F(f)[i] = Says(s, f, i)
  OBVIOUS
<1> HIDE DEF F
<1> QED BY <1>1, <1>2

\* Every message is said as one, in the order of the conversation.
LEMMA SayingWords ==
    ASSUME NEW s, s \in Seq(SpeakT)
    PROVE  /\ \E f : Saying(s, Len(s), f)
           /\ \A f : Saying(s, Len(s), f) => f[Len(s)] = Words(s, Len(s))
<1> DEFINE n == Len(s)
           g == [i \in 0 .. n |-> Words(s, i)]
<1>1. n \in Nat /\ Words(s, 0) = <<>>
  BY DEF Words
<1>2. \A i \in 1 .. n : Words(s, i - 1) \o Spoken(s[i]) = Words(s, i)
  BY WordsNext, Zenon
<1> HIDE DEF n
<1>3. Saying(s, n, g)
  <2>1. ASSUME NEW i \in 0 .. n PROVE Words(s, i) = Says(s, g, i)
    <3>1. CASE i = 0
      BY <1>1, <3>1 DEF Says
    <3>2. CASE i # 0
      <4>1. i \in 1 .. n /\ i - 1 \in 0 .. n
        BY <1>1, <3>2
      <4>2. g[i - 1] = Words(s, i - 1)
        BY <4>1
      <4> HIDE DEF g
      <4> QED BY <1>2, <3>2, <4>1, <4>2 DEF Says
    <3> QED BY <3>1, <3>2
  <2>2. g = [i \in 0 .. n |-> Words(s, i)]
    BY SMTT(20)
  <2> HIDE DEF g
  <2> QED BY <2>1, <2>2 DEF Saying
<1>4. ASSUME NEW f, Saying(s, n, f) PROVE f[n] = Words(s, n)
  <2> DEFINE B == {k \in Nat : k <= n /\ f[k] # Words(s, k)}
  <2>1. SUFFICES ASSUME B # {} PROVE FALSE
    BY <1>1
  <2>2. PICK k \in B : \A m \in B : k <= m
    <3>1. B \in SUBSET Nat
      OBVIOUS
    <3> HIDE DEF B
    <3> QED BY <2>1, <3>1, NatMin
  <2>3. k \in 0 .. n /\ k \in Nat /\ f[k] # Words(s, k)
    BY <1>1
  <2>4. f[k] = Says(s, f, k)
    BY ONLY <1>4, <2>3, SayingAt, SMTT(20)
  <2>5. k # 0
    BY <1>1, <2>3, <2>4 DEF Says
  <2>6. k - 1 \in Nat /\ k - 1 <= n /\ ~(k <= k - 1) /\ k \in 1 .. n
    BY <1>1, <2>3, <2>5
  <2>7. f[k - 1] = Words(s, k - 1)
    BY <2>2, <2>6
  <2>8. Says(s, f, k) = f[k - 1] \o Spoken(s[k])
    BY <2>5, Zenon DEF Says
  <2>9. Words(s, k) = Words(s, k - 1) \o Spoken(s[k])
    BY <1>2, <2>6
  <2> QED BY <2>3, <2>4, <2>7, <2>8, <2>9, Zenon
<1> HIDE DEF g
<1>5. (\E f : Saying(s, n, f)) /\ \A f : Saying(s, n, f) => f[n] = Words(s, n)
  BY <1>3, <1>4
<1> QED BY <1>5 DEF n

\* Of a request, what is said: the system instruction, if there is one, and
\* then one message for each of the conversation.
LEMMA PayloadIs ==
    ASSUME NEW r, r \in RequestT, r.messages \in Seq(SpeakT),
           NEW first,
           first = [id |-> 0, role |-> "system", content |-> r.system, fixed |-> 0, shape |-> "flat"]
    PROVE  ToOpenAI(r) =
            [messages |->
                (IF r.system > 0 /\ ~ \E i \in DOMAIN r.messages : r.messages[i].role = "system"
                 THEN <<first>> ELSE <<>>) \o Words(r.messages, Len(r.messages)),
             tools |-> r.tools, prose |-> r.prose]
<1> DEFINE s == r.messages
           head == IF r.system > 0 /\ ~ \E i \in DOMAIN r.messages : r.messages[i].role = "system"
                   THEN <<first>> ELSE <<>>
<1>1. \E f : Saying(s, Len(s), f)
  BY SayingWords, Zenon
<1>2. PICK f : /\ Saying(s, Len(s), f)
               /\ ToOpenAI(r) = [messages |-> head \o f[Len(s)], tools |-> r.tools, prose |-> r.prose]
  BY <1>1, Zenon DEF Saying, Says, ToOpenAI
<1>3. f[Len(s)] = Words(s, Len(s))
  BY <1>2, SayingWords, ZenonT(30)
<1> QED BY <1>2, <1>3, Zenon

\* The messages before the root objective in a prompt.
Lead(r) == IF r.system > 0 THEN 1 ELSE 0

LEMMA SaidAs ==
    ASSUME NEW r, r \in RequestT, NEW lead, NEW n, NEW text, Adapted(r.messages, lead, n, text),
           text > 0, lead = 1 => r.system > 0
    PROVE  /\ ToOpenAI(r) \in PayloadT
           /\ Framed(ToOpenAI(r).messages, Lead(r), n)
           /\ Len(ToOpenAI(r).messages) = Len(r.messages) + Lead(r) - lead
           /\ ToOpenAI(r).messages[Lead(r) + 1].content = text
<1> DEFINE s == r.messages
           w == Words(s, Len(s))
           first == [id |-> 0, role |-> "system", content |-> r.system, fixed |-> 0,
                     shape |-> "flat"]
           own == \E i \in DOMAIN s : s[i].role = "system"
           said == (IF r.system > 0 /\ ~own THEN <<first>> ELSE <<>>) \o w
<1>1. /\ s \in Seq(SpeakT) /\ Framed(s, lead, n)
      /\ s[lead + 1].role = "user" /\ s[lead + 1].content = text
  BY Zenon DEF Adapted
<1>2. r.system \in Nat /\ r.tools \in Nat /\ r.prose \in Nat
  BY DEF RequestT
<1>3. Len(s) \in Nat /\ DOMAIN s = 1 .. Len(s)
  BY <1>1, SpeakSeq, SMTT(20)
<1>4. lead \in {0, 1} /\ lead + 1 <= Len(s) /\ n \in Nat
  BY <1>1, FramedLength, SMTT(20)
<1>5. \A i \in 1 .. Len(s) : s[i].role = "system" <=> i <= lead
  BY <1>1 DEF Framed
<1>6. own <=> lead = 1
  BY <1>3, <1>4, <1>5
<1>7. ToOpenAI(r) = [messages |-> said, tools |-> r.tools, prose |-> r.prose]
  BY <1>1, PayloadIs, ZenonT(30)
<1>8. \A i \in 1 .. Len(s) :
            /\ Word(s[i]) \in SaidT /\ Word(s[i]).id = s[i].id
            /\ Word(s[i]).role = "system" <=> s[i].role = "system"
            /\ s[i].role = "user" /\ s[i].content > 0 => Word(s[i]).content = s[i].content
  <2> TAKE i \in 1 .. Len(s)
  <2>1. s[i] \in SpeakT
    BY <1>1, SMTT(20)
  <2> QED BY <2>1, SpokenOnce, SMTT(20)
<1>9. w \in Seq(SaidT) /\ Len(w) = Len(s) /\ \A i \in 1 .. Len(s) : w[i] = Word(s[i])
  BY <1>3, <1>8, SMTT(20) DEF Words
<1> HIDE DEF w
<1>10. /\ \A i \in 1 .. Len(s) : w[i].id = s[i].id /\ (w[i].role = "system" <=> i <= lead)
       /\ w[lead + 1].content = text
  BY <1>1, <1>3, <1>4, <1>5, <1>8, <1>9, SMTT(20)
<1>11. PICK k \in 1 .. n : (k = 1 \/ k + 2 <= n) /\ Gap(s, lead, n, k)
  BY <1>1, ZenonT(30) DEF Framed, Cut
<1>12. /\ Len(s) = lead + 1 + n - k
       /\ \A i \in 1 .. Len(s) : s[i].id = IF i <= lead + 1 THEN i - lead ELSE i - lead - 1 + k
  BY <1>11 DEF Gap
<1>13. CASE lead = Lead(r)
  <2>1. ~(r.system > 0 /\ ~own)
    BY <1>4, <1>6, <1>13 DEF Lead
  <2>2. said = w
    <3>1. said = <<>> \o w
      BY <2>1, Zenon
    <3>2. <<>> \o w = w
      BY ONLY <1>9, SMTT(20)
    <3> QED BY <3>1, <3>2, Zenon
  <2> HIDE DEF said
  <2>3. Gap(w, lead, n, k)
    BY <1>9, <1>10, <1>12, ZenonT(30) DEF Gap
  <2>4. Framed(w, lead, n)
    BY <1>4, <1>9, <1>10, <1>11, <2>3, SMTT(20) DEF Framed, Cut
  <2>5. ToOpenAI(r) \in PayloadT /\ ToOpenAI(r).messages = w
    <3>1. ToOpenAI(r) = [messages |-> w, tools |-> r.tools, prose |-> r.prose]
      BY <1>7, <2>2, Zenon
    <3> QED BY <1>2, <1>9, <3>1, PayloadMade, ZenonT(30)
  <2>6. Len(w) = Len(s) + Lead(r) - lead
    BY ONLY <1>3, <1>4, <1>9, <1>13, SMTT(20)
  <2> QED BY <1>10, <1>13, <2>4, <2>5, <2>6, ZenonT(30)
<1>14. CASE lead # Lead(r)
  <2>1. lead = 0 /\ Lead(r) = 1 /\ r.system > 0 /\ ~own
    BY <1>2, <1>4, <1>6, <1>14 DEF Lead
  <2>2. said = <<first>> \o w
    BY <2>1, ZenonT(30)
  <2>3. first \in SaidT /\ first.id = 0 /\ first.role = "system"
    BY <1>2, SMTT(20) DEF SaidT, Shapes
  <2> HIDE DEF first, said
  <2>4. /\ said \in Seq(SaidT) /\ Len(said) = Len(s) + 1 /\ said[1] = first
        /\ \A i \in 1 .. Len(s) : said[i + 1] = w[i]
    BY <1>3, <1>9, <2>2, <2>3, SMTT(20)
  <2>5. ASSUME NEW i \in 1 .. Len(said)
        PROVE  /\ said[i].id = IF i <= 2 THEN i - 1 ELSE i - 1 - 1 + k
               /\ said[i].role = "system" <=> i <= 1
    <3>1. CASE i = 1
      BY <2>3, <2>4, <3>1, SMTT(20)
    <3>2. CASE i # 1
      <4>1. i - 1 \in 1 .. Len(s) /\ (i - 1) + 1 = i /\ i \in Nat /\ k \in Nat
        BY <1>3, <2>4, <3>2, SMTT(20)
      <4>2. said[i] = w[i - 1]
        BY <2>4, <4>1, SMTT(20)
      <4>3. s[i - 1].id = IF i - 1 <= 1 THEN i - 1 ELSE (i - 1) - 1 + k
        BY <1>12, <2>1, <4>1, SMTT(20)
      <4>4. w[i - 1].id = s[i - 1].id /\ ~(w[i - 1].role = "system")
        BY <1>10, <2>1, <4>1, SMTT(20)
      <4> QED BY <3>2, <4>1, <4>2, <4>3, <4>4, SMTT(20)
    <3> QED BY <3>1, <3>2, SMTT(20)
  <2>6. Gap(said, 1, n, k)
    BY <1>4, <1>12, <2>1, <2>4, <2>5, SMTT(20) DEF Gap
  <2>7. Framed(said, 1, n)
    BY <1>4, <1>11, <2>5, <2>6, SMTT(20) DEF Framed, Cut
  <2>8. said[2].content = text /\ Len(said) = Len(s) + 1 - 0
    BY <1>3, <1>4, <1>10, <2>1, <2>4, SMTT(20)
  <2>9. ToOpenAI(r) \in PayloadT /\ ToOpenAI(r).messages = said
    <3>1. said \in Seq(SaidT)
      BY <2>4, Zenon
    <3> QED BY ONLY <1>2, <1>7, <3>1, PayloadMade
  <2>10. Framed(ToOpenAI(r).messages, Lead(r), n)
    BY <2>1, <2>7, <2>9, ZenonT(30)
  <2>11. ToOpenAI(r).messages[Lead(r) + 1].content = text
    <3>1. Lead(r) + 1 = 2
      BY <2>1
    <3> QED BY <2>8, <2>9, <3>1, ZenonT(30)
  <2>12. Len(ToOpenAI(r).messages) = Len(r.messages) + Lead(r) - lead
    BY <2>1, <2>8, <2>9, ZenonT(30)
  <2> QED BY <2>9, <2>10, <2>11, <2>12, ZenonT(30)
<1> QED BY <1>13, <1>14, Zenon

-----------------------------------------------------------------------------
(* What the pruner leaves of it                                            *)

Prompted(p, lead, n) == p \in PayloadT /\ Framed(p.messages, lead, n)

\* Other texts in the same places.
LEMMA FramedCopy ==
    ASSUME NEW s, NEW lead, NEW n, Framed(s, lead, n), NEW t, Len(t) = Len(s),
           \A i \in 1 .. Len(s) : t[i].id = s[i].id /\ t[i].role = s[i].role
    PROVE  Framed(t, lead, n)
<1>1. PICK k \in 1 .. n : (k = 1 \/ k + 2 <= n) /\ Gap(s, lead, n, k)
  BY Zenon DEF Framed, Cut
<1>2. Gap(t, lead, n, k)
  BY <1>1, Zenon DEF Gap
<1>3. \A i \in 1 .. Len(t) : t[i].role = "system" <=> i <= lead
  BY Zenon DEF Framed
<1>4. lead \in {0, 1} /\ n \in Nat
  BY Zenon DEF Framed
<1> QED BY <1>1, <1>2, <1>3, <1>4, ZenonT(30) DEF Framed, Cut

\* A text m.content may become c.
Retold(m, t) == t \in SaidT /\ t.id = m.id /\ t.role = m.role

LEMMA TextReplaced ==
    ASSUME NEW m, m \in SaidT, NEW c, c \in Nat
    PROVE  Retold(m, [m EXCEPT !.content = c])
<1>1. [m EXCEPT !.content = c] \in SaidT
  BY Zenon DEF SaidT
<1>2. [m EXCEPT !.content = c].id = m.id /\ [m EXCEPT !.content = c].role = m.role
  BY DEF SaidT
<1> QED BY <1>1, <1>2, ZenonT(30) DEF Retold

LEMMA EachRetold ==
    ASSUME NEW p, NEW lead, NEW n, Prompted(p, lead, n), NEW f,
           f = [i \in DOMAIN p.messages |-> f[i]],
           \A i \in DOMAIN p.messages : Retold(p.messages[i], f[i])
    PROVE  Prompted([p EXCEPT !.messages = Each(f)], lead, n)
<1> DEFINE s == p.messages
           m == Len(s)
           t == Each(f)
<1>1. s \in Seq(SaidT) /\ Framed(s, lead, n) /\ p \in PayloadT
  BY DEF Prompted, PayloadT
<1>2. DOMAIN s = 1 .. m /\ m \in Nat
  BY <1>1
<1>3. f \in [1 .. m -> SaidT]
  <2> HIDE DEF m
  <2>1. \A i \in 1 .. m : f[i] \in SaidT
    BY <1>2, Zenon DEF Retold
  <2> QED BY <1>2, <2>1, Zenon
<1> HIDE DEF m
<1>4. t \in Seq(SaidT) /\ Len(t) = m /\ \A i \in 1 .. m : t[i] = f[i]
  BY ONLY <1>2, <1>3, EachType, ZenonT(30)
<1> HIDE DEF t
<1>5. \A i \in 1 .. m : t[i].id = s[i].id /\ t[i].role = s[i].role
  BY <1>2, <1>4, Zenon DEF Retold
<1>6. Framed(t, lead, n)
  BY <1>1, <1>4, <1>5, FramedCopy, Zenon DEF m
<1>7. [p EXCEPT !.messages = t] \in PayloadT /\ [p EXCEPT !.messages = t].messages = t
  BY <1>1, <1>4, SMTT(20) DEF PayloadT
<1> QED BY <1>6, <1>7, Zenon DEF Prompted, t

LEMMA ShortenKeeps ==
    ASSUME NEW p, NEW lead, NEW n, Prompted(p, lead, n), NEW range, NEW roles,
           NEW above \in Nat, NEW limit \in Nat
    PROVE  Prompted(Shorten(p, range, roles, above, limit), lead, n)
<1> DEFINE s == p.messages
           c(i) == Condensed(s[i].content, s[i].shape, above, limit)
           f == [i \in DOMAIN s |-> IF i \in range /\ s[i].role \in roles
                                    THEN [s[i] EXCEPT !.content = c(i)] ELSE s[i]]
<1>1. s \in Seq(SaidT)
  BY DEF Prompted, PayloadT
<1>2. Shorten(p, range, roles, above, limit) = [p EXCEPT !.messages = Each(f)]
  BY Zenon DEF Shorten
<1>3. ASSUME NEW i \in DOMAIN s
      PROVE  Retold(s[i], [s[i] EXCEPT !.content = c(i)]) /\ Retold(s[i], s[i])
  <2>1. s[i] \in SaidT
    BY <1>1
  <2>2. s[i].content \in Nat /\ s[i].shape \in Shapes
    BY <2>1 DEF SaidT
  <2>3. c(i) \in Nat
    BY <2>2, CondensedType, Zenon
  <2> HIDE DEF c
  <2> QED BY <2>1, <2>3, TextReplaced, Zenon DEF Retold
<1> HIDE DEF c
<1>4. \A i \in DOMAIN s : Retold(s[i], f[i])
  BY <1>3, Zenon
<1>5. f = [i \in DOMAIN s |-> f[i]]
  BY Zenon
<1> HIDE DEF f
<1>6. Prompted([p EXCEPT !.messages = Each(f)], lead, n)
  BY <1>4, <1>5, EachRetold, SMTT(20)
<1> QED BY <1>2, <1>6, Zenon

LEMMA KeptIs ==
    ASSUME NEW p, NEW lead, NEW n, Prompted(p, lead, n)
    PROVE  Kept(p) = lead + 1
<1> DEFINE s == p.messages
<1>1. s \in Seq(SaidT) /\ Framed(s, lead, n)
  BY DEF Prompted, PayloadT
<1>2. lead \in {0, 1} /\ lead + 1 <= Len(s) /\ Len(s) \in Nat
  BY <1>1, FramedLength
<1>3. s[1].role = "system" <=> 1 <= lead
  BY <1>1, <1>2 DEF Framed
<1> QED BY <1>2, <1>3 DEF Kept

LEMMA ShedKeeps ==
    ASSUME NEW p, NEW lead, NEW n, Prompted(p, lead, n), NEW tail \in Nat, tail >= 2, NEW target
    PROVE  Prompted(Shed(p, tail, target), lead, n)
<1> DEFINE s == p.messages
           most == Larger(lead + 1 + tail, Len(s)) - (lead + 1 + tail)
           left(i) == [p EXCEPT !.messages = Without(s, lead + 1, i)]
           T == {i \in 0 .. most : i = most \/ PayloadTokens(left(i)) <= target}
<1>1. s \in Seq(SaidT) /\ Framed(s, lead, n) /\ p \in PayloadT
  BY DEF Prompted, PayloadT
<1>2. Kept(p) = lead + 1
  BY KeptIs
<1>3. lead \in Nat /\ Len(s) \in Nat
  BY ONLY <1>1, FramedLength, SMTT(30)
<1>4. Shed(p, tail, target) = left(Min(T))
  BY <1>2 DEF Shed
<1>5. most \in Nat
  BY <1>3 DEF Larger
<1>6. ASSUME NEW i, i \in 0 .. most PROVE Prompted(left(i), lead, n)
  <2> DEFINE t == Without(s, lead + 1, i)
  <2>1. t \in Seq(SaidT) /\ Framed(t, lead, n)
    BY <1>1, <1>6, CutFurther, SMTT(30)
  <2>2. left(i) = [p EXCEPT !.messages = t]
    OBVIOUS
  <2> HIDE DEF t, left
  <2>3. left(i) \in PayloadT /\ left(i).messages = t
    BY <1>1, <2>1, <2>2 DEF PayloadT
  <2> QED BY <2>1, <2>3, SMTT(20) DEF Prompted
<1> HIDE DEF left
<1>7. T \subseteq Nat /\ T \subseteq 0 .. most /\ T # {}
  <2> HIDE DEF most
  <2>1. most \in T
    BY <1>5
  <2> QED BY <1>5, <2>1
<1> HIDE DEF T, most
<1>8. Min(T) \in 0 .. most
  BY <1>7, MinIsLeast, Zenon
<1> QED BY <1>4, <1>6, <1>8, SMTT(20)

LEMMA PruneKeeps ==
    ASSUME NEW p, NEW lead, NEW n, Prompted(p, lead, n), NEW context, NEW margin
    PROVE  Prompted(prune_openai_request(p, context, margin), lead, n)
<1> DEFINE Good(x) == Prompted(x, lead, n)
<1>1. PICK target : prune_openai_request(p, context, margin) \in
            {p, Few(p), Results(p), Six(p, target), Two(p, target), Terse(p, Two(p, target))}
  BY PruneStages, Zenon
<1>2. Good(Few(p))
  BY ShortenKeeps DEF Few
<1>3. Good(Older(p))
  BY ShortenKeeps DEF Older
<1>4. Good(Results(p))
  BY <1>3, ShortenKeeps DEF Results
<1>5. Good(Six(p, target))
  BY <1>4, ShedKeeps DEF Six
<1>6. Good(Four(p, target))
  BY <1>5, ShedKeeps DEF Four
<1>7. Good(Two(p, target))
  BY <1>6, ShedKeeps DEF Two
<1>8. Good(Terse(p, Two(p, target)))
  BY <1>7, ShortenKeeps DEF Terse
<1>9. Good(p)
  OBVIOUS
<1> HIDE DEF Good
<1>10. Good(prune_openai_request(p, context, margin))
  BY <1>1, <1>2, <1>4, <1>5, <1>7, <1>8, <1>9, ZenonT(30)
<1> QED BY <1>10, Zenon DEF Good

LEMMA GroqKeeps ==
    ASSUME NEW p, NEW lead, NEW n, Prompted(p, lead, n), NEW most
    PROVE  Prompted(prune_for_groq_tpm(p, most), lead, n)
<1> DEFINE Good(x) == Prompted(x, lead, n)
           described == CompactTools(p)
           condensed == CutSystem(described)
           told == CompactResults(condensed)
           kept == prune_openai_request(told, most, 150)
           least == Shed(CompactHarder(kept), 2, most)
<1>1. prune_for_groq_tpm(p, most) \in {p, described, condensed, told, kept, least}
  BY GroqStages, ZenonT(30)
<1>2. Good(described)
  <2>1. p \in PayloadT /\ Framed(p.messages, lead, n)
    BY DEF Prompted
  <2>2. Smaller(p.prose, 150) \in Nat
    BY <2>1 DEF Smaller, PayloadT
  <2>3. described \in PayloadT /\ described.messages = p.messages
    BY <2>1, <2>2 DEF PayloadT, CompactTools
  <2> QED BY <2>1, <2>3 DEF Prompted
<1> HIDE DEF described
<1>3. Good(condensed)
  <2> DEFINE s == described.messages
             long(i) == i = 1 /\ s[i].role = "system" /\ s[i].content > 1800
             f == [i \in DOMAIN s |->
                    IF long(i) THEN [s[i] EXCEPT !.content = SystemCut] ELSE s[i]]
  <2>1. s \in Seq(SaidT)
    BY <1>2 DEF Prompted, PayloadT
  <2>2. ASSUME NEW i \in DOMAIN s
        PROVE  Retold(s[i], [s[i] EXCEPT !.content = SystemCut]) /\ Retold(s[i], s[i])
    <3>1. s[i] \in SaidT
      BY <2>1
    <3>2. SystemCut \in Nat
      BY DEF SystemCut
    <3> QED BY <3>1, <3>2, TextReplaced, Zenon DEF Retold
  <2>3. condensed = [described EXCEPT !.messages = Each(f)]
    BY Zenon DEF CutSystem
  <2> HIDE DEF long
  <2>4. \A i \in DOMAIN s : Retold(s[i], f[i])
    BY <2>2, Zenon
  <2>5. f = [i \in DOMAIN s |-> f[i]]
    BY Zenon
  <2> HIDE DEF f
  <2>6. Prompted([described EXCEPT !.messages = Each(f)], lead, n)
    BY <1>2, <2>4, <2>5, EachRetold, SMTT(20)
  <2> QED BY <2>3, <2>6, Zenon
<1> HIDE DEF condensed
<1>4. Good(told)
  <2>1. Good(Shorten(condensed, DOMAIN condensed.messages, {"tool"}, 600, 500))
    BY <1>3, ShortenKeeps
  <2> QED BY <2>1, ShortenKeeps DEF CompactResults
<1> HIDE DEF told
<1>5. Good(kept)
  BY <1>4, PruneKeeps, ZenonT(30)
<1> HIDE DEF kept
<1>6. Good(CompactHarder(kept))
  BY <1>5, ShortenKeeps DEF CompactHarder
<1>7. Good(least)
  BY <1>6, ShedKeeps
<1>8. Good(p)
  OBVIOUS
<1> HIDE DEF least, Good
<1>9. Good(prune_for_groq_tpm(p, most))
  BY <1>1, <1>2, <1>3, <1>4, <1>5, <1>7, <1>8, ZenonT(30)
<1> QED BY <1>9, Zenon DEF Good

LEMMA PromptKeeps ==
    ASSUME NEW r, NEW lead, NEW n, Prompted(ToOpenAI(r), lead, n), NEW maxOutput,
           NEW family \in {"groq", "nvidia", "other"}
    PROVE  /\ Prompted(prepare_request(family, r, maxOutput).prompt, lead, n)
           /\ family = "other" => prepare_request(family, r, maxOutput).prompt = ToOpenAI(r)
<1> DEFINE few == 3800
           many == 16000
           margin == 500
           payload == ToOpenAI(r)
           out == Smaller(r.out, maxOutput)
           least == Smaller(out, 950)
<1>1. prepare_request(family, r, maxOutput) =
        CASE family = "groq" -> [prompt |-> prune_for_groq_tpm(payload, few), out |-> least]
          [] family = "nvidia" -> [prompt |-> prune_openai_request(payload, many, margin), out |-> out]
          [] family = "other" -> [prompt |-> payload, out |-> out]
  BY DEF prepare_request
<1> HIDE DEF few, many, margin, payload, out, least
<1>2. CASE family = "groq"
  <2>1. prepare_request(family, r, maxOutput).prompt = prune_for_groq_tpm(payload, few)
    BY <1>1, <1>2
  <2>2. Prompted(prune_for_groq_tpm(payload, few), lead, n)
    BY GroqKeeps DEF payload
  <2> QED BY <1>2, <2>1, <2>2, ZenonT(30)
<1>3. CASE family = "nvidia"
  <2>1. prepare_request(family, r, maxOutput).prompt = prune_openai_request(payload, many, margin)
    BY <1>1, <1>3
  <2>2. Prompted(prune_openai_request(payload, many, margin), lead, n)
    BY PruneKeeps DEF payload
  <2> QED BY <1>3, <2>1, <2>2, Zenon
<1>4. CASE family = "other"
  <2>1. prepare_request(family, r, maxOutput).prompt = payload
    BY <1>1, <1>4
  <2> QED BY <1>4, <2>1 DEF payload
<1> QED BY <1>2, <1>3, <1>4

-----------------------------------------------------------------------------
(* What is left is in order, and the oldest of the rest is what is missing *)

\* What OldestDroppedFirst says of the messages of a conversation and the
\* places of those that were sent.
DropsOldest(said, places) ==
    LET ids == {said[i].id : i \in DOMAIN said}
        kept == Range(places)
        final == {said[i].id : i \in {Len(said) - 1, Len(said)} \cap DOMAIN said}
    IN  /\ kept \subseteq ids
        /\ \A i \in ids \ kept :
            /\ i \notin {0, 1} \cup final
            /\ \A j \in ids : 1 < j /\ j < i => j \notin kept
        /\ \A i, j \in DOMAIN places : i < j => places[i] <= places[j]

LEMMA FramedDropsOldest ==
    ASSUME NEW said, said \in Seq(SaidT), NEW s, s \in Seq(SaidT), NEW lead, NEW n,
           Framed(said, lead, n), Len(said) = lead + n, Framed(s, lead, n)
    PROVE  DropsOldest(said, [i \in DOMAIN s |-> s[i].id])
<1> DEFINE places == [i \in DOMAIN s |-> s[i].id]
           ids == {said[i].id : i \in DOMAIN said}
           kept == Range(places)
           final == {said[i].id : i \in {Len(said) - 1, Len(said)} \cap DOMAIN said}
<1>0. Len(said) = lead + n
  OBVIOUS
<1>1. lead \in {0, 1} /\ n \in Nat /\ n >= 1
  BY FramedLength
<1>2. DOMAIN said = 1 .. lead + n /\ \A i \in 1 .. lead + n : said[i].id = i - lead
  <2>1. PICK k \in 1 .. n : Gap(said, lead, n, k)
    BY Zenon DEF Framed, Cut
  <2>2. k = 1
    BY <1>1, <2>1 DEF Gap
  <2> QED BY <1>1, <2>1, <2>2, SMTT(30) DEF Gap
<1>3. PICK k \in 1 .. n : (k = 1 \/ k + 2 <= n) /\ Gap(s, lead, n, k)
  BY Zenon DEF Framed, Cut
<1> DEFINE m == lead + 1 + n - k
<1>4. DOMAIN s = 1 .. m /\ m \in Nat
  BY <1>1, <1>3, SMTT(20) DEF Gap
<1>5. \A i \in 1 .. m : s[i].id = IF i <= lead + 1 THEN i - lead ELSE i - lead - 1 + k
  BY <1>3 DEF Gap
<1>6. DOMAIN places = 1 .. m /\ \A i \in 1 .. m : places[i] = s[i].id
  BY <1>4, SMTT(20)
<1>7. \A x : x \in ids <=> x \in 1 - lead .. n
  <2>1. ASSUME NEW x, x \in ids PROVE x \in 1 - lead .. n
    <3>1. PICK i \in 1 .. lead + n : x = said[i].id
      BY <1>2, <2>1, SMTT(20)
    <3> QED BY ONLY <1>1, <1>2, <3>1, SMTT(20)
  <2>2. ASSUME NEW x, x \in 1 - lead .. n PROVE x \in ids
    <3>1. x + lead \in 1 .. lead + n /\ (x + lead) - lead = x
      BY <1>1, <2>2
    <3>2. said[x + lead].id = x
      BY <1>2, <3>1, SMTT(20)
    <3> QED BY <1>2, <3>1, <3>2, SMTT(30)
  <2> QED BY <2>1, <2>2, SMTT(20)
<1>8. \A x : x \in kept <=> x \in 1 - lead .. 1 \/ x \in k + 1 .. n
  <2>1. ASSUME NEW x, x \in kept PROVE x \in 1 - lead .. 1 \/ x \in k + 1 .. n
    <3>1. PICK i \in 1 .. m : x = s[i].id
      BY <1>6, <2>1, SMTT(20) DEF Range
    <3>2. x = IF i <= lead + 1 THEN i - lead ELSE i - lead - 1 + k
      BY <1>5, <3>1, SMTT(30)
    <3>3. i \in Nat /\ 1 <= i /\ i <= lead + 1 + n - k /\ k \in Nat /\ k <= n
      BY <1>1, <1>3, <1>4, SMTT(20)
    <3>4. CASE i <= lead + 1
      BY <1>1, <3>2, <3>3, <3>4, SMTT(20)
    <3>5. CASE ~(i <= lead + 1)
      BY <1>1, <3>2, <3>3, <3>5, SMTT(20)
    <3> QED BY <3>4, <3>5, SMTT(20)
  <2>2. ASSUME NEW x, x \in 1 - lead .. 1 PROVE x \in kept
    <3>1. x + lead \in 1 .. m /\ x + lead <= lead + 1 /\ (x + lead) - lead = x
      BY <1>1, <1>3, <2>2, SMTT(20)
    <3>2. places[x + lead] = x
      BY <1>5, <1>6, <3>1, SMTT(20)
    <3> QED BY <1>6, <3>1, <3>2, SMTT(20) DEF Range
  <2>3. ASSUME NEW x, x \in k + 1 .. n PROVE x \in kept
    <3> DEFINE i == x - k + lead + 1
    <3>1. i \in 1 .. m /\ ~(i <= lead + 1) /\ i - lead - 1 + k = x
      BY <1>1, <1>3, <2>3, SMTT(20)
    <3> HIDE DEF i
    <3>2. places[i] = x
      BY <1>5, <1>6, <3>1, SMTT(20)
    <3> QED BY <1>6, <3>1, <3>2, SMTT(20) DEF Range
  <2> QED BY <2>1, <2>2, <2>3, SMTT(20)
<1>9. final \subseteq {n - 1, n}
  <2>1. ASSUME NEW i \in {Len(said) - 1, Len(said)} \cap DOMAIN said
        PROVE  said[i].id \in {n - 1, n}
    <3>1. i \in 1 .. lead + n /\ (i = Len(said) - 1 \/ i = Len(said))
      BY <1>2, Zenon
    <3>2. i = lead + n - 1 \/ i = lead + n
      BY ONLY <1>0, <1>1, <3>1, SMTT(20)
    <3> QED BY <1>1, <1>2, <3>1, <3>2
  <2> QED BY <2>1, SMTT(20)
<1>10. \A i, j \in 1 .. m : i < j => places[i] <= places[j]
  <2> SUFFICES ASSUME NEW i \in 1 .. m, NEW j \in 1 .. m PROVE i < j => places[i] <= places[j]
    BY Zenon
  <2>1. /\ places[i] = IF i <= lead + 1 THEN i - lead ELSE i - lead - 1 + k
        /\ places[j] = IF j <= lead + 1 THEN j - lead ELSE j - lead - 1 + k
    BY <1>5, <1>6, SMTT(20)
  <2> HIDE DEF places, m
  <2> QED BY <1>1, <1>3, <1>4, <2>1, SMTT(20)
<1> HIDE DEF ids, kept, final, places, m
<1>11. kept \subseteq ids
  BY <1>1, <1>3, <1>7, <1>8, SMTT(20)
<1>12. ASSUME NEW i \in ids \ kept
       PROVE  i \notin {0, 1} \cup final /\ \A j \in ids : 1 < j /\ j < i => j \notin kept
  <2>1. i \in 2 .. k /\ k + 2 <= n /\ n \in Nat /\ k \in Nat
    BY <1>1, <1>3, <1>7, <1>8, SMTT(20)
  <2>2. i \notin {0, 1} \cup final
    BY <1>9, <2>1
  <2>3. ASSUME NEW j \in ids, 1 < j /\ j < i PROVE j \notin kept
    BY <1>1, <1>7, <1>8, <2>1, <2>3, SMTT(20)
  <2> QED BY <2>2, <2>3
<1>13. \A i, j \in DOMAIN places : i < j => places[i] <= places[j]
  BY <1>6, <1>10
<1> QED BY <1>11, <1>12, <1>13, Zenon DEF DropsOldest, ids, kept, final, places

LEMMA RootPlace ==
    ASSUME NEW S, NEW s, s \in Seq(S), NEW lead, NEW n, Framed(s, lead, n)
    PROVE  /\ lead + 1 \in DOMAIN s
           /\ {j \in DOMAIN s : s[j].id = 1} = {lead + 1}
<1>1. lead \in {0, 1} /\ lead + 1 <= Len(s) /\ n \in Nat /\ Len(s) \in Nat
  BY FramedLength, SMTT(20)
<1>2. PICK k \in 1 .. n : Gap(s, lead, n, k)
  BY Zenon DEF Framed, Cut
<1>3. \A i \in 1 .. Len(s) : s[i].id = IF i <= lead + 1 THEN i - lead ELSE i - lead - 1 + k
  BY <1>2 DEF Gap
<1>4. \A i \in 1 .. Len(s) : s[i].id = 1 <=> i = lead + 1
  BY <1>1, <1>3
<1>5. lead + 1 \in DOMAIN s
  BY <1>1, SMTT(20)
<1> QED BY <1>1, <1>4, <1>5

\* A client's turns, with or without the system message before them, are a whole conversation.
LEMMA TurnsAdapted ==
    ASSUME NEW t, t \in Seq(SpeakT), t # <<>>, t[1].role = "user",
           \A i \in 1 .. Len(t) : t[i].id = i /\ t[i].role # "system"
    PROVE  /\ Adapted(t, 0, Len(t), t[1].content)
           /\ \A m \in SpeakT : m.id = 0 /\ m.role = "system" =>
                /\ Adapted(<<m>> \o t, 1, Len(t), t[1].content)
                /\ Len(<<m>> \o t) = 1 + Len(t)
<1> DEFINE n == Len(t)
<1>1. n \in Nat /\ n >= 1 /\ DOMAIN t = 1 .. n
  OBVIOUS
<1>2. Adapted(t, 0, n, t[1].content)
  <2>1. Gap(t, 0, n, 1)
    BY <1>1 DEF Gap
  <2>2. Framed(t, 0, n)
    BY <1>1, <2>1, SMTT(20) DEF Framed, Cut
  <2> QED BY <2>2 DEF Adapted
<1>3. ASSUME NEW m \in SpeakT, m.id = 0, m.role = "system"
      PROVE  Adapted(<<m>> \o t, 1, n, t[1].content) /\ Len(<<m>> \o t) = 1 + n
  <2> DEFINE s == <<m>> \o t
  <2>1. /\ s \in Seq(SpeakT) /\ Len(s) = 1 + n /\ s[1] = m
        /\ \A i \in 1 .. n : s[i + 1] = t[i]
    BY <1>1
  <2> HIDE DEF s
  <2>2. ASSUME NEW i \in 1 .. Len(s)
        PROVE  s[i].id = i - 1 /\ (s[i].role = "system" <=> i <= 1)
    <3>1. CASE i = 1
      BY <1>3, <2>1, <3>1, SMTT(20)
    <3>2. CASE i # 1
      <4>1. i - 1 \in 1 .. n /\ (i - 1) + 1 = i /\ i \in Nat /\ ~(i <= 1)
        BY <1>1, <2>1, <3>2, SMTT(20)
      <4>2. s[i] = t[i - 1]
        BY <2>1, <4>1, Zenon
      <4> QED BY <4>1, <4>2, Zenon
    <3> QED BY <3>1, <3>2, Zenon
  <2>3. Gap(s, 1, n, 1)
    BY <1>1, <2>1, <2>2, SMTT(20) DEF Gap
  <2>4. Framed(s, 1, n)
    BY <1>1, <2>2, <2>3, SMTT(20) DEF Framed, Cut
  <2>5. s[2] = t[1]
    BY <1>1, <2>1
  <2> QED BY <2>1, <2>4, <2>5, SMTT(20) DEF Adapted, s
<1> QED BY <1>2, <1>3, ZenonT(30)

=============================================================================
