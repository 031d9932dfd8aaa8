--------------------------- MODULE FailureClassifier ---------------------------
(***************************************************************************)
(* classify_failure (classifier.py): what the gateway makes of a refusal.  *)
(*                                                                         *)
(* A refusal is its status code, NoCode if it has none, and the set of     *)
(* marks found in its text.  A mark stands for one of the pattern lists of *)
(* the classifier, or for one of the phrases its rules look for:           *)
(*   ssl, outputCap, overflow, billing, upstream, deprecated, badTool,     *)
(*   schema and waf are pattern lists, badKey and badSyntax the two halves *)
(*   of the one for client faults;                                         *)
(*   tpm is `tokens per minute' or `tpm', limit is `limit' or `rate',      *)
(*   over is `limit N ... requested M' with M > N, named the same with a   *)
(*   limit that parse_input_tpm_limit can read; the rest are phrases.      *)
(* The rules are tried in order and the first that applies decides.  Every *)
(* verdict allows a fallback; delays are left out.                         *)
(***************************************************************************)
EXTENDS Naturals, Sequences, FiniteSetsExt

NoCode == 0

Marks == {"ssl", "refused", "outputCap", "empty", "tooLarge", "over", "named", "tpm", "tryAgain",
          "limit", "overflow", "freePerDay", "billing", "upstream", "deprecated", "badTool",
          "schema", "badKey", "badSyntax", "forbidden", "waf", "overloaded", "timeout"}

Reasons == {"ssl_cert_verification", "connection_refused", "output_cap_exceeded",
            "empty_completion", "payload_too_large", "rate_limit", "upstream_rate_limit",
            "billing", "model_not_found", "malformed_tool_call", "schema_incompatible", "auth",
            "waf_blocked", "overloaded", "server_error", "timeout", "client_error", "unknown"}

\* FailureClassification: whether the same endpoint is worth another attempt,
\* whether the failure counts against the provider's health, and whether it
\* will ever go away.
Verdict(reason, retryable, poisons, permanent) ==
    [reason |-> reason, retryable |-> retryable, poisons |-> poisons, permanent |-> permanent]

Verdicts == [reason : Reasons, retryable : BOOLEAN, poisons : BOOLEAN, permanent : BOOLEAN]

Finds(text, marks) == text \cap marks # {}

-----------------------------------------------------------------------------
(* The rules, as pairs of a condition and a verdict.                       *)

\* Rules 1 to 3b: the connection, the output cap and an empty body.
TransportRules(code, text) == <<
    <<"ssl" \in text, Verdict("ssl_cert_verification", FALSE, TRUE, FALSE)>>,
    <<"refused" \in text, Verdict("connection_refused", FALSE, TRUE, FALSE)>>,
    <<code \in {400, 429, NoCode} /\ "outputCap" \in text,
      Verdict("output_cap_exceeded", TRUE, FALSE, FALSE)>>,
    <<"empty" \in text, Verdict("empty_completion", TRUE, FALSE, FALSE)>> >>

\* Rule 3c: the prompt alone exceeds the tokens-per-minute ceiling.
OversizedTpm(text) ==
    \/ "over" \in text
    \/ "tooLarge" \in text /\ Finds(text, {"tpm", "named"})

\* Rules 3c, 3d and 4: a prompt that is too long, against a limit on the rate.
SizeRules(code, text) == <<
    <<OversizedTpm(text) /\ ("tryAgain" \in text => "over" \in text),
      Verdict("payload_too_large", FALSE, FALSE, FALSE)>>,
    <<Finds(text, {"tpm", "tryAgain"}) /\ ("limit" \in text \/ code \in {413, 429}),
      Verdict("rate_limit", TRUE, TRUE, FALSE)>>,
    <<code = 413 \/ "overflow" \in text, Verdict("payload_too_large", FALSE, FALSE, FALSE)>> >>

\* Mutated: the rule for 402 and billing words comes before the one for the
\* daily allowance of free models, whose text also names credits.
QuotaRulesBillingFirst(code, text) == <<
    <<code = 402 \/ "billing" \in text, Verdict("billing", FALSE, TRUE, TRUE)>>,
    <<"freePerDay" \in text, Verdict("billing", FALSE, FALSE, FALSE)>>,
    <<code = 429 \/ "tpm" \in text,
      Verdict(IF "upstream" \in text THEN "upstream_rate_limit" ELSE "rate_limit",
              TRUE, TRUE, FALSE)>> >>

\* Rules 4a, 4b and 5: the daily allowance, the account's money, the rate.
QuotaRules(code, text) == <<
    <<"freePerDay" \in text, Verdict("billing", FALSE, FALSE, FALSE)>>,
    <<code = 402 \/ "billing" \in text, Verdict("billing", FALSE, TRUE, TRUE)>>,
    <<code = 429 \/ "tpm" \in text,
      Verdict(IF "upstream" \in text THEN "upstream_rate_limit" ELSE "rate_limit",
              TRUE, TRUE, FALSE)>> >>

\* Rules 6 to 8: the model is gone, or it and the request do not suit.
ModelRules(code, text) == <<
    <<\/ code \in {404, 410}
      \/ code = 400 /\ "deprecated" \in text,
      Verdict("model_not_found", FALSE, FALSE, TRUE)>>,
    <<"badTool" \in text, Verdict("malformed_tool_call", FALSE, FALSE, FALSE)>>,
    <<code = 400 /\ "schema" \in text, Verdict("schema_incompatible", FALSE, FALSE, FALSE)>> >>

\* Rules 9 and 10: credentials, and a firewall in front of the provider.
AccessRules(code, text) == <<
    <<code \in {401, 403} \/ Finds(text, {"forbidden", "badKey", "badSyntax"}),
      Verdict("auth", FALSE, FALSE,
              code \in {401, 403} \/ Finds(text, {"forbidden", "badKey"}))>>,
    <<"waf" \in text, Verdict("waf_blocked", FALSE, TRUE, FALSE)>> >>

\* Mutated: the last rule also takes what the rule for other 4xx should.
ProviderRulesNoClientError(code, text) == <<
    <<code \in {408, 500, 502, 503, 504, 529} \/ "overloaded" \in text,
      Verdict(IF code \in {503, 529} \/ "overloaded" \in text THEN "overloaded"
              ELSE "server_error", TRUE, TRUE, FALSE)>>,
    <<"timeout" \in text, Verdict("timeout", TRUE, TRUE, FALSE)>>,
    <<TRUE, Verdict("unknown", TRUE, TRUE, FALSE)>> >>

\* Rules 11 and 12, any other 4xx, and the rest.
ProviderRules(code, text) == <<
    <<code \in {408, 500, 502, 503, 504, 529} \/ "overloaded" \in text,
      Verdict(IF code \in {503, 529} \/ "overloaded" \in text THEN "overloaded"
              ELSE "server_error", TRUE, TRUE, FALSE)>>,
    <<"timeout" \in text, Verdict("timeout", TRUE, TRUE, FALSE)>>,
    <<code \in 400 .. 499, Verdict("client_error", FALSE, FALSE, FALSE)>>,
    <<TRUE, Verdict("unknown", TRUE, TRUE, FALSE)>> >>

classify_failure(code, text) ==
    LET rules == TransportRules(code, text) \o SizeRules(code, text) \o QuotaRules(code, text)
                    \o ModelRules(code, text) \o AccessRules(code, text)
                    \o ProviderRules(code, text)
    IN  rules[Min({i \in DOMAIN rules : rules[i][1]})][2]

-----------------------------------------------------------------------------
(* What providers say.                                                     *)

Refusal(code, text) == [code |-> code, text |-> text]

\* The refusals of each cause: the status and the marks of the error bodies in
\* the repository's tests and in the comments of the classifier.
Refusals(cause) ==
    CASE cause = "tooLarge" -> {Refusal(413, {"tooLarge", "over", "named", "tpm", "limit"}),
                                Refusal(400, {"overflow", "schema"}), Refusal(413, {})}
      [] cause = "outputCap" -> {Refusal(400, {"outputCap", "schema"}),
                                 Refusal(429, {"outputCap", "tpm", "limit"})}
      [] cause = "rate" -> {Refusal(429, {"limit"}), Refusal(429, {"upstream"}),
                            Refusal(429, {"limit", "tpm", "tryAgain", "billing"})}
      [] cause = "daily" -> {Refusal(429, {"limit", "freePerDay", "billing"})}
      [] cause = "unpaid" -> {Refusal(402, {}), Refusal(429, {"billing"})}
      [] cause = "gone" -> {Refusal(404, {}), Refusal(410, {}),
                            Refusal(400, {"deprecated", "schema"})}
      [] cause = "credentials" -> {Refusal(401, {"badKey"}), Refusal(400, {"badKey"})}
      [] cause = "blocked" -> {Refusal(403, {"waf"}), Refusal(503, {"waf"})}
      [] cause = "badRequest" -> {Refusal(400, {"schema"}), Refusal(422, {}),
                                  Refusal(400, {"badSyntax"})}
      [] cause = "outage" -> {Refusal(500, {}), Refusal(529, {"overloaded"}),
                              Refusal(504, {"timeout"}), Refusal(502, {"refused"}),
                              Refusal(502, {"ssl"})}

=============================================================================
