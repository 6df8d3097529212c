---------------------------- MODULE ModelAdapter ----------------------------
(***************************************************************************)
(* One call of a language model, and the bounded repair of an answer that   *)
(* does not fit the schema.  An answer is a record: kind says what the      *)
(* transport brought back, and a body of kind "text" holds a verdict        *)
(* [valid, relation, rationale, tie].                                       *)
(***************************************************************************)
EXTENDS Naturals, Sequences

CONSTANT None

\* An HTTP error is a response like any other; redirects are not followed;
\* the rest raises TransportTimeoutError or TransportError.
send(answer) ==
    CASE answer.kind = "timeout" -> [raised |-> "timeout", status_code |-> 0]
      [] answer.kind = "unreachable" -> [raised |-> "error", status_code |-> 0]
      [] answer.kind = "http" -> [raised |-> None, status_code |-> answer.code]
      [] OTHER -> [raised |-> None, status_code |-> 200]

\* A response without usage counts is not recorded as one with zero tokens.
_extract_token_usage(answer) == answer.kind # "no_usage"

_extract_candidate_text(answer) == IF answer.kind = "text" THEN answer.verdict ELSE None

_parse_generate_content_response(answer) ==
    CASE ~_extract_token_usage(answer) \/ answer.kind \in {"garbled", "bad_candidate"} -> [status |-> "error", text |-> None]
      [] answer.kind \in {"blocked", "safety"} -> [status |-> "content_filtered", text |-> None]
      [] answer.kind \in {"no_candidates", "empty"} -> [status |-> "refused", text |-> None]
      [] OTHER -> [status |-> "completed", text |-> _extract_candidate_text(answer)]

\* Only raw_permitted keeps the text.
apply_redaction(policy, text) == IF policy = "raw_permitted" THEN text ELSE None

\* What came of one call: it never raises for what the provider did.
invoke(policy, answer) ==
    LET response == send(answer)
        parsed == _parse_generate_content_response(answer)
    IN  CASE response.raised = "timeout" -> [status |-> "timed_out", text |-> None]
          [] response.raised = "error" -> [status |-> "error", text |-> None]
          [] response.raised = None /\ response.status_code # 200 -> [status |-> "error", text |-> None]
          [] OTHER -> [parsed EXCEPT !.text = IF @ = None THEN None ELSE apply_redaction(policy, @)]

\* Failures keep their names.
_as_failure_status(status) == status

\* The state of the loop after `attempts` calls, the last of which had this
\* outcome: a status, or "repair" when a repair prompt is sent.
generate_structured(outcome, attempts, max_repair_attempts) ==
    CASE outcome.status # "completed" -> _as_failure_status(outcome.status)
      [] outcome.status = "completed" /\ outcome.text # None /\ outcome.text.valid -> "proposal"
      [] OTHER -> IF attempts <= max_repair_attempts THEN "repair" ELSE "schema_invalid"
=============================================================================
