--------------------------- MODULE ProviderErrors ---------------------------
(***************************************************************************)
(* The error taxonomy of internal/providers/errors.go: the types a         *)
(* ProviderError may have, the predicates the router asks of them, and     *)
(* ClassifyHTTPError, which picks the type for an upstream HTTP answer.    *)
(*                                                                         *)
(* A message is a record of what the classification reads in it: which     *)
(* rule texts it contains, whether it is empty, and whether it complains   *)
(* of a tool schema.                                                       *)
(***************************************************************************)
EXTENDS Integers, Sequences, SequencesExt

ErrorTypes ==
    {"ErrRetryable", "ErrNonRetryable", "ErrQuotaExhausted",
     "ErrProviderUnauthorized", "ErrAuthExpiredRefreshable",
     "ErrAuthInvalid", "ErrRateLimited", "ErrInvalidRequest",
     "ErrInvalidToolSchema", "ErrProviderUnavailable",
     "ErrInvalidUpstreamResponse", "ErrUnsupportedModel", "ErrModelLocked"}

(* An error that is not a ProviderError, such as the router's own          *)
(* "context cancelled": errors.As finds nothing in it.                     *)
PlainError == "plain"

IsRetryable(e) ==
    e \in {"ErrRetryable", "ErrQuotaExhausted", "ErrRateLimited",
           "ErrAuthExpiredRefreshable", "ErrProviderUnavailable"}

IsQuotaExhausted(e) == e \in {"ErrQuotaExhausted", "ErrRateLimited"}

IsAuthFailure(e) ==
    e \in {"ErrProviderUnauthorized", "ErrAuthExpiredRefreshable",
           "ErrAuthInvalid"}

IsUnsupportedModel(e) == e = "ErrUnsupportedModel"

-----------------------------------------------------------------------------
(* A message contains the texts of `has` and is empty iff `empty`.         *)

classifyBadRequest(message) ==
    IF message.toolSchema THEN "ErrInvalidToolSchema" ELSE "ErrInvalidRequest"

RuleType(rule) == IF rule.backoff THEN "ErrRetryable" ELSE "ErrNonRetryable"

DefaultType(status, message) ==
    CASE status = 429 -> "ErrRateLimited"
      [] status = 503 -> "ErrProviderUnavailable"
      [] status \in {502, 504} -> "ErrRetryable"
      [] status = 401 -> "ErrAuthExpiredRefreshable"
      [] status = 403 -> "ErrAuthInvalid"
      [] status = 400 -> classifyBadRequest(message)
      [] status = 404 -> "ErrUnsupportedModel"
      [] status >= 500 /\ status \notin {502, 503, 504} -> "ErrRetryable"
      [] OTHER -> "ErrNonRetryable"

(* Status rules are consulted first, then text rules, then the defaults.   *)
ClassifyHTTPError(status, message, errorConfig) ==
    LET byStatus == SelectInSeq(errorConfig.statusRules,
                                LAMBDA rule : rule.status = status)
        byText == SelectInSeq(errorConfig.textRules,
                              LAMBDA rule : ~message.empty /\ rule.text \in message.has)
    IN  CASE byStatus > 0 -> RuleType(errorConfig.statusRules[byStatus])
          [] byStatus = 0 /\ byText > 0 -> RuleType(errorConfig.textRules[byText])
          [] OTHER -> DefaultType(status, message)

-----------------------------------------------------------------------------
(* An answer of an upstream is [status, message, parses]; status 0 stands  *)
(* for no answer at all: a network error or a cancelled context.           *)

OK == 200
NoMessage == [empty |-> TRUE, has |-> {}, toolSchema |-> FALSE]
NoAnswer == [status |-> 0, message |-> NoMessage, parses |-> FALSE]

(* What OpenAIAdapter makes of it: the type of its error, or "none".  Only *)
(* the body of an answer that is not streamed is parsed here.              *)
AnswerError(answer, stream, errorConfig) ==
    CASE answer.status = 0 -> "ErrRetryable"
      [] answer.status = OK /\ ~answer.parses /\ ~stream ->
           "ErrInvalidUpstreamResponse"
      [] answer.status = OK /\ (answer.parses \/ stream) -> "none"
      [] OTHER ->
           ClassifyHTTPError(answer.status, answer.message, errorConfig)

=============================================================================
