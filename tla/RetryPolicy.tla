----------------------------- MODULE RetryPolicy -----------------------------
(***************************************************************************)
(* The pure failure classifier of the fenced vector-sync worker            *)
(* (memory/vector_sync_worker.rs).  A failed external call is described by *)
(* where it happened, whether its class is retryable, and what is known of *)
(* the request having left the process.  The individual error classes and  *)
(* codes are abstracted to "retryable" and "permanent"; the send evidence  *)
(* is kept, because the no-replay rules depend on it.                      *)
(***************************************************************************)
EXTENDS Integers

CONSTANTS
    MaxAttempts,    \* MAX_VECTOR_SYNC_ATTEMPTS: external attempts per mutation
    InitialRetry,   \* INITIAL_RETRY_MILLIS: delay after the first attempt
    MaxRetry        \* MAX_RETRY_MILLIS: ceiling of the delay

ASSUME MaxAttemptsAssumption == MaxAttempts \in Nat \ {0}
ASSUME RetryDelayAssumption ==
    /\ InitialRetry \in Nat
    /\ MaxRetry \in Nat
    /\ \A n \in 1 .. MaxAttempts : InitialRetry * 2^(n - 1) \in Nat

Actions == {"upsert", "delete"}

NoFailure == [source |-> "none", class |-> "none", safety |-> "none"]

\* Embedding errors: a retryable class with any send evidence, or a permanent
\* class that was either refused locally or answered by the provider.
EmbeddingFailures ==
    { [source |-> "embedding", class |-> "retryable", safety |-> "DefinitelyNotSent"],
      [source |-> "embedding", class |-> "retryable", safety |-> "PossiblySent"],
      [source |-> "embedding", class |-> "retryable", safety |-> "ResponseReceived"],
      [source |-> "embedding", class |-> "permanent", safety |-> "DefinitelyNotSent"],
      [source |-> "embedding", class |-> "permanent", safety |-> "ResponseReceived"] }

\* A malformed answer: wrong count, index or dimension of the vectors.
InvalidVector ==
    [source |-> "vector", class |-> "permanent", safety |-> "ResponseReceived"]

\* LanceTransient and LancePermanent; the worker always passes ResponseReceived.
LanceFailures ==
    { [source |-> "lance", class |-> "retryable", safety |-> "ResponseReceived"],
      [source |-> "lance", class |-> "permanent", safety |-> "ResponseReceived"] }

Failures == EmbeddingFailures \cup {InvalidVector} \cup LanceFailures

provider_result_unknown(f) ==
    f.source = "embedding" /\ f.safety = "PossiblySent"

retryable_error(f) == f.class = "retryable"

retry_disposition(f, attempts) ==
    CASE provider_result_unknown(f) -> "ProviderResultUnknown"
      [] ~provider_result_unknown(f)
           /\ (attempts >= MaxAttempts \/ ~retryable_error(f)) -> "Blocked"
      [] OTHER -> "Retryable"

stable_error_code(f) ==
    CASE provider_result_unknown(f) -> "PROVIDER_RESULT_UNKNOWN"
      [] ~provider_result_unknown(f) /\ retryable_error(f) -> "TRANSIENT"
      [] OTHER -> "PERMANENT"

\* Only an embedding failure can be proven unsent; every Lance call may have
\* taken effect.
send_disposition(f) ==
    IF f.source = "embedding" /\ f.safety = "DefinitelyNotSent"
    THEN "definitely_not_sent"
    ELSE "possibly_sent"

\* The RetryAfter branch of retry_delay_millis: 0 < attempts < MaxAttempts.
retry_delay(attempts) ==
    LET delay == InitialRetry * 2^(attempts - 1)
    IN  IF delay <= MaxRetry THEN delay ELSE MaxRetry

\* Whether finalize_failure asks for a scheduled retry.  A Delete that may have
\* been sent is never given one: RetryWait would be a replay permit.
schedules_retry(f, attempts, action) ==
    /\ ~(action = "delete" /\ send_disposition(f) = "possibly_sent")
    /\ retry_disposition(f, attempts) = "Retryable"
    /\ attempts \in 1 .. (MaxAttempts - 1)

=============================================================================
