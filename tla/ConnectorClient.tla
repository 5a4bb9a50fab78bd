---------------------------- MODULE ConnectorClient ----------------------------
(***************************************************************************)
(* How one call of the REST rating engine can end (connectors/client.py    *)
(* with budget.py, security.py, registry.py and contract.py), and how its  *)
(* callers class an end (connectors/errors.py, impact/resilience.py).  A   *)
(* failure is its code; the control around it is in BatchPricing.          *)
(***************************************************************************)

\* select_connector: before anything is sent, and for every row alike.
SelectionFailures == {"CONNECTOR_NOT_REGISTERED", "CONNECTOR_ENGINE_VERSION_NOT_ALLOWED"}

\* Raised before the attempt loop: scheme, resolved addresses, batch size.
PreflightFailures ==
    {"CONNECTOR_INSECURE_SCHEME", "CONNECTOR_DNS_RESOLUTION_FAILED",
     "CONNECTOR_DESTINATION_FORBIDDEN", "CONNECTOR_BATCH_REQUEST_TOO_LARGE"}

\* TargetBudget.check, before every attempt.
BudgetExceeded == "CONNECTOR_TARGET_BUDGET_EXCEEDED"

\* _do_request: the token, the redirect, the size and the transport.
TransportFailures ==
    {"CONNECTOR_AUTH_UNAVAILABLE", "CONNECTOR_UNEXPECTED_REDIRECT",
     "CONNECTOR_RESPONSE_TOO_LARGE", "CONNECTOR_TIMEOUT", "CONNECTOR_TRANSPORT_ERROR"}

\* _raise_for_status.
StatusFailures ==
    {"CONNECTOR_AUTH_DENIED", "CONNECTOR_UPSTREAM_ERROR", "CONNECTOR_REQUEST_REJECTED",
     "CONNECTOR_UNEXPECTED_STATUS"}

\* _normalize_raw_response and _parse_response, strict schema included.
QuoteFailures ==
    {"CONNECTOR_MALFORMED_JSON", "CONNECTOR_OUTPUT_NOT_DECIMAL_STRING",
     "CONNECTOR_UNSUPPORTED_TRACE_NODE", "CONNECTOR_SCHEMA_VIOLATION",
     "CONNECTOR_REQUEST_ID_MISMATCH", "CONNECTOR_ENGINE_VERSION_MISMATCH",
     "CONNECTOR_INCOMPLETE_OUTPUT_BATCH"}

\* _parse_batch_response.
BatchFailures ==
    {"CONNECTOR_SCHEMA_VIOLATION", "CONNECTOR_REQUEST_ID_MISMATCH",
     "CONNECTOR_BATCH_ITEM_MISMATCH"}

AttemptFailures(batched) ==
    TransportFailures \cup StatusFailures
        \cup (IF batched THEN BatchFailures ELSE QuoteFailures)

\* ConnectorFailureCategory.RETRYABLE.  Inside the loop the client tries
\* again; the failed resolution is raised outside it.
RetryableCodes ==
    {"CONNECTOR_DNS_RESOLUTION_FAILED", "CONNECTOR_TIMEOUT", "CONNECTOR_TRANSPORT_ERROR",
     "CONNECTOR_UPSTREAM_ERROR"}

\* The batch prices the row again in its next attempt.
Transient(code) ==
    code \in RetryableCodes \cup {BudgetExceeded, "CONNECTOR_CIRCUIT_OPEN",
                                  "TEMPORARILY_UNAVAILABLE", "RATE_LIMITED"}

\* It will befall every row until somebody changes the configuration.
Systemic(code) ==
    code \in SelectionFailures
        \cup {"CONNECTOR_AUTH_DENIED", "CONNECTOR_AUTH_UNAVAILABLE",
              "CONNECTOR_ENGINE_VERSION_MISMATCH", "CONNECTOR_SCHEMA_VIOLATION",
              "CONNECTOR_UNEXPECTED_REDIRECT", "CONNECTOR_REQUEST_ID_MISMATCH"}
=============================================================================
