---------------------------- MODULE HttpRequest ----------------------------
(***************************************************************************)
(* What Connection::Get and Connection::Post promise to SFSClientImpl: one *)
(* operation at a time, a bounded number of attempts, another attempt only *)
(* after an answer worth retrying, and a result that reports the answer to *)
(* the last attempt.  How the operation drives libcurl is in module        *)
(* CurlConnection, which implements this one.                              *)
(***************************************************************************)
EXTENDS Integers

CONSTANTS
  c_maxRetries,    \* RequestParams.h: retries of an operation that may retry
  Statuses         \* the HTTP status codes the service can answer with

Unanswered == 0

IsSuccessfulSFSHttpCode(status) == status = 200

IsRetriableHttpError(status) == status \in {429, 500, 502, 503, 504}

HttpCodeToResult(status) ==
  CASE status = 200 -> "Success"
    [] status = 400 -> "HttpBadRequest"
    [] status = 404 -> "HttpNotFound"
    [] status = 405 -> "HttpMethodNotAllowed"
    [] status = 429 -> "HttpTooManyRequests"
    [] status = 503 -> "HttpServiceNotAvailable"
    [] OTHER        -> "HttpUnexpected"

HttpErrors ==
  {"HttpBadRequest", "HttpNotFound", "HttpMethodNotAllowed",
   "HttpTooManyRequests", "HttpServiceNotAvailable", "HttpUnexpected"}

\* Failures that are no answer of the service.  A ForeignException is one the
\* library did not create: it escapes from the user's logging callback, or from
\* std::stoi on a malformed test override.
LocalErrors ==
  {"InvalidArg", "ConnectionSetupFailed", "ConnectionUnexpectedError",
   "HttpTimeout", "ForeignException"}

Pending == "Pending"
Codes   == {Pending, "Success"} \cup HttpErrors \cup LocalErrors

VARIABLES
  maxRetries,  \* m_maxRetries of the connection, fixed when it is made
  busy,        \* an operation is running
  attempts,    \* requests sent by the operation
  last,        \* the status that answered the latest of them, or Unanswered
  outcome      \* the result of the latest operation: its code, and the
               \* attempts whose answers make up the body it returned

vars == <<maxRetries, busy, attempts, last, outcome>>

Outcome(code, body) == [code |-> code, body |-> body]

Init ==
  /\ maxRetries \in {0, c_maxRetries}
  /\ busy = FALSE
  /\ attempts = 0
  /\ last = Unanswered
  /\ outcome = Outcome(Pending, {})

(* An operation whose arguments are refused ends at once. *)
Refuse ==
  /\ ~busy
  /\ attempts' = 0
  /\ last' = Unanswered
  /\ \E code \in {"InvalidArg", "ForeignException"} : outcome' = Outcome(code, {})
  /\ UNCHANGED <<maxRetries, busy>>

Begin ==
  /\ ~busy
  /\ busy' = TRUE
  /\ attempts' = 0
  /\ last' = Unanswered
  /\ outcome' = Outcome(Pending, {})
  /\ UNCHANGED maxRetries

(* The first attempt, or another one because the answer was worth a retry. *)
Attempt ==
  /\ busy
  /\ attempts = 0 \/ IsRetriableHttpError(last)
  /\ attempts <= maxRetries
  /\ attempts' = attempts + 1
  /\ last' = Unanswered
  /\ UNCHANGED <<maxRetries, busy, outcome>>

Answer ==
  /\ busy
  /\ attempts > 0
  /\ last = Unanswered
  /\ last' \in Statuses
  /\ UNCHANGED <<maxRetries, busy, attempts, outcome>>

Succeed ==
  /\ busy
  /\ IsSuccessfulSFSHttpCode(last)
  /\ busy' = FALSE
  /\ \E body \in {{}, {attempts}} : outcome' = Outcome("Success", body)
  /\ UNCHANGED <<maxRetries, attempts, last>>

(* The service's refusal is final: not worth a retry, or no retry is left. *)
Reject ==
  /\ busy
  /\ last # Unanswered
  /\ ~IsSuccessfulSFSHttpCode(last)
  /\ IsRetriableHttpError(last) => attempts = 1 + maxRetries
  /\ busy' = FALSE
  /\ outcome' = Outcome(HttpCodeToResult(last), {})
  /\ UNCHANGED <<maxRetries, attempts, last>>

FailureCodes ==
  {"ForeignException"} \cup
  IF attempts = 0 THEN {"ConnectionSetupFailed"}
  ELSE IF last = Unanswered THEN {"HttpTimeout", "ConnectionUnexpectedError"}
  ELSE {"ConnectionUnexpectedError"}

Fail ==
  /\ busy
  /\ busy' = FALSE
  /\ \E code \in FailureCodes : outcome' = Outcome(code, {})
  /\ UNCHANGED <<maxRetries, attempts, last>>

Next == Refuse \/ Begin \/ Attempt \/ Answer \/ Succeed \/ Reject \/ Fail

SafeSpec == Init /\ [][Next]_vars

Spec == SafeSpec /\ WF_vars(Attempt \/ Answer \/ Succeed \/ Reject \/ Fail)

-----------------------------------------------------------------------------

TypeOK ==
  /\ maxRetries \in {0, c_maxRetries}
  /\ busy \in BOOLEAN
  /\ attempts \in 0 .. (1 + maxRetries)
  /\ last \in Statuses \cup {Unanswered}
  /\ outcome \in [code : Codes, body : SUBSET (1 .. (1 + maxRetries))]

=============================================================================
