----------------------------- MODULE VendorCall -----------------------------
(***************************************************************************)
(* One outbound call to the KYC vendor: doRequest of the HTTP client       *)
(* (internal/vendor_http.go) inside doWithRetry (internal/retry.go), or    *)
(* doJSON of the Onfido client (internal/vendor_onfido.go), which makes a  *)
(* single attempt.  The vendor and the network are external: an attempt    *)
(* gets a 2xx, a status retryableStatus accepts, another 4xx, or an error. *)
(* The caller's context may be cancelled at any time.  Delays are left     *)
(* out: a backoff ends.                                                    *)
(***************************************************************************)
EXTENDS Naturals, Sequences

CONSTANTS
  Clients,     \* the clients in use: "http", "onfido"
  maxAttempts  \* VENDOR_MAX_ATTEMPTS

ASSUME ClientsAssumption == Clients \subseteq {"http", "onfido"}
ASSUME AttemptsAssumption == maxAttempts \in Nat \ {0}

VARIABLES
  client,     \* the client that makes the call
  pc,         \* the step of the call
  reader,     \* the bytes.Reader all attempts share; "none" for a GET
  answers,    \* what each attempt so far came to
  sent,       \* external: the body each attempt carried
  respBody,   \* the body of the last response
  cancelled,  \* whether the context is done
  result      \* what the caller gets

callVars == <<client, pc, reader, answers, sent, respBody, cancelled, result>>

Answers == {"ok", "refused", "retryable", "error"}

CallInit ==
  /\ client \in Clients
  /\ pc = IF client = "http" THEN "check" ELSE "send"
  /\ reader \in {"none", "full"}
  /\ answers = <<>>
  /\ sent = <<>>
  /\ respBody = "none"
  /\ cancelled = FALSE
  /\ result = "pending"

Last == answers[Len(answers)]

Return(r) == pc' = "done" /\ result' = r

-----------------------------------------------------------------------------
\* doWithRetry: ctx.Err before an attempt.
CheckContext ==
  /\ pc = "check"
  /\ IF cancelled THEN Return("error") ELSE pc' = "send" /\ UNCHANGED result
  /\ UNCHANGED <<client, reader, answers, sent, respBody, cancelled>>

\* A request is built over the reader and sent; the transport reads the body
\* unless it fails before.  A response comes with an open body.
Send ==
  /\ pc = "send"
  /\ sent' = Append(sent, reader)
  /\ \E answer \in Answers :
       /\ cancelled => answer = "error"
       /\ answers' = Append(answers, answer)
       /\ \/ answer = "error" /\ UNCHANGED reader
          \/ reader' = IF reader = "none" THEN "none" ELSE "drained"
       /\ respBody' = IF answer = "error" THEN "none" ELSE "open"
  /\ pc' = "inspect"
  /\ UNCHANGED <<client, cancelled, result>>

\* Mutant: a 408, a 429 or a 5xx is final.
RetryErrorsOnly(answer) == answer = "error"

\* retryableStatus, and any transport error.
MayRetry(answer) == answer \in {"retryable", "error"}

Capped == Len(answers) = maxAttempts

InspectFinal ==
  /\ client = "http" /\ pc = "inspect"
  /\ ~MayRetry(Last)
  /\ Return("response")
  /\ UNCHANGED <<client, reader, answers, sent, respBody, cancelled>>

\* The body of a response with a retryable status is closed, then the cap
\* decides whether that response or error is what the caller gets.
InspectRetry ==
  /\ client = "http" /\ pc = "inspect"
  /\ MayRetry(Last)
  /\ respBody' = IF Last = "error" THEN "none" ELSE "closed"
  /\ IF Capped
       THEN Return(IF Last = "error" THEN "error" ELSE "response")
       ELSE pc' = "backoff" /\ UNCHANGED result
  /\ UNCHANGED <<client, reader, answers, sent, cancelled>>

\* Mutant: an error status is returned with the body left open.
InspectOnfidoLeaks ==
  /\ client = "onfido" /\ pc = "inspect"
  /\ Return(IF Last = "ok" THEN "response" ELSE "error")
  /\ UNCHANGED <<client, reader, answers, sent, respBody, cancelled>>

\* doJSON: a status from 400 on is an error, and its body is read and closed.
InspectOnfido ==
  /\ client = "onfido" /\ pc = "inspect"
  /\ IF Last = "ok"
       THEN Return("response") /\ UNCHANGED respBody
       ELSE /\ Return("error")
            /\ respBody' = IF Last = "error" THEN "none" ELSE "closed"
  /\ UNCHANGED <<client, reader, answers, sent, cancelled>>

\* Mutant: the wait is not left.
BackoffStuck ==
  /\ pc = "backoff"
  /\ cancelled
  /\ Return("error")
  /\ UNCHANGED <<client, reader, answers, sent, respBody, cancelled>>

Backoff ==
  /\ pc = "backoff"
  /\ \/ cancelled /\ Return("error")
     \/ pc' = "check" /\ UNCHANGED result
  /\ UNCHANGED <<client, reader, answers, sent, respBody, cancelled>>

\* The environment: the client disconnects, or the request times out.
Cancel ==
  /\ ~cancelled
  /\ cancelled' = TRUE
  /\ UNCHANGED <<client, pc, reader, answers, sent, respBody, result>>

doWithRetry ==
  CheckContext \/ Send \/ InspectFinal \/ InspectRetry \/ InspectOnfido \/ Backoff

CallNext == doWithRetry \/ (pc # "done" /\ Cancel)

\* Every attempt ends (the HTTP client has a timeout) and every wait does.
CallSpec == CallInit /\ [][CallNext]_callVars /\ WF_callVars(doWithRetry)

-----------------------------------------------------------------------------
(* Properties.                                                             *)

\* The type of the call.
CallTypeOK ==
  /\ client \in Clients
  /\ pc \in {"check", "send", "inspect", "backoff", "done"}
  /\ reader \in {"none", "full", "drained"}
  /\ answers \in Seq(Answers) /\ Len(answers) <= maxAttempts
  /\ sent \in Seq({"none", "full", "drained"}) /\ Len(sent) = Len(answers)
  /\ respBody \in {"none", "open", "closed"}
  /\ cancelled \in BOOLEAN
  /\ result \in {"pending", "response", "error"}

\* README.md: a 4xx other than 408 and 429 "MUST NOT" be retried; nothing
\* follows a final answer, whatever came before it.
FinalAnswersNotRetried ==
  \A i \in 1 .. Len(answers) - 1 : answers[i] \in {"retryable", "error"}

\* README.md: failed vendor calls are retried up to "a max-attempts cap".  The
\* HTTP client gives up on a failure that may pass only there or when cancelled.
GivesUpAtTheCap ==
  (client = "http" /\ result # "pending" /\ answers # <<>>
     /\ Last \in {"retryable", "error"}) =>
    (Len(answers) = maxAttempts \/ cancelled)

\* doWithRetry and doJSON drop responses on several paths.  An open body is
\* still to be inspected or the caller's to close: no connection leaks.
NoBodyLeaked == respBody = "open" => (pc = "inspect" \/ result = "response")

\* The caller waits inside its HTTP handler: the call ends.
CallEnds == <>(result # "pending")

-----------------------------------------------------------------------------
(* What documentation and comments say and the code does not do.           *)

\* README.md: "non-2xx responses on idempotent endpoints MUST be retried"; the
\* Onfido client has one attempt.
EveryClientRetries ==
  (result # "pending" /\ answers # <<>> /\ Last \in {"retryable", "error"}) =>
    (Len(answers) = maxAttempts \/ cancelled)

\* doRequest "performs an HTTP request with retry": it is the same request.
AttemptsCarryTheBody == \A i \in 1 .. Len(sent) : sent[i] = sent[1]

\* doRequest: "The returned response body is NOT closed", after "exhausting
\* retries" too.
ReturnedBodyOpen == result = "response" => respBody = "open"
=============================================================================
