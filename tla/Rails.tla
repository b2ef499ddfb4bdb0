--------------------------------- MODULE Rails ---------------------------------
(***************************************************************************)
(* How the two executors turn what a rail says into the three-state        *)
(* outcome, and what a rail says of a payment it has moved, declined, or   *)
(* not yet decided.  No state lives here.                                  *)
(***************************************************************************)
Statuses == {"success", "failure", "unknown"}
Fates    == {"moved", "declined", "open"}

\* HTTPRailExecutor: the class of the response's code, or none: a refused or
\* reset connection, ten seconds of silence, bytes that are no HTTP.  A redirect
\* is not followed, so its code is the answer.
HttpReplies == {"2xx", "3xx", "4xx", "5xx", "none"}

\* A mistake: what is not a decline is taken for success.
WrongStatusFor(reply) == IF reply = "4xx" THEN "failure" ELSE "success"

StatusFor(reply) ==
    CASE reply = "2xx" -> "success"
      [] reply = "4xx" -> "failure"
      [] OTHER         -> "unknown"

\* StripePaymentExecutor: the PaymentIntent's status, or the error it raised;
\* any error it does not name is a StripeError.
StripeStatuses == {"succeeded", "canceled", "requires_payment_method", "processing",
                   "requires_action"}
Rejections == {"CardError", "InvalidRequestError", "AuthenticationError",
               "RateLimitError", "IdempotencyError"}
Ambiguous  == {"APIConnectionError", "APIError", "StripeError"}

StripeReplies == StripeStatuses \cup Rejections \cup Ambiguous

MapStatus(status) ==
    CASE status = "succeeded"                               -> "success"
      [] status \in {"canceled", "requires_payment_method"} -> "failure"
      [] OTHER                                              -> "unknown"

StripeStatus(reply) ==
    IF reply \in StripeStatuses THEN MapStatus(reply)
    ELSE IF reply \in Rejections THEN "failure"
    ELSE "unknown"

\* A rail says that it moved the money only when it has, and that it did not
\* only when it never will; the rest it may say of any payment.
HttpSays(fate) ==
    {r \in HttpReplies : (r = "2xx" => fate = "moved") /\ (r = "4xx" => fate = "declined")}

StripeSays(fate) ==
    {r \in StripeReplies :
        /\ r = "succeeded" => fate = "moved"
        /\ r \in Rejections \cup {"canceled", "requires_payment_method"} => fate = "declined"}

\* What a dispatch may end in, over either executor.
Outcomes(fate) ==
    {StatusFor(r) : r \in HttpSays(fate)} \cup {StripeStatus(r) : r \in StripeSays(fate)}
=============================================================================
