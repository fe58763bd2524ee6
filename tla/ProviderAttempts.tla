-------------------------- MODULE ProviderAttempts --------------------------
(***************************************************************************)
(* How one chat call gets its completion: the loop over the targets of its *)
(* route, and in it the retries of one target.  ChatGateway sees all this  *)
(* as its step ProviderCall.                                               *)
(*                                                                         *)
(*   internal/gateway/chat_service.go    Chat (attempts),                  *)
(*                                       chatProviderWithRetry             *)
(*   internal/gateway/retry_policy.go    ShouldRetry                       *)
(*   internal/provider/openai_compatible/adapter.go   Chat                 *)
(*                                                                         *)
(* The providers are the OpenAI compatible ones (the mock provider, for    *)
(* demonstrations, does not look at the context).  The client may leave at *)
(* any time, which cancels the context of the call.  Module Dispatch says  *)
(* which calls there are and which targets they have.                      *)
(***************************************************************************)
EXTENDS Naturals, Sequences

CONSTANT MaxRetries  \* RetryPolicy.MaxRetries, normalised

ASSUME AttemptAssumption == MaxRetries \in Nat

VARIABLES
    targets,   \* the resolved targets, in order; <<>> before the route is known
    fallback,  \* the route's strategy is "fallback"
    phase,     \* what the call does next; AttemptPhases are those of this module
    index,     \* position of the current target
    attempt,   \* number of the current request to it
    cancelled, \* the client has left
    attempts,  \* provider_attempts of the request log
    code,      \* error code for the client, "" after a success
    unusable,  \* history: targets without an adapter, a valid base URL or a readable secret
    sent,      \* history: requests that went out, per position of a target
    answered   \* history: 2xx answers received

pvars == <<targets, fallback, phase, index, attempt, cancelled, attempts, code, unusable, sent,
           answered>>

AttemptPhases == {"config", "send", "wait", "backoff", "done"}

\* What a call of a target may end with, other than a completion: the code of the
\* error, whether it is marked retryable, and whether a cancelled context caused it.
Errors == [
    no_adapter  |-> [code |-> "provider_unavailable", retryable |-> FALSE, cancelled |-> FALSE],
    no_config   |-> [code |-> "",                     retryable |-> FALSE, cancelled |-> FALSE],
    timeout     |-> [code |-> "provider_timeout",     retryable |-> FALSE, cancelled |-> FALSE],
    connection  |-> [code |-> "provider_unavailable", retryable |-> FALSE, cancelled |-> FALSE],
    left        |-> [code |-> "provider_unavailable", retryable |-> FALSE, cancelled |-> TRUE],
    status_5xx  |-> [code |-> "provider_unavailable", retryable |-> TRUE,  cancelled |-> FALSE],
    status_429  |-> [code |-> "provider_error",       retryable |-> TRUE,  cancelled |-> FALSE],
    status_4xx  |-> [code |-> "provider_error",       retryable |-> FALSE, cancelled |-> FALSE],
    bad_body    |-> [code |-> "provider_error",       retryable |-> FALSE, cancelled |-> FALSE],
    no_usage    |-> [code |-> "usage_missing",        retryable |-> FALSE, cancelled |-> FALSE],
    backoff_cut |-> [code |-> "",                     retryable |-> FALSE, cancelled |-> TRUE]]

Answers == {"bad_body", "no_usage"}
Replies == {"timeout", "connection", "status_5xx", "status_429", "status_4xx"} \cup Answers

\* No call is being made, or it is over.
NoAttempts ==
    /\ index = 1 /\ attempt = 0 /\ cancelled = FALSE /\ attempts = <<>> /\ code = ""
    /\ unusable = {} /\ sent = <<>> /\ answered = 0
EndAttempts ==
    /\ index' = 1 /\ attempt' = 0 /\ cancelled' = FALSE /\ attempts' = <<>> /\ code' = ""
    /\ unusable' = {} /\ sent' = <<>> /\ answered' = 0

\* The loop begins.
BeginAttempts ==
    /\ phase' = "config"
    /\ sent' = [n \in DOMAIN targets |-> 0]
    /\ UNCHANGED <<targets, fallback, index, attempt, cancelled, attempts, code, unusable, answered>>

-----------------------------------------------------------------------------
MaxAttempts == MaxRetries + 1

Transient(e) == e.retryable \/ e.code \in {"provider_timeout", "provider_unavailable"}

ShouldRetry(e) == ~e.cancelled /\ Transient(e)

fallbackRetryable_AnyError(e) == TRUE
fallbackRetryable(e) == Transient(e)

shouldTryNextFallbackTarget_OneShort(retryable) ==
    fallback /\ retryable /\ index < Len(targets) - 1

shouldTryNextFallbackTarget(retryable) == fallback /\ retryable /\ index < Len(targets)

providerErrorStatus(e) == IF e.code = "" THEN "provider_error" ELSE e.code

\* The last target's error, or "unavailable" if a fallback route is used up.
FinalCode(own, e) ==
    IF fallback /\ fallbackRetryable(e) /\ Len(attempts) + 1 = Len(targets)
    THEN "provider_unavailable"
    ELSE own

\* The current target is given up after n calls: on to the next, or to the answer.
TargetFails(own, e, retryable, n) ==
    /\ attempts' = Append(attempts, [target |-> targets[index].id, result |-> "error", code |-> own,
                                     retryable |-> retryable, count |-> n])
    /\ attempt' = 0
    /\ IF shouldTryNextFallbackTarget(retryable)
       THEN index' = index + 1 /\ phase' = "config" /\ UNCHANGED code
       ELSE phase' = "done" /\ code' = FinalCode(own, e) /\ UNCHANGED index

CallFails_CountsRetries(e) ==
    IF attempt = MaxAttempts \/ ~ShouldRetry(e)
    THEN TargetFails(providerErrorStatus(e), e, fallbackRetryable(e), attempt - 1)
    ELSE phase' = "backoff" /\ UNCHANGED <<index, attempt, attempts, code>>

\* adapter.Chat returned error e.
CallFails(e) ==
    IF attempt = MaxAttempts \/ ~ShouldRetry(e)
    THEN TargetFails(providerErrorStatus(e), e, fallbackRetryable(e), attempt)
    ELSE phase' = "backoff" /\ UNCHANGED <<index, attempt, attempts, code>>

-----------------------------------------------------------------------------
\* AdapterFor and providerConfig, which reads the secret with the context of the call
Configure ==
    /\ phase = "config" /\ ~cancelled
    /\ phase' = "send" /\ attempt' = 1
    /\ UNCHANGED <<targets, fallback, index, cancelled, attempts, code, unusable, sent, answered>>

\* Either of them fails: type, base URL, secret, key or database.
ConfigFails(why) ==
    /\ phase = "config"
    /\ unusable' = unusable \cup {index}
    /\ TargetFails("provider_unavailable", Errors[why], TRUE, 1)
    /\ UNCHANGED <<targets, fallback, cancelled, sent, answered>>

\* The HTTP client sends nothing under a cancelled context.
Send ==
    /\ phase = "send" /\ ~cancelled
    /\ phase' = "wait" /\ sent' = [sent EXCEPT ![index] = @ + 1]
    /\ UNCHANGED <<targets, fallback, index, attempt, cancelled, attempts, code, unusable, answered>>

NotSent ==
    /\ phase = "send" /\ cancelled
    /\ CallFails(Errors["left"])
    /\ UNCHANGED <<targets, fallback, cancelled, unusable, sent, answered>>

Completion ==
    /\ phase = "wait"
    /\ phase' = "done" /\ code' = "" /\ answered' = answered + 1
    /\ attempts' = Append(attempts, [target |-> targets[index].id, result |-> "success", code |-> "",
                                     retryable |-> FALSE, count |-> attempt])
    /\ UNCHANGED <<targets, fallback, index, attempt, cancelled, unusable, sent>>

\* The answer is no use, or there is none.
NoCompletion(why) ==
    /\ phase = "wait"
    /\ why \in Replies \/ (cancelled /\ why = "left")
    /\ CallFails(Errors[why])
    /\ answered' = IF why \in Answers THEN answered + 1 ELSE answered
    /\ UNCHANGED <<targets, fallback, cancelled, unusable, sent>>

BackoffOver_WaitsForContext ==
    /\ phase = "backoff" /\ cancelled
    /\ phase' = "send" /\ attempt' = attempt + 1
    /\ UNCHANGED <<targets, fallback, index, cancelled, attempts, code, unusable, sent, answered>>

\* If timer and context are both done, select takes either.
BackoffOver ==
    /\ phase = "backoff"
    /\ phase' = "send" /\ attempt' = attempt + 1
    /\ UNCHANGED <<targets, fallback, index, cancelled, attempts, code, unusable, sent, answered>>

BackoffCut ==
    /\ phase = "backoff" /\ cancelled
    /\ TargetFails(providerErrorStatus(Errors["backoff_cut"]), Errors["backoff_cut"],
                   fallbackRetryable(Errors["backoff_cut"]), attempt)
    /\ UNCHANGED <<targets, fallback, cancelled, unusable, sent, answered>>

ClientLeaves ==
    /\ ~cancelled /\ phase \in AttemptPhases \ {"done"}
    /\ cancelled' = TRUE
    /\ UNCHANGED <<targets, fallback, phase, index, attempt, attempts, code, unusable, sent, answered>>

\* What the call does by itself.
AttemptStep ==
    \/ Configure \/ Send \/ NotSent \/ Completion \/ BackoffOver \/ BackoffCut
    \/ \E why \in {"no_adapter", "no_config"} : ConfigFails(why)
    \/ \E why \in Replies \cup {"left"} : NoCompletion(why)

-----------------------------------------------------------------------------
(* Properties                                                              *)

\* No provider is asked again once one has answered: neither a retry nor a
\* fallback buys a second completion because the first could not be decoded or
\* came without usage, and such a call is not reported as an outage.
OneAnswer ==
    answered > 0 =>
        answered = 1 /\ phase = "done" /\ code \notin {"provider_unavailable", "provider_timeout"}

\* The attempts in the request log account for the requests that went out: a target
\* got as many as its entry says and no more than the policy allows.  Less is only
\* possible for a target that could not be used, or if the client left.
AttemptsAccount ==
    \A n \in DOMAIN attempts :
        LET a == attempts[n] IN
        /\ a.target = targets[n].id
        /\ sent[n] =< a.count /\ a.count =< MaxRetries + 1
        /\ sent[n] < a.count => n \in unusable \/ cancelled

\* A client that stayed is told of an outage only after all that the route and the
\* retry policy allow was tried: on a fallback route every target, on the others the
\* first, and each that could be used with as many requests as the policy grants.
\* An error that neither retries nor a fallback may follow is not reported as one.
OutageIsReal ==
    phase = "done" /\ code \in {"provider_unavailable", "provider_timeout"} /\ ~cancelled =>
        /\ fallback => Len(attempts) = Len(targets)
        /\ \A n \in DOMAIN attempts : n \in unusable \/ sent[n] = MaxRetries + 1

\* The loops end.
AttemptsEnd == phase = "config" ~> phase = "done"
=============================================================================
