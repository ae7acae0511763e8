------------------------------- MODULE Remote -------------------------------
(***************************************************************************)
(* internal/remote: the calls one request makes to the providers of a      *)
(* remote tier.  An adapter repeats a call that was answered with 429, up  *)
(* to maxRetries times and under a deadline of its own; an adapter that    *)
(* WithFallback has wrapped hands a terminal error over to OpenRouter,     *)
(* which does the same without a deadline.                                 *)
(*                                                                         *)
(* Any number of requests are under way at once; they share nothing but    *)
(* the adapters, which have no state.  Bodies, models and headers are left *)
(* out, and so are waiting times: a deadline may pass at any moment.       *)
(***************************************************************************)
EXTENDS Integers, FiniteSets

CONSTANTS
    Request,       \* handler calls
    Tokens,        \* token counts a response may report
    maxRetries

ASSUME RemoteAssumption ==
    /\ Tokens \subseteq Nat
    /\ maxRetries \in Nat

\* The adapter of the tier, and the OpenRouterFallbackAdapter behind it.
Provider == {"primary", "openrouter_fallback"}

\* What a call of Do may return, besides "ok".
RemoteError == {"RateLimitedError", "TerminalError", "deadline"}

VARIABLES
    keys,          \* providers whose API key is in the environment
    provider,      \* whose Do is running, for each request
    attempt,       \* its loop counter
    remote,        \* where the Do of each request is, or what it returned
    expired,       \* its deadline has passed
    primaryErr,    \* the error the primary returned to fallbackAdapter.Do
    tokens,        \* what the successful response reported
    calls          \* history: calls made to each provider, as far as CallCap

remoteVars == <<keys, provider, attempt, remote, expired, primaryErr, tokens,
                calls>>

\* The tiers NewResolver builds an adapter for.
Adapters ==
    (IF "openrouter" \in keys THEN {"remote_deepseek", "remote_opus"} ELSE {})
        \cup (IF "zai" \in keys THEN {"remote_glm"} ELSE {})

\* Those whose adapter is wrapped WithFallback.
HasFallback(t) ==
    t \in {"remote_deepseek", "remote_glm"} /\ "openrouter" \in keys

RemoteInit ==
    /\ keys \in SUBSET {"openrouter", "zai"}
    /\ provider = [r \in Request |-> "primary"]
    /\ attempt = [r \in Request |-> 0]
    /\ remote = [r \in Request |-> "idle"]
    /\ expired = [r \in Request |-> FALSE]
    /\ primaryErr = [r \in Request |-> "none"]
    /\ tokens = [r \in Request |-> 0]
    /\ calls = [r \in Request |-> [p \in Provider |-> 0]]

-----------------------------------------------------------------------------

\* One more than any provider may get is as good as many.
CallCap == maxRetries + 2

\* The loop of doWithRetryAndHeader makes attempt n.
Call(r, p, n) ==
    /\ attempt' = [attempt EXCEPT ![r] = n]
    /\ calls' = [calls EXCEPT ![r][p] = IF @ < CallCap THEN @ + 1 ELSE @]
    /\ remote' = [remote EXCEPT ![r] = "calling"]

\* Do of a tier's adapter begins.
Do(r) ==
    /\ Call(r, "primary", 0)
    /\ UNCHANGED <<keys, provider, expired, primaryErr, tokens>>

\* The 120 or 180 seconds of the primary's context are over.  The fallback
\* runs under context.Background().
Expire(r) ==
    /\ remote[r] \in {"calling", "waiting"}
    /\ provider[r] = "primary"
    /\ expired' = [expired EXCEPT ![r] = TRUE]
    /\ UNCHANGED <<keys, provider, attempt, remote, primaryErr, tokens, calls>>

\* 200 with at least one choice.
Respond(r) ==
    /\ remote[r] = "calling"
    /\ ~expired[r]
    /\ \E n \in Tokens : tokens' = [tokens EXCEPT ![r] = n]
    /\ remote' = [remote EXCEPT ![r] = "ok"]
    /\ UNCHANGED <<keys, provider, attempt, expired, primaryErr, calls>>

\* What doWithRetryAndHeader returns is what Do returns, unless it is the
\* primary's and fallbackAdapter.Do keeps it to itself.
Return(r, err) ==
    /\ remote' = [remote EXCEPT ![r] = err]
    /\ primaryErr' = IF provider[r] = "primary"
                     THEN [primaryErr EXCEPT ![r] = err] ELSE primaryErr

\* Defect: one attempt more than the loop allows.
TooManyRequestsLate(r) ==
    /\ remote[r] = "calling"
    /\ ~expired[r]
    /\ IF attempt[r] > maxRetries
       THEN Return(r, "RateLimitedError")
       ELSE /\ remote' = [remote EXCEPT ![r] = "waiting"]
            /\ UNCHANGED primaryErr
    /\ UNCHANGED <<keys, provider, attempt, expired, tokens, calls>>

\* 429: wait before the next attempt, or give up after the last one.
TooManyRequests(r) ==
    /\ remote[r] = "calling"
    /\ ~expired[r]
    /\ IF attempt[r] = maxRetries
       THEN Return(r, "RateLimitedError")
       ELSE /\ remote' = [remote EXCEPT ![r] = "waiting"]
            /\ UNCHANGED primaryErr
    /\ UNCHANGED <<keys, provider, attempt, expired, tokens, calls>>

\* Defect: the loop counter is not advanced.
RetrySame(r) ==
    /\ remote[r] = "waiting"
    /\ Call(r, provider[r], attempt[r])
    /\ UNCHANGED <<keys, provider, expired, primaryErr, tokens>>

\* The wait is over, whether or not the deadline has passed as well.
Retry(r) ==
    /\ remote[r] = "waiting"
    /\ Call(r, provider[r], attempt[r] + 1)
    /\ UNCHANGED <<keys, provider, expired, primaryErr, tokens>>

\* select takes ctx.Done(): ctx.Err() is neither of the two error types, and
\* the fallback does not run.
DeadlineInWait(r) ==
    /\ remote[r] = "waiting"
    /\ expired[r]
    /\ Return(r, "deadline")
    /\ UNCHANGED <<keys, provider, attempt, expired, tokens, calls>>

\* Defect: the fallback goes on with the attempts of the primary.
FailKeepsAttempt(r, t) ==
    /\ remote[r] = "calling"
    /\ IF provider[r] = "primary" /\ HasFallback(t)
       THEN /\ primaryErr' = [primaryErr EXCEPT ![r] = "TerminalError"]
            /\ provider' = [provider EXCEPT ![r] = "openrouter_fallback"]
            /\ expired' = [expired EXCEPT ![r] = FALSE]
            /\ Call(r, "openrouter_fallback", attempt[r])
       ELSE /\ Return(r, "TerminalError")
            /\ UNCHANGED <<provider, attempt, expired, calls>>
    /\ UNCHANGED <<keys, tokens>>

\* Any other failure of the call is a TerminalError, and so is a timeout, which
\* R4 of remote-clients-v03 excludes from the fallback (remote-api-clients.md:58);
\* a call under a context that has expired fails so at once.
Fail(r, t) ==
    /\ remote[r] = "calling"
    /\ IF provider[r] = "primary" /\ HasFallback(t)
       THEN /\ primaryErr' = [primaryErr EXCEPT ![r] = "TerminalError"]
            /\ provider' = [provider EXCEPT ![r] = "openrouter_fallback"]
            /\ expired' = [expired EXCEPT ![r] = FALSE]
            /\ Call(r, "openrouter_fallback", 0)
       ELSE /\ Return(r, "TerminalError")
            /\ UNCHANGED <<provider, attempt, expired, calls>>
    /\ UNCHANGED <<keys, tokens>>

\* What the provider and the timers do to the Do of request r for tier t.
DoStep(r, t) ==
    \/ Respond(r)
    \/ TooManyRequests(r)
    \/ Retry(r)
    \/ DeadlineInWait(r)
    \/ Fail(r, t)

-----------------------------------------------------------------------------

RemoteTypeOK ==
    /\ keys \subseteq {"openrouter", "zai"}
    /\ provider \in [Request -> Provider]
    /\ attempt \in [Request -> 0..maxRetries]
    /\ remote \in [Request -> {"idle", "calling", "waiting", "ok"} \cup RemoteError]
    /\ expired \in [Request -> BOOLEAN]
    /\ primaryErr \in [Request -> {"none"} \cup RemoteError]
    /\ tokens \in [Request -> Tokens \cup {0}]
    /\ DOMAIN calls = Request
    /\ \A r \in Request : calls[r] \in [Provider -> 0..CallCap]

\* However 429s, failures and the deadline mix, a request makes at most
\* maxRetries + 1 calls to a provider; a RateLimitedError means that it made
\* all of them to the provider that returned it, and OpenRouter is called only
\* after what the code calls a TerminalError of the primary (timeouts of a call
\* are among them, against R4 of remote-clients-v03), never because of a 429
\* (types.go:62-64, openrouter_fallback.go:83-95, retry.go:112-156).
RetriesAccounted ==
    \A r \in Request :
        /\ \A p \in Provider : calls[r][p] <= maxRetries + 1
        /\ remote[r] = "RateLimitedError" => calls[r][provider[r]] = maxRetries + 1
        /\ primaryErr[r] = "RateLimitedError" => remote[r] = "RateLimitedError"
        /\ calls[r]["openrouter_fallback"] > 0 <=> 
              provider[r] = "openrouter_fallback"
        /\ provider[r] = "openrouter_fallback" => primaryErr[r] = "TerminalError"

=============================================================================
