----------------------------- MODULE FetchRetry -----------------------------
(***************************************************************************)
(* One call of fetchWithRetry (packages/core/src/fetch-retry.ts): a loop   *)
(* of attempts, each under its own abort timer, separated by exponential   *)
(* backoff.  Time is in the unit of the constants; a timer that is due     *)
(* fires before time goes on, and a reply may still win against a timer    *)
(* that is due.                                                            *)
(***************************************************************************)
EXTENDS Integers

CONSTANTS
    retries, baseDelay, timeout,    \* RetryOptions
    Statuses                        \* HTTP statuses a server may answer with

ASSUME FetchAssumption ==
    /\ retries \in Nat /\ baseDelay \in Nat /\ timeout \in Nat \ {0}
    /\ Statuses \subseteq 100..599

VARIABLES
    phase,      \* "fetching", "backoff", "resolved" or "rejected"
    attempt,
    waited,     \* time since the phase began
    elapsed     \* history: time since the call

retryVars == <<phase, attempt, waited, elapsed>>

NoStatus == 0       \* the request failed or was aborted

RetryInit ==
    /\ phase = "fetching"
    /\ attempt = 0
    /\ waited = 0 /\ elapsed = 0

Settled == phase \in {"resolved", "rejected"}

(* Mutant: each delay is one doubling late. *)
DelayLate(n) == baseDelay * 2 ^ (n + 1)

Delay(n) == baseDelay * 2 ^ n

Ok(status) == status \in 200..299

Retryable(status) == status = NoStatus \/ status >= 500 \/ status = 429

(* What follows the end of an attempt. *)
AfterAttempt(status) ==
    IF Ok(status) THEN "resolved"
    ELSE IF Retryable(status) /\ attempt < retries THEN "backoff"
    ELSE "rejected"

AttemptEnds(status) ==
    /\ phase = "fetching"
    /\ phase' = AfterAttempt(status)
    /\ waited' = 0
    /\ UNCHANGED <<attempt, elapsed>>

responds == \E status \in Statuses : AttemptEnds(status)

networkError == AttemptEnds(NoStatus)

(* Mutant: the abort timer is never armed. *)
NeverDue == FALSE

AbortDue == waited = timeout

abort == AbortDue /\ AttemptEnds(NoStatus)

retry ==
    /\ phase = "backoff"
    /\ waited = Delay(attempt)
    /\ phase' = "fetching"
    /\ attempt' = attempt + 1
    /\ waited' = 0
    /\ UNCHANGED elapsed

TimerTick ==
    /\ \/ phase = "fetching" /\ waited < timeout
       \/ phase = "backoff" /\ waited < Delay(attempt)
    /\ waited' = waited + 1
    /\ elapsed' = elapsed + 1
    /\ UNCHANGED <<phase, attempt>>

RetryNext == responds \/ networkError \/ abort \/ retry \/ TimerTick

RetrySpec == RetryInit /\ [][RetryNext]_retryVars

(* Timers fire and time passes; the server owes nothing. *)
RetryFairness == WF_retryVars(abort) /\ WF_retryVars(retry) /\ WF_retryVars(TimerTick)

-----------------------------------------------------------------------------
(* The longest a call may take: every attempt times out, and the delays    *)
(* between them add up to baseDelay * (2^retries - 1).                      *)
Budget == (retries + 1) * timeout + baseDelay * (2 ^ retries - 1)

(* fetch-retry.ts:20: a call never outlasts its budget, whatever mix of    *)
(* errors, refusals and timeouts it meets.  The clients' caches rely on it.*)
WithinBudget == elapsed <= Budget

(* The call settles even against a server that never answers: each attempt *)
(* is aborted and the attempts run out.                                    *)
Settles == <>Settled
=============================================================================
