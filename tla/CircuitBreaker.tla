--------------------------- MODULE CircuitBreaker ---------------------------
(***************************************************************************)
(* The per-host circuit breaker (internal/s3client/circuitbreaker.go) and  *)
(* its only client, WithRetry (retry.go), which every S3 call of the       *)
(* program goes through.                                                   *)
(*                                                                         *)
(* One host: the breaker keeps hosts apart.  A host missing from the map   *)
(* behaves as a closed one without failures.  Each operation of the        *)
(* breaker is one critical section of its mutex.  The clock is reduced to  *)
(* whether openDuration has elapsed since openedAt.  What an attempt       *)
(* returns is any of ClassifyError's categories; the lengths of the        *)
(* backoff pauses and of the timeouts are left out.                        *)
(***************************************************************************)
EXTENDS Integers, FiniteSets

CONSTANTS
    Requests,                  \* goroutines that call WithRetry
    MaxConsecutiveFailures,    \* 5 in the code
    MaxAttempts                \* the retry policy's

\* What an instance gives.
PolicyAssumption ==
    /\ MaxConsecutiveFailures \in Nat \ {0}
    /\ MaxAttempts \in Nat \ {0}

Categories == {"network", "timeout", "unknown", "auth", "tls", "cancelled"}
CountsTowardBreaker == {"network", "timeout"}
Retryable == {"network", "timeout", "unknown"}

VARIABLES
    \* hostState
    status,
    consecutiveFailures,   \* counted up to MaxConsecutiveFailures, where it stops to matter
    probing,
    elapsed,               \* openDuration has passed since openedAt
    \* WithRetry
    pc,
    attemptNum,
    \* history
    trials                 \* requests admitted since the host became half-open,
                           \* whose WithRetry has not returned

host == <<status, consecutiveFailures, probing, elapsed>>
vars == <<host, pc, attemptNum, trials>>

TypeOK ==
    /\ status \in {"closed", "open", "halfopen"}
    /\ consecutiveFailures \in 0 .. MaxConsecutiveFailures
    /\ probing \in BOOLEAN
    /\ elapsed \in BOOLEAN
    /\ pc \in [Requests -> {"idle", "allow", "backoff", "attempt"}]
    /\ attemptNum \in [Requests -> 1 .. MaxAttempts]
    /\ trials \in SUBSET Requests

Init ==
    /\ status = "closed"
    /\ consecutiveFailures = 0
    /\ probing = FALSE
    /\ elapsed = FALSE
    /\ pc = [r \in Requests |-> "idle"]
    /\ attemptNum = [r \in Requests |-> 1]
    /\ trials = {}

-----------------------------------------------------------------------------
(* CircuitBreaker *)

\* A fault: any request that finds the host half-open may try.
AllowsAny == status = "closed" \/ status = "halfopen" \/ (status = "open" /\ elapsed)

\* Whether Allow returns true.
Allows ==
    \/ status = "closed"
    \/ status = "halfopen" /\ ~probing
    \/ status = "open" /\ elapsed

\* What Allow changes when it returns true: all but a closed host's request is
\* the trial.
Grant(r) ==
    IF status = "closed"
      THEN UNCHANGED <<host, trials>>
      ELSE /\ status' = "halfopen"
           /\ probing' = TRUE
           /\ trials' = trials \cup {r}
           /\ UNCHANGED <<consecutiveFailures, elapsed>>

\* A fault: the host closes but the count of failures stays.
RecordSuccessKeepsCount(r) ==
    /\ status' = "closed"
    /\ probing' = FALSE
    /\ trials' = {}
    /\ UNCHANGED <<consecutiveFailures, elapsed>>

RecordSuccess(r) ==
    /\ status' = "closed"
    /\ consecutiveFailures' = 0
    /\ probing' = FALSE
    /\ trials' = {}
    /\ UNCHANGED elapsed

\* A half-open host, or one with enough failures, opens (again), from now on.
RecordFailure(r, category) ==
    IF category \notin CountsTowardBreaker
      THEN trials' = trials \ {r} /\ UNCHANGED host
      ELSE LET failures == IF consecutiveFailures < MaxConsecutiveFailures
                             THEN consecutiveFailures + 1 ELSE consecutiveFailures
               trips == status = "halfopen" \/ failures = MaxConsecutiveFailures
           IN  /\ consecutiveFailures' = failures
               /\ probing' = FALSE
               /\ status' = IF trips THEN "open" ELSE status
               /\ elapsed' = IF trips THEN FALSE ELSE elapsed
               /\ trials' = IF trips THEN {} ELSE trials \ {r}

\* Time passes.
Elapse ==
    /\ status = "open" /\ ~elapsed
    /\ elapsed' = TRUE
    /\ UNCHANGED <<status, consecutiveFailures, probing, pc, attemptNum, trials>>

-----------------------------------------------------------------------------
(* WithRetry *)

Goto(r, label) == pc' = [pc EXCEPT ![r] = label]

Call(r) ==
    /\ pc[r] = "idle"
    /\ Goto(r, "allow")
    /\ attemptNum' = [attemptNum EXCEPT ![r] = 1]
    /\ UNCHANGED <<host, trials>>

\* Before each attempt, and before the pause that precedes it.
Allow(r) ==
    /\ pc[r] = "allow"
    /\ IF Allows
         THEN /\ Grant(r)
              /\ Goto(r, IF attemptNum[r] > 1 THEN "backoff" ELSE "attempt")
         ELSE /\ Goto(r, "idle")              \* errCircuitOpen
              /\ trials' = trials \ {r}
              /\ UNCHANGED host
    /\ UNCHANGED attemptNum

\* The pause ends, or the context is canceled and WithRetry returns.
Backoff(r) ==
    /\ pc[r] = "backoff"
    /\ \/ Goto(r, "attempt") /\ UNCHANGED trials
       \/ Goto(r, "idle") /\ trials' = trials \ {r}
    /\ UNCHANGED <<host, attemptNum>>

Succeed(r) ==
    /\ pc[r] = "attempt"
    /\ RecordSuccess(r)
    /\ Goto(r, "idle")
    /\ UNCHANGED attemptNum

\* Neither retried nor reported to the breaker.
Cancelled(r) ==
    /\ pc[r] = "attempt"
    /\ Goto(r, "idle")
    /\ trials' = trials \ {r}
    /\ UNCHANGED <<host, attemptNum>>

\* A fault: the attempts are not counted.
RetryForever(r, category) ==
    /\ pc[r] = "attempt"
    /\ category \in Retryable
    /\ Goto(r, "allow")
    /\ UNCHANGED <<host, attemptNum, trials>>

\* Nothing is reported to the breaker between the attempts of one call.
Retry(r, category) ==
    /\ pc[r] = "attempt"
    /\ category \in Retryable
    /\ attemptNum[r] < MaxAttempts
    /\ attemptNum' = [attemptNum EXCEPT ![r] = @ + 1]
    /\ Goto(r, "allow")
    /\ UNCHANGED <<host, trials>>

\* Not retryable, or the last attempt.
GiveUp(r, category) ==
    /\ pc[r] = "attempt"
    /\ category # "cancelled"
    /\ category \in Retryable => attemptNum[r] = MaxAttempts
    /\ RecordFailure(r, category)
    /\ Goto(r, "idle")
    /\ UNCHANGED attemptNum

WithRetryStep(r) ==
    \/ Allow(r) \/ Backoff(r) \/ Succeed(r) \/ Cancelled(r)
    \/ \E category \in Categories : Retry(r, category) \/ GiveUp(r, category)

Next == Elapse \/ \E r \in Requests : Call(r) \/ WithRetryStep(r)

\* Goroutines run, attempts and pauses end (both have timeouts) and time passes.
\* Every request is also made again and again: the strongest demand on the host.
Fairness ==
    /\ WF_vars(Elapse)
    /\ \A r \in Requests : WF_vars(WithRetryStep(r)) /\ WF_vars(Call(r))

Spec == Init /\ [][Next]_vars
FairSpec == Spec /\ Fairness

-----------------------------------------------------------------------------
(* Properties *)

\* The host is refused (open) or probed (half-open) exactly when the failures
\* counted since its last success have reached the limit - through every mix of
\* late results from requests admitted earlier (RecordSuccess, RecordFailure).
OpenIffTooManyFailures ==
    status = "closed" <=> consecutiveFailures < MaxConsecutiveFailures

\* While the host is half-open at most one request is under way that was let
\* through to probe it, and it excludes any other (Allow, probing).
OneTrial ==
    /\ Cardinality(trials) <= 1
    /\ trials # {} => status = "halfopen" /\ probing

\* WithRetry always returns, whatever the results, the breaker's refusals and the trial of
\* others: the attempts of a call are bounded.
CallsReturn == \A r \in Requests : pc[r] # "idle" ~> pc[r] = "idle"

\* A half-open host becomes closed or open again, by the outcome of its trial.
HalfOpenResolves == status = "halfopen" ~> status # "halfopen"

=============================================================================
