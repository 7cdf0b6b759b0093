------------------------------ MODULE MCClients ------------------------------
(***************************************************************************)
(* Instances of ProfileClients and CircuitBreaker for TLC: what a call     *)
(* needs of the s3client package before it can ask, a client of the        *)
(* current profile and the breaker's leave.  The two models share nothing, *)
(* so a behaviour is one of either and the other one rests.                *)
(***************************************************************************)
EXTENDS ProfileClients

CONSTANTS Requests, MaxConsecutiveFailures, MaxAttempts

VARIABLES
    subject,                  \* "clients" or "breaker"
    status, consecutiveFailures, probing, elapsed, step, attemptNum, trials

B == INSTANCE CircuitBreaker WITH pc <- step

ASSUME BreakerAssumption == B!PolicyAssumption

breaker == <<status, consecutiveFailures, probing, elapsed, step, attemptNum, trials>>
all == <<subject, vars, breaker>>

OfClients(A) == subject = "clients" /\ A /\ UNCHANGED <<subject, breaker>>
OfBreaker(A) == subject = "breaker" /\ A /\ UNCHANGED <<subject, vars>>

\* The one that rests has a single initial state.
MCInit ==
    /\ Init /\ B!Init
    /\ \/ subject = "clients"
       \/ subject = "breaker" /\ row = NoRow /\ box = NoKey
MCNext == OfClients(Next) \/ OfBreaker(B!Next)

MCSpec ==
    /\ MCInit /\ [][MCNext]_all
    /\ WF_all(OfBreaker(B!Elapse))
    /\ \A r \in Requests :
          WF_all(OfBreaker(B!WithRetryStep(r))) /\ WF_all(OfBreaker(B!Call(r)))

\* The breaker of a host is open or probed exactly when its failures have reached the limit,
\* see CircuitBreaker ...
OpenIffTooManyFailures == B!TypeOK /\ B!OpenIffTooManyFailures

\* ... it is probed by one request at a time ...
OneTrial == B!OneTrial

\* ... and every call of WithRetry returns.
CallsReturn == B!CallsReturn

=============================================================================
