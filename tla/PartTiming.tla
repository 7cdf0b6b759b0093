------------------------------ MODULE PartTiming ------------------------------
(***************************************************************************)
(* The time of a transfer: parts that are sent concurrently, each by       *)
(* WithRetry (s3client/retry.go) around attempts that run under            *)
(* AdaptiveTimeout and under the timeout of the http.Client                *)
(* (s3client/manager.go newManagerEntry), all paced by one bandwidth       *)
(* limiter (transfer/ratelimit.go).  uploadPart of                         *)
(* transfer/multipart_upload.go is the attempt that is modelled;           *)
(* uploadSingle and downloadSegment have the same frame.                   *)
(*                                                                         *)
(* Time is a counter that advances only when every goroutine waits for     *)
(* it: the program's own steps take none.  Data is counted in units.  The  *)
(* circuit breaker has a module of its own: here it may refuse at any      *)
(* time, which counts as a fault.                                          *)
(***************************************************************************)
EXTENDS Integers, FiniteSets

CONSTANTS
    Parts, Size,              \* the parts, and the units of each
    ReadSize,                 \* units that one Read of the body returns at most
    LinkSpeed,                \* units a part can send in a tick while the link is up
    Rate,                     \* units per tick of the bandwidth limit, 0 for none
    AssumedSpeed,             \* defaultAssumedSpeedBytesPerSec
    TimeoutFloor,             \* RetryPolicyStore.TimeoutFloor
    HTTPTimeout,              \* defaultHTTPTimeout
    MaxAttempts, BaseDelay, MaxDelay     \* the RetryPolicy

ASSUME TimingAssumption ==
    /\ IsFiniteSet(Parts)
    /\ Size \in Nat \ {0} /\ LinkSpeed \in Nat /\ ReadSize \in 1..LinkSpeed
    /\ Rate \in Nat /\ AssumedSpeed \in Nat \ {0}
    /\ TimeoutFloor \in Nat /\ HTTPTimeout \in Nat \ {0}
    /\ MaxAttempts \in Nat \ {0} /\ BaseDelay \in Nat /\ MaxDelay \in Nat

VARIABLES
    pc,                       \* each part: "allow", "pause", "send", "ok", "failed", "cancelled"
    attempt,                  \* the number of the attempt
    age,                      \* ticks since the attempt began
    pause,                    \* ticks left of the backoff pause
    throttled,                \* whether the last error was a throttling response
    sent, pending,            \* units the attempt has sent, and the last Read's
    owed, due,                \* units of that Read not yet granted, ticks to wait for a grant
    room,                     \* units the link takes from the part in this tick
    tokens,                   \* the limiter's bucket: negative when grants are ahead of time
    up, stale,                \* the link, and whether the pooled connections are dead
    cancelled,                \* the user paused or cancelled the task
    now,                      \* ticks since the parts began
    released, faulty, timedOut\* history: units let through, whether anything outside the
                              \* program went wrong, the age of attempts that timed out

parts == <<pc, attempt, age, pause, throttled, sent, pending, owed, due, room>>
world == <<up, stale, cancelled, now>>
vars == <<parts, tokens, world, released, faulty, timedOut>>

Less(x, y) == IF x < y THEN x ELSE y
More(x, y) == IF x < y THEN y ELSE x
CeilDiv(x, y) == (x + y - 1) \div y

AdaptiveTimeout == More(TimeoutFloor, CeilDiv(2 * Size, AssumedSpeed))

\* The age at which an attempt ends: the context's deadline or the http.Client's timeout,
\* whichever is earlier.
Deadline == Less(AdaptiveTimeout, HTTPTimeout)

\* A fault: the cap is applied before the doubling for a throttling response.
backoffUncapped(n, slow) ==
    {d \in 0..2 * MaxDelay : d <= Less(BaseDelay * 2^(n - 1), MaxDelay) * (IF slow THEN 2 ELSE 1)}

\* The pauses that backoffDelay may choose before a retry: full jitter below a cap that
\* doubles each time, and once more after a throttling response, up to MaxDelay.
backoffDelay(n, slow) ==
    {d \in 0..MaxDelay : d <= BaseDelay * 2^(n - 1) * (IF slow THEN 2 ELSE 1)}

\* The context of the errgroup: it ends with the user's pause or with a part that fails.
Cancelled == cancelled \/ \E p \in Parts : pc[p] = "failed"

Over(p) == pc[p] \in {"ok", "failed", "cancelled"}

Init ==
    /\ pc = [p \in Parts |-> "allow"]
    /\ attempt = [p \in Parts |-> 1]
    /\ age = [p \in Parts |-> 0] /\ pause = [p \in Parts |-> 0]
    /\ throttled = [p \in Parts |-> FALSE]
    /\ sent = [p \in Parts |-> 0] /\ pending = [p \in Parts |-> 0]
    /\ owed = [p \in Parts |-> 0] /\ due = [p \in Parts |-> 0]
    /\ room = [p \in Parts |-> LinkSpeed]
    /\ tokens = Rate
    /\ up = TRUE /\ stale \in BOOLEAN /\ cancelled = FALSE /\ now = 0
    /\ released = 0 /\ faulty = FALSE /\ timedOut = {}

-----------------------------------------------------------------------------
(* WithRetry. *)

StartAttempt(p) ==
    /\ pc' = [pc EXCEPT ![p] = "send"]
    /\ age' = [age EXCEPT ![p] = 0]
    /\ sent' = [sent EXCEPT ![p] = 0]
    /\ UNCHANGED <<attempt, throttled, pending, owed, due, room>>

\* breaker.Allow, before every attempt; before a retry the pause is chosen, full jitter.
Allow(p) ==
    /\ pc[p] = "allow"
    /\ \/ attempt[p] = 1 /\ StartAttempt(p) /\ UNCHANGED <<pause, faulty>>
       \/ /\ attempt[p] > 1
          /\ \E d \in backoffDelay(attempt[p] - 1, throttled[p]) :
                pause' = [pause EXCEPT ![p] = d]
          /\ pc' = [pc EXCEPT ![p] = "pause"]
          /\ UNCHANGED <<attempt, age, throttled, sent, pending, owed, due, room, faulty>>
       \/ /\ pc' = [pc EXCEPT ![p] = "failed"] /\ faulty' = TRUE
          /\ UNCHANGED <<attempt, age, pause, throttled, sent, pending, owed, due, room>>
    /\ UNCHANGED <<tokens, world, released, timedOut>>

PauseEnds(p) ==
    /\ pc[p] = "pause" /\ pause[p] = 0 /\ ~Cancelled
    /\ StartAttempt(p)
    /\ UNCHANGED <<pause, tokens, world, released, faulty, timedOut>>

\* The units of the grant that a part is waiting for.  An attempt that ends gives it back to
\* the bucket, unless later grants were made from it (rate.Reservation.Cancel).
Grant(p) ==
    IF due[p] = 0 THEN 0 ELSE IF owed[p] > 0 THEN Rate ELSE ((pending[p] - 1) % Rate) + 1
AbandonRead(p) ==
    /\ pending' = [pending EXCEPT ![p] = 0]
    /\ owed' = [owed EXCEPT ![p] = 0] /\ due' = [due EXCEPT ![p] = 0]
    /\ tokens' \in {tokens, Less(Rate, tokens + Grant(p))}

\* sleepBackoff and the request itself both return at once when the context ends.
ReturnCancelled(p) ==
    /\ pc[p] \in {"pause", "send"} /\ Cancelled
    /\ pc' = [pc EXCEPT ![p] = "cancelled"]
    /\ AbandonRead(p)
    /\ UNCHANGED <<attempt, age, pause, throttled, sent, room, world, released, faulty, timedOut>>

\* An attempt has failed with a retryable error, or with one that is not.
AttemptFails(p, retryable, slow) ==
    /\ pc' = [pc EXCEPT ![p] = IF retryable /\ attempt[p] < MaxAttempts THEN "allow" ELSE "failed"]
    /\ attempt' = [attempt EXCEPT ![p] = Less(@ + 1, MaxAttempts)]
    /\ throttled' = [throttled EXCEPT ![p] = slow]
    /\ AbandonRead(p)
    /\ UNCHANGED <<age, pause, sent, room, world, released>>

-----------------------------------------------------------------------------
(* One attempt: uploadPart. *)

\* A fault: retries take the pooled client too.
UsesPooledAlways(p) == TRUE

\* The first attempt takes the pooled client, every retry the fresh one.
UsesPooled(p) == attempt[p] = 1

Sending(p) == pc[p] = "send" /\ ~Cancelled /\ age[p] < Deadline
Connected(p) == up /\ ~(stale /\ UsesPooled(p))

\* A dead pooled connection, a server that answers with an error, at any moment.
StaleConnection(p) ==
    /\ Sending(p) /\ stale /\ UsesPooled(p)
    /\ AttemptFails(p, TRUE, FALSE)
    /\ UNCHANGED <<faulty, timedOut>>

ServerFails(p) ==
    /\ pc[p] = "send" /\ ~Cancelled /\ up
    /\ \E e \in {"network", "throttling", "auth"} : AttemptFails(p, e # "auth", e = "throttling")
    /\ faulty' = TRUE /\ UNCHANGED timedOut

\* limitedReader.Read: the bytes are read, then wait for the limiter.
NextRead(p) == Less(ReadSize, Size - sent[p])
Read(p) ==
    /\ Sending(p) /\ Connected(p) /\ pending[p] = 0 /\ sent[p] < Size
    /\ NextRead(p) <= room[p]
    /\ pending' = [pending EXCEPT ![p] = NextRead(p)]
    /\ owed' = [owed EXCEPT ![p] = IF Rate = 0 THEN 0 ELSE NextRead(p)]
    /\ UNCHANGED <<pc, attempt, age, pause, throttled, sent, due, room, tokens, world, released, faulty, timedOut>>

\* rate.Limiter.WaitN of a chunk no larger than the burst: it is granted now or for a
\* later time, or refused at once when that time is past the deadline of the context.
Delay(n) == IF n <= tokens THEN 0 ELSE CeilDiv(n - tokens, Rate)
WaitN(p) ==
    /\ Sending(p) /\ owed[p] > 0 /\ due[p] = 0
    /\ LET chunk == Less(owed[p], Rate) IN
       \/ /\ age[p] + Delay(chunk) <= AdaptiveTimeout
          /\ tokens' = tokens - chunk
          /\ owed' = [owed EXCEPT ![p] = @ - chunk]
          /\ due' = [due EXCEPT ![p] = Delay(chunk)]
          /\ UNCHANGED <<pc, attempt, age, pause, throttled, sent, pending, room, world, released>>
       \/ /\ age[p] + Delay(chunk) > AdaptiveTimeout
          /\ AttemptFails(p, TRUE, FALSE)
    /\ UNCHANGED <<faulty, timedOut>>

\* The Read returns and the transport writes its bytes to the connection.
Send(p) ==
    /\ Sending(p) /\ pending[p] > 0 /\ owed[p] = 0 /\ due[p] = 0
    /\ sent' = [sent EXCEPT ![p] = @ + pending[p]]
    /\ room' = [room EXCEPT ![p] = @ - pending[p]]
    /\ released' = released + pending[p]
    /\ pending' = [pending EXCEPT ![p] = 0]
    /\ UNCHANGED <<pc, attempt, age, pause, throttled, owed, due, tokens, world, faulty, timedOut>>

Answer(p) ==
    /\ Sending(p) /\ Connected(p) /\ sent[p] = Size
    /\ pc' = [pc EXCEPT ![p] = "ok"]
    /\ UNCHANGED <<attempt, age, pause, throttled, sent, pending, owed, due, room, tokens, world, released, faulty, timedOut>>

AttemptTimesOut(p) ==
    /\ pc[p] = "send" /\ ~Cancelled /\ age[p] >= Deadline
    /\ AttemptFails(p, TRUE, FALSE)
    /\ timedOut' = timedOut \cup {age[p]}
    /\ UNCHANGED faulty

-----------------------------------------------------------------------------
(* The user, the link and the clock. *)

Cancel ==
    /\ ~cancelled /\ \E p \in Parts : ~Over(p)
    /\ cancelled' = TRUE
    /\ UNCHANGED <<parts, tokens, up, stale, now, released, faulty, timedOut>>

\* A fault: the pause does not watch the context.
PausesDeaf(p) == pc[p] = "pause" /\ pause[p] > 0

\* What a part waits for: the end of its pause or of the context, the answer or more of
\* the link, a grant of the limiter.
Pauses(p) == pc[p] = "pause" /\ pause[p] > 0 /\ ~Cancelled
Transmits(p) ==
    /\ Sending(p)
    /\ \/ due[p] > 0
       \/ owed[p] = 0 /\ pending[p] = 0 /\ sent[p] < Size /\ NextRead(p) > room[p]
       \/ owed[p] = 0 /\ pending[p] = 0 /\ ~Connected(p)

Tick ==
    /\ \A p \in Parts : Over(p) \/ Pauses(p) \/ Transmits(p)
    /\ \E p \in Parts : ~Over(p)
    /\ now' = now + 1
    /\ age' = [p \in Parts |-> IF pc[p] = "send" THEN age[p] + 1 ELSE age[p]]
    /\ pause' = [p \in Parts |-> More(0, pause[p] - 1)]
    /\ due' = [p \in Parts |-> More(0, due[p] - 1)]
    /\ tokens' = Less(Rate, tokens + Rate)
    /\ up' \in BOOLEAN
    /\ room' = [p \in Parts |-> LinkSpeed]
    /\ faulty' = (faulty \/ ~up')
    /\ UNCHANGED <<pc, attempt, throttled, sent, pending, owed, stale, cancelled, released, timedOut>>

PartStep(p) ==
    \/ Allow(p) \/ PauseEnds(p) \/ ReturnCancelled(p) \/ StaleConnection(p) \/ ServerFails(p)
    \/ Read(p) \/ WaitN(p) \/ Send(p) \/ Answer(p) \/ AttemptTimesOut(p)

\* The errgroup's Wait returns.
Finished == (\A p \in Parts : Over(p)) /\ UNCHANGED vars

Next == (\E p \in Parts : PartStep(p)) \/ Cancel \/ Tick \/ Finished

Spec == Init /\ [][Next]_vars

-----------------------------------------------------------------------------
(* Properties. *)

TypeOK ==
    /\ pc \in [Parts -> {"allow", "pause", "send", "ok", "failed", "cancelled"}]
    /\ attempt \in [Parts -> 1..MaxAttempts]
    /\ age \in [Parts -> 0..Deadline]
    /\ pause \in [Parts -> 0..MaxDelay] /\ throttled \in [Parts -> BOOLEAN]
    /\ sent \in [Parts -> 0..Size] /\ pending \in [Parts -> 0..ReadSize]
    /\ owed \in [Parts -> 0..ReadSize] /\ due \in [Parts -> Nat]
    /\ room \in [Parts -> 0..LinkSpeed] /\ tokens \in Int /\ tokens <= Rate
    /\ up \in BOOLEAN /\ stale \in BOOLEAN /\ cancelled \in BOOLEAN /\ faulty \in BOOLEAN
    /\ now \in Nat /\ released \in Nat /\ timedOut \subseteq Nat

\* A part fails only when something outside the program went wrong: the link was down, the
\* server answered with an error, the breaker refused.  Dead pooled connections are not a
\* reason, a retry opens a new one, and neither is a bandwidth limit: "an oversized single
\* Read simply takes several WaitN calls ... rather than erroring out" (ratelimit.go wait).
FailsForCause == (\E p \in Parts : pc[p] = "failed") => faulty

\* An attempt that times out had the time that AdaptiveTimeout gives for its size, "a
\* per-attempt timeout for transferring partSize bytes" (retry.go).
AdaptiveTimeIsGiven == \A t \in timedOut : t >= AdaptiveTimeout

\* However the link and the server behave, WithRetry is over when every attempt has had its
\* deadline and every pause its longest: no policy, throttling or limit makes it hang.
RetriesAreBounded == now <= MaxAttempts * Deadline + (MaxAttempts - 1) * MaxDelay

\* All parts together never pass more than the limit: the bucket's first second and what
\* has been refilled since (ratelimit.go newBandwidthDirectionLimiter).
LimitHolds == Rate > 0 => released <= Rate + Rate * now

\* A pause or a cancel is "reacted to instantly": no time passes before every part of the
\* task has returned (retry.go sleepBackoff, ratelimit.go WrapUploadReader).
CancelIsInstant == [][Cancelled /\ (\E p \in Parts : ~Over(p)) => now' = now]_vars

\* Parts fail for a cause, and time out only after their time.
PartsAreServed == FailsForCause /\ AdaptiveTimeIsGiven

\* Neither the retries of a part outlast their bound nor do all parts together pass more
\* than the limit, in every typed state.
BoundsHold == TypeOK /\ RetriesAreBounded /\ LimitHolds

=============================================================================
