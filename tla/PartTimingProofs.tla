--------------------------- MODULE PartTimingProofs ---------------------------
(***************************************************************************)
(* WithRetry ends in bounded time, the parts together keep the bandwidth   *)
(* limit, and a pause or a cancel takes no time, for any parts, sizes,     *)
(* limits and policy; and where the deadline leaves the time that the link *)
(* and the limit take, no part fails without a cause outside the program.  *)
(*                                                                         *)
(* Time: the invariant follows each part that is not over.  By its n-th    *)
(* attempt at most n - 1 deadlines and n - 1 pauses have passed, and of    *)
(* the attempt or the pause that runs no more than its own bound.          *)
(*                                                                         *)
(* Bandwidth: a bucket in debt promises units for later ticks, so that the *)
(* units let through by now say nothing of the next tick.  The invariant   *)
(* bounds what is let through within every number k of ticks from now.     *)
(*                                                                         *)
(* Service: an attempt waits for the link or for the limiter.  The first   *)
(* is bounded by the part's own size.  The second is not, parts overtake   *)
(* each other, but the bucket is then in debt and every refill pays for    *)
(* bytes of some part: the invariant counts the refills against the bytes  *)
(* that all parts have been granted.                                       *)
(***************************************************************************)
EXTENDS PartTiming, FiniteSetTheorems, TLAPS

\* The time that n attempts and the pauses after them may take.
Allowance(n) == n * (Deadline + MaxDelay)

ClockType ==
    /\ now \in Nat
    /\ pc \in [Parts -> {"allow", "pause", "send", "ok", "failed", "cancelled"}]
    /\ attempt \in [Parts -> 1..MaxAttempts]
    /\ age \in [Parts -> Nat]
    /\ pause \in [Parts -> Nat]

OnTime(p) ==
    /\ pc[p] = "allow" =>
          IF attempt[p] = 1 THEN now = 0 ELSE now + MaxDelay <= Allowance(attempt[p] - 1)
    /\ pc[p] = "pause" => now + pause[p] <= Allowance(attempt[p] - 1)
    /\ pc[p] = "send" => age[p] <= Deadline /\ now <= Allowance(attempt[p] - 1) + age[p]

InTime == now <= Allowance(MaxAttempts - 1) + Deadline

ClockInv == ClockType /\ (\A p \in Parts : OnTime(p)) /\ InTime

-----------------------------------------------------------------------------
LEMMA DeadlineNat == Deadline \in Nat
  BY TimingAssumption DEF Deadline, AdaptiveTimeout, Less, More, CeilDiv

LEMMA AllowanceGrows ==
  ASSUME NEW a \in Nat, NEW b \in Nat, a <= b
  PROVE  /\ Allowance(a) \in Nat /\ Allowance(b) \in Nat
         /\ Allowance(a) <= Allowance(b)
  <1> DEFINE K == Deadline + MaxDelay
  <1>1. K \in Nat  BY DeadlineNat, TimingAssumption
  <1> HIDE DEF K
  <1>2. a * K \in Nat /\ b * K \in Nat /\ a * K <= b * K  BY <1>1
  <1> QED  BY <1>2 DEF Allowance, K

LEMMA AllowanceNext ==
  ASSUME NEW a \in Nat
  PROVE  Allowance(a + 1) = Allowance(a) + Deadline + MaxDelay
  <1> DEFINE K == Deadline + MaxDelay
  <1>1. K \in Nat  BY DeadlineNat, TimingAssumption
  <1> HIDE DEF K
  <1>2. (a + 1) * K = a * K + K  BY <1>1
  <1>3. a * K \in Nat  BY <1>1
  <1>4. (a + 1) * (Deadline + MaxDelay) = a * (Deadline + MaxDelay) + (Deadline + MaxDelay)
    BY <1>2 DEF K
  <1>5. a * (Deadline + MaxDelay) \in Nat  BY <1>3 DEF K
  <1> DEFINE L == a * (Deadline + MaxDelay)
  <1> HIDE DEF L
  <1>6. L + (Deadline + MaxDelay) = L + Deadline + MaxDelay
    BY <1>5, DeadlineNat, TimingAssumption DEF L
  <1> QED  BY <1>4, <1>6 DEF Allowance, L

LEMMA InitClock == Init => ClockInv
  <1> SUFFICES ASSUME Init PROVE ClockInv  OBVIOUS
  <1>1. ClockType  BY TimingAssumption DEF Init, ClockType
  <1>2. \A p \in Parts : OnTime(p)  BY DEF Init, OnTime
  <1>3. InTime
    BY DeadlineNat, AllowanceGrows, TimingAssumption DEF Init, InTime
  <1> QED  BY <1>1, <1>2, <1>3 DEF ClockInv

\* A failed attempt leaves the part room for the pause that may follow.
LEMMA AttemptFailsOnTime ==
  ASSUME ClockInv, NEW p \in Parts, NEW r \in BOOLEAN, NEW f \in BOOLEAN,
         pc[p] = "send", AttemptFails(p, r, f)
  PROVE  ClockInv'
  <1> USE DEF ClockInv
  <1>1. UNCHANGED <<now, age, pause>>  BY DEF AttemptFails, world
  <1>2. ClockType'
    BY <1>1, TimingAssumption DEF ClockType, AttemptFails, Less
  <1>3. ASSUME NEW q \in Parts PROVE OnTime(q)'
    <2>1. CASE q # p
      BY <1>1, <2>1 DEF OnTime, AttemptFails, ClockType, Allowance, Deadline, AdaptiveTimeout
    <2>2. CASE q = p
      <3>1. CASE ~(r /\ attempt[p] < MaxAttempts)
        BY <2>2, <3>1 DEF OnTime, AttemptFails, ClockType
      <3>2. CASE r /\ attempt[p] < MaxAttempts
        <4>1. /\ pc'[p] = "allow" /\ attempt'[p] = attempt[p] + 1
              /\ attempt[p] \in Nat \ {0}
          BY <3>2, TimingAssumption DEF AttemptFails, ClockType, Less
        <4>2. age[p] <= Deadline /\ now <= Allowance(attempt[p] - 1) + age[p]
          BY DEF OnTime
        <4>3. Allowance(attempt[p]) = Allowance(attempt[p] - 1) + Deadline + MaxDelay
          <5>1. attempt[p] - 1 \in Nat /\ (attempt[p] - 1) + 1 = attempt[p]  BY <4>1
          <5> QED  BY <5>1, AllowanceNext
        <4>4. Allowance(attempt[p] - 1) \in Nat
          BY <4>1, AllowanceGrows
        <4>5. now + MaxDelay <= Allowance(attempt[p])
          BY <4>2, <4>3, <4>4, DeadlineNat, TimingAssumption DEF ClockType
        <4>6. Allowance(attempt[p])' = Allowance(attempt'[p])  BY DEF Allowance, Deadline,
        AdaptiveTimeout
        <4>7. attempt'[p] - 1 = attempt[p] /\ attempt'[p] # 1  BY <4>1
        <4>8. now' + MaxDelay <= Allowance(attempt'[p] - 1)  BY <1>1, <4>5, <4>7
        <4> QED  BY <2>2, <4>1, <4>7, <4>8 DEF OnTime, Allowance, Deadline, AdaptiveTimeout
      <3> QED  BY <3>1, <3>2
    <2> QED  BY <2>1, <2>2
  <1>4. InTime'  BY <1>1 DEF InTime, Allowance, Deadline, AdaptiveTimeout
  <1> QED  BY <1>2, <1>3, <1>4

\* A step of a part that changes none of what the invariant speaks of, except that it may
\* have come to its end.
LEMMA QuietOnTime ==
  ASSUME ClockInv, UNCHANGED <<attempt, age, pause, now>>,
         pc' \in [Parts -> {"allow", "pause", "send", "ok", "failed", "cancelled"}],
         \A q \in Parts : pc'[q] = pc[q] \/ pc'[q] \in {"ok", "failed", "cancelled"}
  PROVE  ClockInv'
  <1> USE DEF ClockInv
  <1>1. ClockType'  BY DEF ClockType
  <1>2. ASSUME NEW q \in Parts PROVE OnTime(q)'
    BY DEF OnTime, Allowance, Deadline, AdaptiveTimeout
  <1>3. InTime'  BY DEF InTime, Allowance, Deadline, AdaptiveTimeout
  <1> QED  BY <1>1, <1>2, <1>3

LEMMA StartAttemptOnTime ==
  ASSUME ClockInv, NEW p \in Parts, StartAttempt(p), UNCHANGED <<pause, now>>,
         \/ pc[p] = "allow" /\ attempt[p] = 1
         \/ pc[p] = "pause" /\ pause[p] = 0
  PROVE  ClockInv'
  <1> USE DEF ClockInv
  <1>1. ClockType'  BY DEF ClockType, StartAttempt
  <1>2. ASSUME NEW q \in Parts PROVE OnTime(q)'
    <2>1. CASE q # p
      BY <2>1 DEF OnTime, StartAttempt, ClockType, Allowance, Deadline, AdaptiveTimeout
    <2>2. CASE q = p
      <3>1. pc'[p] = "send" /\ age'[p] = 0 /\ attempt' = attempt
        BY DEF StartAttempt, ClockType
      <3>2. attempt[p] - 1 \in Nat  BY DEF ClockType
      <3>3. Allowance(attempt[p] - 1) \in Nat  BY <3>2, AllowanceGrows
      <3>4. now <= Allowance(attempt[p] - 1)
        BY <3>3 DEF OnTime, ClockType
      <3>5. now <= Allowance(attempt[p] - 1) + 0 /\ 0 <= Deadline
        BY <3>3, <3>4, DeadlineNat
      <3> QED  BY <2>2, <3>1, <3>5 DEF OnTime, Allowance, Deadline, AdaptiveTimeout
    <2> QED  BY <2>1, <2>2
  <1>3. InTime'  BY DEF InTime, Allowance, Deadline, AdaptiveTimeout
  <1> QED  BY <1>1, <1>2, <1>3

LEMMA AllowOnTime == ASSUME ClockInv, NEW p \in Parts, Allow(p) PROVE ClockInv'
  <1> USE DEF ClockInv
  <1>1. pc[p] = "allow" /\ now' = now  BY DEF Allow, world
  <1>2. CASE attempt[p] = 1 /\ StartAttempt(p) /\ UNCHANGED pause
    BY <1>1, <1>2, StartAttemptOnTime
  <1>3. CASE pc' = [pc EXCEPT ![p] = "failed"] /\ UNCHANGED <<attempt, age, pause>>
    BY <1>1, <1>3, QuietOnTime DEF ClockType
  <1>4. ASSUME attempt[p] > 1, NEW d \in backoffDelay(attempt[p] - 1, throttled[p]),
               pause' = [pause EXCEPT ![p] = d], pc' = [pc EXCEPT ![p] = "pause"],
               UNCHANGED <<attempt, age>>
        PROVE  ClockInv'
    <2>1. d \in Nat /\ d <= MaxDelay  BY <1>4, TimingAssumption DEF backoffDelay
    <2>2. ClockType'  BY <1>1, <1>4, <2>1 DEF ClockType
    <2>3. ASSUME NEW q \in Parts PROVE OnTime(q)'
      <3>1. CASE q # p
        BY <1>1, <1>4, <3>1 DEF OnTime, ClockType, Allowance, Deadline, AdaptiveTimeout
      <3>2. CASE q = p
        <4>1. attempt[p] - 1 \in Nat /\ attempt[p] # 1  BY <1>4 DEF ClockType
        <4>2. Allowance(attempt[p] - 1) \in Nat  BY <4>1, AllowanceGrows
        <4>3. now + MaxDelay <= Allowance(attempt[p] - 1)  BY <1>1, <4>1 DEF OnTime
        <4>4. now + d <= Allowance(attempt[p] - 1)
          BY <2>1, <4>2, <4>3, TimingAssumption DEF ClockType
        <4>5. pc'[p] = "pause" /\ pause'[p] = d /\ attempt' = attempt
          BY <1>4 DEF ClockType
        <4> QED  BY <1>1, <3>2, <4>4, <4>5 DEF OnTime, Allowance, Deadline, AdaptiveTimeout
      <3> QED  BY <3>1, <3>2
    <2>4. InTime'  BY <1>1 DEF InTime, Allowance, Deadline, AdaptiveTimeout
    <2> QED  BY <2>2, <2>3, <2>4
  <1> QED  BY <1>2, <1>3, <1>4 DEF Allow

LEMMA TickOnTime == ASSUME ClockInv, Tick PROVE ClockInv'
  <1> USE DEF ClockInv
  <1>1. UNCHANGED <<pc, attempt>> /\ now' = now + 1  BY DEF Tick
  <1>2. /\ age' = [p \in Parts |-> IF pc[p] = "send" THEN age[p] + 1 ELSE age[p]]
        /\ pause' = [p \in Parts |-> More(0, pause[p] - 1)]
    BY DEF Tick
  <1>3. ClockType'  BY <1>1, <1>2 DEF ClockType, More
  <1>4. ASSUME NEW p \in Parts, ~Over(p)
        PROVE  OnTime(p)' /\ InTime'
    <2>1. attempt[p] - 1 \in Nat /\ MaxAttempts - 1 \in Nat /\ attempt[p] - 1 <= MaxAttempts - 1
      BY TimingAssumption DEF ClockType
    <2>2. /\ Allowance(attempt[p] - 1) \in Nat /\ Allowance(MaxAttempts - 1) \in Nat
          /\ Allowance(attempt[p] - 1) <= Allowance(MaxAttempts - 1)
      BY <2>1, AllowanceGrows
    <2>3. CASE Pauses(p)
      <3>1. pc[p] = "pause" /\ pause[p] > 0 /\ now + pause[p] <= Allowance(attempt[p] - 1)
        BY <2>3 DEF Pauses, OnTime
      <3>2. pause'[p] = pause[p] - 1  BY <1>2, <3>1 DEF ClockType, More
      <3>3. now + 1 + (pause[p] - 1) <= Allowance(attempt[p] - 1)
        BY <2>2, <3>1 DEF ClockType
      <3>4. now + 1 <= Allowance(MaxAttempts - 1) + Deadline
        BY <2>2, <3>1, DeadlineNat DEF ClockType
      <3>5. OnTime(p)'
        BY <1>1, <3>1, <3>2, <3>3 DEF OnTime, Allowance, Deadline, AdaptiveTimeout
      <3> QED  BY <1>1, <3>4, <3>5 DEF InTime, Allowance, Deadline, AdaptiveTimeout
    <2>4. CASE Transmits(p)
      <3>1. pc[p] = "send" /\ age[p] < Deadline /\ now <= Allowance(attempt[p] - 1) + age[p]
        BY <2>4 DEF Transmits, Sending, OnTime
      <3>2. age'[p] = age[p] + 1  BY <1>2, <3>1
      <3>3. /\ age[p] + 1 <= Deadline
            /\ now + 1 <= Allowance(attempt[p] - 1) + (age[p] + 1)
            /\ now + 1 <= Allowance(MaxAttempts - 1) + Deadline
        BY <2>2, <3>1, DeadlineNat DEF ClockType
      <3>4. OnTime(p)'
        BY <1>1, <3>1, <3>2, <3>3 DEF OnTime, Allowance, Deadline, AdaptiveTimeout
      <3> QED  BY <1>1, <3>3, <3>4 DEF InTime, Allowance, Deadline, AdaptiveTimeout
    <2> QED  BY <1>4, <2>3, <2>4 DEF Tick
  <1>5. ASSUME NEW p \in Parts, Over(p) PROVE OnTime(p)'
    BY <1>1, <1>5 DEF Over, OnTime
  <1>6. PICK p \in Parts : ~Over(p)  BY DEF Tick
  <1>7. InTime'  BY <1>4, <1>6
  <1> QED  BY <1>3, <1>4, <1>5, <1>7

-----------------------------------------------------------------------------
LEMMA NextClock == ClockInv /\ [Next]_vars => ClockInv'
  <1> SUFFICES ASSUME ClockInv, [Next]_vars PROVE ClockInv'  OBVIOUS
  <1>1. ASSUME NEW p \in Parts, Allow(p) PROVE ClockInv'
    BY <1>1, AllowOnTime
  <1>2. ASSUME NEW p \in Parts, PauseEnds(p) PROVE ClockInv'
    BY <1>2, StartAttemptOnTime DEF PauseEnds, world
  <1>3. ASSUME NEW p \in Parts, ReturnCancelled(p) PROVE ClockInv'
    BY <1>3, QuietOnTime DEF ReturnCancelled, world, ClockInv, ClockType
  <1>4. ASSUME NEW p \in Parts, StaleConnection(p) PROVE ClockInv'
    BY <1>4, AttemptFailsOnTime DEF StaleConnection, Sending
  <1>5. ASSUME NEW p \in Parts, ServerFails(p) PROVE ClockInv'
    <2>1. pc[p] = "send"  BY <1>5 DEF ServerFails
    <2>2. PICK e \in {"network", "throttling", "auth"} : AttemptFails(p, e # "auth",
    e = "throttling")
      BY <1>5 DEF ServerFails
    <2>3. (e # "auth") \in BOOLEAN /\ (e = "throttling") \in BOOLEAN  OBVIOUS
    <2> QED  BY <2>1, <2>2, <2>3, AttemptFailsOnTime
  <1>6. ASSUME NEW p \in Parts, Read(p) PROVE ClockInv'
    BY <1>6, QuietOnTime DEF Read, world, ClockInv, ClockType
  <1>7. ASSUME NEW p \in Parts, WaitN(p) PROVE ClockInv'
    <2>1. CASE UNCHANGED <<pc, attempt, age, pause, world>>
      BY <2>1, QuietOnTime DEF world, ClockInv, ClockType
    <2>2. CASE AttemptFails(p, TRUE, FALSE)
      BY <1>7, <2>2, AttemptFailsOnTime DEF WaitN, Sending
    <2> QED  BY <1>7, <2>1, <2>2 DEF WaitN
  <1>8. ASSUME NEW p \in Parts, Send(p) PROVE ClockInv'
    BY <1>8, QuietOnTime DEF Send, world, ClockInv, ClockType
  <1>9. ASSUME NEW p \in Parts, Answer(p) PROVE ClockInv'
    BY <1>9, QuietOnTime DEF Answer, world, ClockInv, ClockType
  <1>10. ASSUME NEW p \in Parts, AttemptTimesOut(p) PROVE ClockInv'
    BY <1>10, AttemptFailsOnTime DEF AttemptTimesOut
  <1>11. CASE Cancel
    BY <1>11, QuietOnTime DEF Cancel, parts, ClockInv, ClockType
  <1>12. CASE Tick
    BY <1>12, TickOnTime
  <1>13. CASE UNCHANGED vars
    BY <1>13, QuietOnTime DEF vars, parts, world, ClockInv, ClockType
  <1> QED
    BY <1>1, <1>2, <1>3, <1>4, <1>5, <1>6, <1>7, <1>8, <1>9, <1>10, <1>11, <1>12, <1>13
    DEF Next, PartStep, Finished

\* However the link, the server and the user behave, no part's WithRetry (s3client/retry.go)
\* outlasts its deadlines and longest pauses: a transfer cannot hang in its retries.
THEOREM RetriesEnd == Spec => []RetriesAreBounded
  <1>1. ClockInv => RetriesAreBounded
    <2> SUFFICES ASSUME ClockInv PROVE RetriesAreBounded  OBVIOUS
    <2> DEFINE M == MaxAttempts - 1
    <2>1. M \in Nat /\ MaxAttempts = M + 1  BY TimingAssumption
    <2>2. now <= M * (Deadline + MaxDelay) + Deadline
      BY DEF ClockInv, InTime, Allowance
    <2>3. Deadline \in Nat /\ MaxDelay \in Nat /\ now \in Nat
      BY DeadlineNat, TimingAssumption DEF ClockInv, ClockType
    <2>4. now <= (M + 1) * Deadline + M * MaxDelay
      <3> DEFINE D == Deadline
      <3> HIDE DEF M, D
      <3>1. D \in Nat /\ now <= M * (D + MaxDelay) + D  BY <2>2, <2>3 DEF D
      <3>2. M * (D + MaxDelay) = M * D + M * MaxDelay /\ (M + 1) * D = M * D + D
        BY <2>1, <2>3, <3>1
      <3>3. M * D \in Nat /\ M * MaxDelay \in Nat  BY <2>1, <2>3, <3>1
      <3>4. now <= (M + 1) * D + M * MaxDelay  BY <2>3, <3>1, <3>2, <3>3
      <3> QED  BY <3>4 DEF D
    <2> QED  BY <2>1, <2>4 DEF RetriesAreBounded, M
  <1> QED  BY InitClock, NextClock, <1>1, PTL DEF Spec

\* A pause or a cancel is acted on before any time passes: every part that is not over returns
\* from its pause, its wait for the limiter or its request first (sleepBackoff, WrapUploadReader).
THEOREM CancelIsInstantAlways == Spec => CancelIsInstant
  <1>1. ASSUME [Next]_vars, Cancelled, NEW p \in Parts, ~Over(p)
        PROVE  now' = now
    <2>1. ~Tick
      BY <1>1 DEF Tick, Pauses, Transmits, Sending
    <2>2. ASSUME NEW q \in Parts, PartStep(q)
          PROVE  now' = now
      BY <2>2
      DEF PartStep, Allow, PauseEnds, ReturnCancelled, StaleConnection, ServerFails, Read,
          WaitN,
          Send, Answer, AttemptTimesOut, AttemptFails, world
    <2>3. CASE Cancel
      BY <2>3 DEF Cancel
    <2>4. CASE UNCHANGED vars
      BY <2>4 DEF vars, world
    <2> QED  BY <1>1, <2>1, <2>2, <2>3, <2>4 DEF Next, Finished
  <1>2. [Next]_vars => [Cancelled /\ (\E p \in Parts : ~Over(p)) => now' = now]_vars
    BY <1>1
  <1> QED  BY <1>2, PTL DEF Spec, CancelIsInstant

-----------------------------------------------------------------------------
(* Types, and what a part holds of the link and of the limiter. *)

\* A wait of x / y ticks, rounded up, is enough for x units at y a tick.
LEMMA CeilDivCovers ==
  ASSUME NEW x \in Nat, NEW y \in Nat \ {0}
  PROVE  CeilDiv(x, y) \in Nat /\ y * CeilDiv(x, y) >= x /\ (x > 0 => CeilDiv(x, y) >= 1)
  BY DEF CeilDiv

LEMMA RemainderIsLess ==
  ASSUME NEW x \in Nat, NEW y \in Nat \ {0}
  PROVE  x % y \in 0..(y - 1) /\ x % y <= x
  OBVIOUS

\* What part p has of the limiter: the units of its Read for which it was given a time.
Granted(p) == pending[p] - owed[p]

\* What part p has read fits what it may send, and what it waits for was granted to it.
Holds(p) ==
    /\ pc[p] # "send" => pending[p] = 0
    /\ owed[p] <= pending[p] /\ pending[p] <= room[p]
    /\ pc[p] = "send" => sent[p] + pending[p] <= Size
    /\ due[p] > 0 => Rate > 0 /\ Granted(p) > 0
    /\ due[p] > 0 /\ owed[p] > 0 => Granted(p) >= Rate
    /\ Rate = 0 => owed[p] = 0

TypeInv == TypeOK /\ \A p \in Parts : Holds(p)

LEMMA InitTypeInv == Init => TypeInv
  <1> SUFFICES ASSUME Init PROVE TypeInv  OBVIOUS
  <1>1. TypeOK
    <2>1. 1 \in 1..MaxAttempts /\ 0 \in 0..Deadline /\ 0 \in 0..MaxDelay /\ 0 \in 0..Size
          /\ 0 \in 0..ReadSize /\ LinkSpeed \in 0..LinkSpeed /\ Rate \in Int
      BY TimingAssumption, DeadlineNat
    <2>2. /\ pc \in [Parts -> {"allow", "pause", "send", "ok", "failed", "cancelled"}]
          /\ attempt \in [Parts -> 1..MaxAttempts] /\ age \in [Parts -> 0..Deadline]
          /\ pause \in [Parts -> 0..MaxDelay] /\ throttled \in [Parts -> BOOLEAN]
      BY <2>1 DEF Init
    <2>3. /\ sent \in [Parts -> 0..Size] /\ pending \in [Parts -> 0..ReadSize]
          /\ owed \in [Parts -> 0..ReadSize] /\ due \in [Parts -> Nat]
          /\ room \in [Parts -> 0..LinkSpeed]
      BY <2>1 DEF Init
    <2>4. tokens \in Int /\ tokens <= Rate  BY <2>1 DEF Init
    <2> QED  BY <2>2, <2>3, <2>4 DEF Init, TypeOK
  <1>2. ASSUME NEW p \in Parts PROVE Holds(p)
    BY TimingAssumption DEF Init, Holds, Granted
  <1> QED  BY <1>1, <1>2 DEF TypeInv

\* The grant that an abandoned Read gives back is part of what it had.
LEMMA GrantIsGranted ==
  ASSUME TypeInv, NEW p \in Parts
  PROVE  Grant(p) \in Nat /\ Granted(p) \in Nat /\ Grant(p) <= Granted(p)
  <1>1. /\ pending[p] \in Nat /\ owed[p] \in Nat /\ owed[p] <= pending[p] /\ due[p] \in Nat
        /\ Rate \in Nat
    BY TimingAssumption DEF TypeInv, TypeOK, Holds
  <1>2. CASE due[p] = 0  BY <1>1, <1>2 DEF Grant, Granted
  <1>3. CASE due[p] > 0 /\ owed[p] > 0
    BY <1>1, <1>3 DEF Grant, Granted, TypeInv, Holds
  <1>4. CASE due[p] > 0 /\ owed[p] = 0
    <2>1. Rate > 0 /\ pending[p] > 0  BY <1>1, <1>4 DEF TypeInv, Holds, Granted
    <2>2. (pending[p] - 1) % Rate <= pending[p] - 1 /\ (pending[p] - 1) % Rate \in Nat
      <3>1. pending[p] - 1 \in Nat /\ Rate \in Nat \ {0}  BY <1>1, <2>1
      <3>2. (pending[p] - 1) % Rate \in 0..(Rate - 1)  BY <3>1, RemainderIsLess
      <3>3. (pending[p] - 1) % Rate <= pending[p] - 1  BY <3>1, RemainderIsLess
      <3> QED  BY <3>1, <3>2, <3>3
    <2> DEFINE R == (pending[p] - 1) % Rate
    <2>3. Grant(p) = R + 1  BY <1>4 DEF Grant
    <2>4. R \in Nat /\ R <= pending[p] - 1  BY <2>2
    <2> HIDE DEF R
    <2>5. Granted(p) = pending[p]  BY <1>1, <1>4 DEF Granted
    <2> QED  BY <2>3, <2>4, <2>5, <1>1
  <1> QED  BY <1>1, <1>2, <1>3, <1>4

LEMMA AbandonReadTyped ==
  ASSUME TypeInv, NEW p \in Parts, AbandonRead(p), UNCHANGED <<sent, room>>,
         \A q \in Parts \ {p} : pc'[q] = pc[q], pc'[p] # "send"
  PROVE  /\ pending' \in [Parts -> 0..ReadSize] /\ owed' \in [Parts -> 0..ReadSize]
         /\ due' \in [Parts -> Nat] /\ tokens' \in Int /\ tokens' <= Rate
         /\ \A q \in Parts : Holds(q)'
  <1>1. /\ pending \in [Parts -> 0..ReadSize] /\ owed \in [Parts -> 0..ReadSize]
        /\ due \in [Parts -> Nat] /\ tokens \in Int /\ tokens <= Rate
        /\ Rate \in Nat /\ ReadSize \in Nat
    BY TimingAssumption DEF TypeInv, TypeOK
  <1>2. /\ pending' = [pending EXCEPT ![p] = 0] /\ owed' = [owed EXCEPT ![p] = 0]
        /\ due' = [due EXCEPT ![p] = 0] /\ tokens' \in {tokens, Less(Rate, tokens + Grant(p))}
    BY DEF AbandonRead
  <1>3. tokens' \in Int /\ tokens' <= Rate
    <2>1. Grant(p) \in Nat  BY GrantIsGranted
    <2> QED  BY <1>1, <1>2, <2>1 DEF Less
  <1>4. ASSUME NEW q \in Parts PROVE Holds(q)'
    <2>1. CASE q # p
      <3>1. /\ pc'[q] = pc[q] /\ sent'[q] = sent[q] /\ room'[q] = room[q]
            /\ pending'[q] = pending[q] /\ owed'[q] = owed[q] /\ due'[q] = due[q]
        BY <2>1, <1>1, <1>2
      <3> QED  BY <3>1 DEF TypeInv, Holds, Granted
    <2>2. CASE q = p
      <3>1. room[p] \in Nat  BY TimingAssumption DEF TypeInv, TypeOK
      <3> QED  BY <2>2, <3>1, <1>1, <1>2 DEF Holds, Granted
    <2> QED  BY <2>1, <2>2
  <1> QED  BY <1>1, <1>2, <1>3, <1>4

LEMMA AttemptFailsTyped ==
  ASSUME TypeInv, NEW p \in Parts, NEW r \in BOOLEAN, NEW f \in BOOLEAN,
         AttemptFails(p, r, f), faulty' \in BOOLEAN,
         timedOut' = timedOut \/ timedOut' = timedOut \cup {age[p]}
  PROVE  TypeInv'
  <1>1. /\ pc' = [pc EXCEPT ![p] = IF r /\ attempt[p] < MaxAttempts THEN "allow" ELSE "failed"]
        /\ attempt' = [attempt EXCEPT ![p] = Less(@ + 1, MaxAttempts)]
        /\ throttled' = [throttled EXCEPT ![p] = f] /\ AbandonRead(p)
        /\ UNCHANGED <<age, pause, sent, room, up, stale, cancelled, now, released>>
    BY DEF AttemptFails, world
  <1>2. pc'[p] # "send" /\ \A q \in Parts \ {p} : pc'[q] = pc[q]
    BY <1>1 DEF TypeInv, TypeOK
  <1>3. /\ pending' \in [Parts -> 0..ReadSize] /\ owed' \in [Parts -> 0..ReadSize]
        /\ due' \in [Parts -> Nat] /\ tokens' \in Int /\ tokens' <= Rate
        /\ \A q \in Parts : Holds(q)'
    BY <1>1, <1>2, AbandonReadTyped
  <1>4. attempt' \in [Parts -> 1..MaxAttempts]
    BY <1>1, TimingAssumption DEF TypeInv, TypeOK, Less
  <1>5. pc' \in [Parts -> {"allow", "pause", "send", "ok", "failed", "cancelled"}]
    BY <1>1 DEF TypeInv, TypeOK
  <1>6. timedOut' \subseteq Nat
    <2>1. age[p] \in Nat  BY DeadlineNat DEF TypeInv, TypeOK
    <2> QED  BY <2>1 DEF TypeInv, TypeOK
  <1>7. throttled' \in [Parts -> BOOLEAN]  BY <1>1 DEF TypeInv, TypeOK
  <1>8. /\ age' \in [Parts -> 0..Deadline] /\ pause' \in [Parts -> 0..MaxDelay]
        /\ sent' \in [Parts -> 0..Size] /\ room' \in [Parts -> 0..LinkSpeed]
        /\ up' \in BOOLEAN /\ stale' \in BOOLEAN /\ cancelled' \in BOOLEAN
        /\ now' \in Nat /\ released' \in Nat
    BY <1>1 DEF TypeInv, TypeOK
  <1>9. TypeOK'
    BY <1>3, <1>4, <1>5, <1>6, <1>7, <1>8 DEF TypeOK, Deadline, AdaptiveTimeout
  <1> QED  BY <1>3, <1>9 DEF TypeInv

\* Steps that change none of what a part holds of its Read, though some parts may begin or
\* end an attempt with nothing read.
LEMMA QuietTyped ==
  ASSUME TypeInv, UNCHANGED <<pending, owed, due, room>>,
         pc' \in [Parts -> {"allow", "pause", "send", "ok", "failed", "cancelled"}],
         sent' \in [Parts -> 0..Size],
         NEW p \in Parts, \A q \in Parts \ {p} : pc'[q] = pc[q] /\ sent'[q] = sent[q],
         \/ pc'[p] = pc[p] /\ sent'[p] = sent[p]
         \/ pending[p] = 0 /\ (pc'[p] = "send" => sent'[p] = 0)
  PROVE  \A q \in Parts : Holds(q)'
  <1> SUFFICES ASSUME NEW q \in Parts PROVE Holds(q)'  OBVIOUS
  <1>1. Holds(q) /\ Size \in Nat  BY TimingAssumption DEF TypeInv
  <1>2. CASE pc'[q] = pc[q] /\ sent'[q] = sent[q]
    BY <1>1, <1>2 DEF Holds, Granted
  <1>3. CASE pending[q] = 0 /\ (pc'[q] = "send" => sent'[q] = 0)
    BY <1>1, <1>3 DEF Holds, Granted
  <1> QED  BY <1>2, <1>3

LEMMA NextTypeInv == TypeInv /\ [Next]_vars => TypeInv'
  <1> SUFFICES ASSUME TypeInv, [Next]_vars PROVE TypeInv'  OBVIOUS
  <1> USE DEF TypeInv
  <1>0. /\ Deadline' = Deadline /\ Deadline \in Nat /\ MaxDelay \in Nat /\ Size \in Nat
        /\ MaxAttempts \in Nat \ {0} /\ Rate \in Nat /\ LinkSpeed \in Nat
        /\ ReadSize \in 1..LinkSpeed
    BY DeadlineNat, TimingAssumption DEF Deadline, AdaptiveTimeout
  <1>1. ASSUME NEW p \in Parts, StartAttempt(p), pc[p] # "send",
               UNCHANGED <<pause, faulty, tokens, world, released, timedOut>>
        PROVE  TypeInv'
    <2>1. TypeOK'  BY <1>0, <1>1 DEF TypeOK, StartAttempt, world
    <2>2. /\ pc'[p] = "send" /\ sent'[p] = 0 /\ pending[p] = 0
          /\ \A q \in Parts \ {p} : pc'[q] = pc[q] /\ sent'[q] = sent[q]
      BY <1>1 DEF TypeOK, StartAttempt, Holds
    <2> QED  BY <2>1, <2>2, <1>1, QuietTyped DEF TypeOK, StartAttempt
  <1>2. ASSUME NEW p \in Parts, Allow(p) PROVE TypeInv'
    <2>1. CASE StartAttempt(p) /\ UNCHANGED <<pause, faulty>>
      BY <1>1, <1>2, <2>1 DEF Allow
    <2>2. CASE /\ \E d \in backoffDelay(attempt[p] - 1, throttled[p]) :
                     pause' = [pause EXCEPT ![p] = d]
               /\ pc' = [pc EXCEPT ![p] = "pause"]
               /\ UNCHANGED <<attempt, age, throttled, sent, pending, owed, due, room, faulty>>
      <3>1. pause' \in [Parts -> 0..MaxDelay]  BY <2>2 DEF TypeOK, backoffDelay
      <3>2. TypeOK'  BY <1>0, <1>2, <2>2, <3>1 DEF TypeOK, Allow, world
      <3>3. pending[p] = 0 /\ pc'[p] = "pause"  BY <1>2, <2>2 DEF Allow, Holds, TypeOK
      <3>4. \A q \in Parts \ {p} : pc'[q] = pc[q] /\ sent'[q] = sent[q]  BY <2>2 DEF TypeOK
      <3> QED  BY <2>2, <3>2, <3>3, <3>4, QuietTyped DEF TypeOK
    <2>3. CASE /\ pc' = [pc EXCEPT ![p] = "failed"] /\ faulty' = TRUE
               /\ UNCHANGED <<attempt, age, pause, throttled, sent, pending, owed, due, room>>
      <3>1. TypeOK'  BY <1>0, <1>2, <2>3 DEF TypeOK, Allow, world
      <3>2. pending[p] = 0 /\ pc'[p] = "failed"  BY <1>2, <2>3 DEF Allow, Holds, TypeOK
      <3>3. \A q \in Parts \ {p} : pc'[q] = pc[q] /\ sent'[q] = sent[q]  BY <2>3 DEF TypeOK
      <3> QED  BY <2>3, <3>1, <3>2, <3>3, QuietTyped DEF TypeOK
    <2> QED  BY <1>2, <2>1, <2>2, <2>3 DEF Allow
  <1>3. ASSUME NEW p \in Parts, PauseEnds(p) PROVE TypeInv'
    BY <1>1, <1>3 DEF PauseEnds
  <1>4. ASSUME NEW p \in Parts, ReturnCancelled(p) PROVE TypeInv'
    <2>1. /\ pc' = [pc EXCEPT ![p] = "cancelled"] /\ AbandonRead(p)
          /\ UNCHANGED <<attempt, age, pause, throttled, sent, room, up, stale, cancelled, now,
                         released, faulty, timedOut>>
      BY <1>4 DEF ReturnCancelled, world
    <2>2. /\ pc' \in [Parts -> {"allow", "pause", "send", "ok", "failed", "cancelled"}]
          /\ pc'[p] # "send" /\ \A q \in Parts \ {p} : pc'[q] = pc[q]
      BY <2>1 DEF TypeOK
    <2>3. /\ pending' \in [Parts -> 0..ReadSize] /\ owed' \in [Parts -> 0..ReadSize]
          /\ due' \in [Parts -> Nat] /\ tokens' \in Int /\ tokens' <= Rate
          /\ \A q \in Parts : Holds(q)'
      BY <2>1, <2>2, AbandonReadTyped
    <2>4. TypeOK'  BY <1>0, <2>1, <2>2, <2>3 DEF TypeOK
    <2> QED  BY <2>3, <2>4
  <1>5. ASSUME NEW p \in Parts, StaleConnection(p) PROVE TypeInv'
    <2>1. AttemptFails(p, TRUE, FALSE) /\ UNCHANGED <<faulty, timedOut>>
      BY <1>5 DEF StaleConnection
    <2> QED  BY <2>1, AttemptFailsTyped DEF TypeOK
  <1>6. ASSUME NEW p \in Parts, ServerFails(p) PROVE TypeInv'
    <2>1. PICK e \in {"network", "throttling", "auth"} :
              AttemptFails(p, e # "auth", e = "throttling")
      BY <1>6 DEF ServerFails
    <2>2. (e # "auth") \in BOOLEAN /\ (e = "throttling") \in BOOLEAN  OBVIOUS
    <2>3. faulty' \in BOOLEAN /\ timedOut' = timedOut  BY <1>6 DEF ServerFails
    <2> QED  BY <2>1, <2>2, <2>3, AttemptFailsTyped
  <1>7. ASSUME NEW p \in Parts, Read(p) PROVE TypeInv'
    <2> DEFINE N == NextRead(p)
    <2>1. /\ pc[p] = "send" /\ pending[p] = 0 /\ sent[p] < Size /\ N <= room[p]
          /\ pending' = [pending EXCEPT ![p] = N]
          /\ owed' = [owed EXCEPT ![p] = IF Rate = 0 THEN 0 ELSE N]
          /\ UNCHANGED <<pc, attempt, age, pause, throttled, sent, due, room, tokens, up, stale,
                         cancelled, now, released, faulty, timedOut>>
      BY <1>7 DEF Read, Sending, world
    <2>2. N \in 0..ReadSize /\ sent[p] + N <= Size
      BY <1>0, <2>1 DEF NextRead, Less, TypeOK
    <2> HIDE DEF N
    <2>3. pending' \in [Parts -> 0..ReadSize] /\ owed' \in [Parts -> 0..ReadSize]
      BY <1>0, <2>1, <2>2 DEF TypeOK
    <2>4. TypeOK'  BY <1>0, <2>1, <2>3 DEF TypeOK
    <2>5. ASSUME NEW q \in Parts PROVE Holds(q)'
      <3>1. CASE q # p  BY <2>1, <3>1 DEF TypeOK, Holds, Granted
      <3>2. CASE q = p
        <4>1. pending'[p] = N /\ owed'[p] = (IF Rate = 0 THEN 0 ELSE N) /\ due'[p] = due[p]
          BY <2>1 DEF TypeOK
        <4>2. due[p] = 0
          <5>1. ~(due[p] > 0) /\ due[p] \in Nat
            BY <2>1 DEF Holds, Granted, TypeOK
          <5> QED  BY <5>1
        <4> QED  BY <1>0, <2>1, <2>2, <3>2, <4>1, <4>2 DEF Holds, Granted
      <3> QED  BY <3>1, <3>2
    <2> QED  BY <2>4, <2>5
  <1>8. ASSUME NEW p \in Parts, WaitN(p) PROVE TypeInv'
    <2>1. CASE AttemptFails(p, TRUE, FALSE)
      BY <1>8, <2>1, AttemptFailsTyped DEF WaitN, TypeOK
    <2>2. CASE ~AttemptFails(p, TRUE, FALSE)
      <3> DEFINE C == Less(owed[p], Rate)  D == Delay(C)
      <3>1. /\ pc[p] = "send" /\ owed[p] > 0 /\ due[p] = 0
            /\ tokens' = tokens - C
            /\ owed' = [owed EXCEPT ![p] = @ - C]
            /\ due' = [due EXCEPT ![p] = D]
            /\ UNCHANGED <<pc, attempt, age, pause, throttled, sent, pending, room, up, stale,
                           cancelled, now, released, faulty, timedOut>>
        BY <1>8, <2>2 DEF WaitN, Sending, world
      <3>2. Rate > 0 /\ owed[p] \in Nat /\ owed[p] <= pending[p] /\ pending[p] \in Nat
        BY <1>0, <3>1 DEF Holds, TypeOK
      <3>3. C \in Nat /\ C > 0 /\ C <= owed[p] /\ (C < owed[p] => C = Rate)
        BY <1>0, <3>1, <3>2 DEF Less
      <3> HIDE DEF C
      <3>4. D \in Nat
        <4>1. CASE C <= tokens  BY <4>1 DEF Delay
        <4>2. CASE ~(C <= tokens)
          <5>1. C - tokens \in Nat /\ Rate \in Nat \ {0}  BY <1>0, <3>2, <3>3, <4>2 DEF TypeOK
          <5> QED  BY <4>2, <5>1, CeilDivCovers DEF Delay
        <4> QED  BY <4>1, <4>2
      <3> HIDE DEF D
      <3>5. /\ tokens' \in Int /\ tokens' <= Rate /\ owed' \in [Parts -> 0..ReadSize]
            /\ due' \in [Parts -> Nat]
        BY <1>0, <3>1, <3>2, <3>3, <3>4 DEF TypeOK
      <3>6. TypeOK'  BY <1>0, <3>1, <3>5 DEF TypeOK
      <3>7. ASSUME NEW q \in Parts PROVE Holds(q)'
        <4>1. CASE q # p  BY <3>1, <4>1 DEF TypeOK, Holds, Granted
        <4>2. CASE q = p
          <5>1. owed'[p] = owed[p] - C /\ due'[p] = D /\ pending'[p] = pending[p]
            BY <3>1 DEF TypeOK
          <5> QED  BY <1>0, <3>1, <3>2, <3>3, <3>4, <4>2, <5>1 DEF Holds, Granted
        <4> QED  BY <4>1, <4>2
      <3> QED  BY <3>6, <3>7
    <2> QED  BY <2>1, <2>2
  <1>9. ASSUME NEW p \in Parts, Send(p) PROVE TypeInv'
    <2>1. /\ pc[p] = "send" /\ pending[p] > 0 /\ owed[p] = 0 /\ due[p] = 0
          /\ sent' = [sent EXCEPT ![p] = @ + pending[p]]
          /\ room' = [room EXCEPT ![p] = @ - pending[p]]
          /\ released' = released + pending[p]
          /\ pending' = [pending EXCEPT ![p] = 0]
          /\ UNCHANGED <<pc, attempt, age, pause, throttled, owed, due, tokens, up, stale,
                         cancelled, now, faulty, timedOut>>
      BY <1>9 DEF Send, Sending, world
    <2>2. /\ pending[p] \in Nat /\ room[p] \in Nat /\ sent[p] \in Nat /\ pending[p] <= room[p]
          /\ sent[p] + pending[p] <= Size /\ room[p] <= LinkSpeed
      BY <1>0, <2>1 DEF Holds, TypeOK
    <2>3. /\ sent' \in [Parts -> 0..Size] /\ room' \in [Parts -> 0..LinkSpeed]
          /\ pending' \in [Parts -> 0..ReadSize] /\ released' \in Nat
      BY <1>0, <2>1, <2>2 DEF TypeOK
    <2>4. TypeOK'  BY <1>0, <2>1, <2>3 DEF TypeOK
    <2>5. ASSUME NEW q \in Parts PROVE Holds(q)'
      <3>1. CASE q # p  BY <2>1, <3>1 DEF TypeOK, Holds, Granted
      <3>2. CASE q = p
        <4>1. /\ pending'[p] = 0 /\ owed'[p] = 0 /\ due'[p] = 0 /\ sent'[p] = sent[p] + pending[p]
              /\ room'[p] = room[p] - pending[p] /\ pc'[p] = "send"
          BY <2>1 DEF TypeOK
        <4> QED  BY <1>0, <2>2, <3>2, <4>1 DEF Holds, Granted
      <3> QED  BY <3>1, <3>2
    <2> QED  BY <2>4, <2>5
  <1>10. ASSUME NEW p \in Parts, Answer(p) PROVE TypeInv'
    <2>1. /\ pc[p] = "send" /\ sent[p] = Size /\ pc' = [pc EXCEPT ![p] = "ok"]
          /\ UNCHANGED <<attempt, age, pause, throttled, sent, pending, owed, due, room, tokens, up,
                         stale, cancelled, now, released, faulty, timedOut>>
      BY <1>10 DEF Answer, Sending, world
    <2>2. TypeOK'  BY <1>0, <2>1 DEF TypeOK
    <2>3. pending[p] = 0
      <3>1. sent[p] + pending[p] <= Size /\ pending[p] \in Nat  BY <1>0, <2>1 DEF Holds, TypeOK
      <3> QED  BY <1>0, <2>1, <3>1
    <2>4. pc'[p] = "ok" /\ \A q \in Parts \ {p} : pc'[q] = pc[q] /\ sent'[q] = sent[q]
      BY <2>1 DEF TypeOK
    <2> QED  BY <2>1, <2>2, <2>3, <2>4, QuietTyped DEF TypeOK
  <1>11. ASSUME NEW p \in Parts, AttemptTimesOut(p) PROVE TypeInv'
    <2>1. AttemptFails(p, TRUE, FALSE) /\ timedOut' = timedOut \cup {age[p]} /\ faulty' = faulty
      BY <1>11 DEF AttemptTimesOut
    <2> QED  BY <2>1, AttemptFailsTyped DEF TypeOK
  <1>12. CASE Cancel
    <2>1. TypeOK'  BY <1>0, <1>12 DEF TypeOK, Cancel, parts
    <2>2. PICK p \in Parts : ~Over(p)  BY <1>12 DEF Cancel
    <2>3. UNCHANGED <<pc, sent, pending, owed, due, room>>  BY <1>12 DEF Cancel, parts
    <2> QED  BY <2>1, <2>2, <2>3, QuietTyped DEF TypeOK
  <1>13. CASE Tick
    <2>1. /\ age' = [p \in Parts |-> IF pc[p] = "send" THEN age[p] + 1 ELSE age[p]]
          /\ pause' = [p \in Parts |-> More(0, pause[p] - 1)]
          /\ due' = [p \in Parts |-> More(0, due[p] - 1)]
          /\ tokens' = Less(Rate, tokens + Rate) /\ now' = now + 1
          /\ room' = [p \in Parts |-> LinkSpeed] /\ up' \in BOOLEAN
          /\ faulty' = (faulty \/ ~up')
          /\ UNCHANGED <<pc, attempt, throttled, sent, pending, owed, stale, cancelled, released,
                         timedOut>>
      BY <1>13 DEF Tick
    <2>2. ASSUME NEW p \in Parts, pc[p] = "send" PROVE age[p] < Deadline
      BY <1>13, <2>2 DEF Tick, Over, Pauses, Transmits, Sending
    <2>3. age' \in [Parts -> 0..Deadline]  BY <1>0, <2>1, <2>2 DEF TypeOK
    <2>4. pause' \in [Parts -> 0..MaxDelay]  BY <1>0, <2>1 DEF TypeOK, More
    <2>5. /\ due' \in [Parts -> Nat] /\ room' \in [Parts -> 0..LinkSpeed]
          /\ tokens' \in Int /\ tokens' <= Rate
      BY <1>0, <2>1 DEF TypeOK, More, Less
    <2>6. TypeOK'  BY <1>0, <2>1, <2>3, <2>4, <2>5 DEF TypeOK
    <2>7. ASSUME NEW q \in Parts PROVE Holds(q)'
      <3>1. /\ due'[q] = More(0, due[q] - 1) /\ room'[q] = LinkSpeed /\ due[q] \in Nat
            /\ pending[q] \in 0..ReadSize
        BY <2>1 DEF TypeOK
      <3>2. pending[q] <= LinkSpeed  BY <1>0, <3>1
      <3>3. due'[q] > 0 => due[q] > 0  BY <3>1 DEF More
      <3> QED  BY <2>1, <3>1, <3>2, <3>3 DEF Holds, Granted
    <2> QED  BY <2>6, <2>7
  <1>14. CASE UNCHANGED vars
    <2>1. TypeOK'  BY <1>0, <1>14 DEF TypeOK, vars, parts, world
    <2>2. ASSUME NEW q \in Parts PROVE Holds(q)'
      BY <1>14 DEF Holds, Granted, vars, parts
    <2> QED  BY <2>1, <2>2
  <1> QED
    BY <1>2, <1>3, <1>4, <1>5, <1>6, <1>7, <1>8, <1>9, <1>10, <1>11, <1>12, <1>13, <1>14
    DEF Next, PartStep, Finished
-----------------------------------------------------------------------------
(* Sums over the parts.  Covers(w, b) says that the numbers w[p] of all parts together are at
   most b: g is a running total over an enumeration of the parts, possibly too large, so that
   it needs no recursion and a change of one part's number is an explicit new g. *)

NumberOfParts == Cardinality(Parts)
Nth == CHOOSE e \in Bijection(1..NumberOfParts, Parts) : TRUE

LEMMA NthType ==
  /\ NumberOfParts \in Nat
  /\ Nth \in [1..NumberOfParts -> Parts]
  /\ \A i, j \in 1..NumberOfParts : Nth[i] = Nth[j] => i = j
  /\ \A p \in Parts : \E i \in 1..NumberOfParts : Nth[i] = p
  <1>1. NumberOfParts \in Nat /\ ExistsBijection(1..NumberOfParts, Parts)
    BY FS_CardinalityType, TimingAssumption DEF NumberOfParts
  <1>2. Nth \in Bijection(1..NumberOfParts, Parts)
    BY <1>1 DEF Nth, ExistsBijection
  <1> QED  BY <1>1, <1>2 DEF Bijection, Injection, Surjection, IsInjective

Covers(w, b) ==
    \E g \in [0..NumberOfParts -> Nat] :
        /\ \A i, j \in 0..NumberOfParts : i < j => g[j] >= g[i] + w[Nth[j]]
        /\ g[NumberOfParts] <= b

LEMMA CoversAtLeast ==
  ASSUME NEW b \in Int, NEW w, Covers(w, b) PROVE b >= 0
  BY NthType DEF Covers

LEMMA CoversLess ==
  ASSUME NEW w \in [Parts -> Nat], NEW v \in [Parts -> Nat], NEW b \in Int, NEW c \in Int,
         Covers(w, b), b <= c, \A p \in Parts : v[p] <= w[p]
  PROVE  Covers(v, c)
  <1>1. PICK g \in [0..NumberOfParts -> Nat] :
            /\ \A i, j \in 0..NumberOfParts : i < j => g[j] >= g[i] + w[Nth[j]]
            /\ g[NumberOfParts] <= b
    BY DEF Covers
  <1>2. ASSUME NEW i \in 0..NumberOfParts, NEW j \in 0..NumberOfParts, i < j
        PROVE  g[j] >= g[i] + v[Nth[j]]
    <2>1. j \in 1..NumberOfParts /\ Nth[j] \in Parts  BY <1>2, NthType
    <2>2. g[j] >= g[i] + w[Nth[j]]  BY <1>1, <1>2
    <2>3. v[Nth[j]] <= w[Nth[j]] /\ v[Nth[j]] \in Nat /\ w[Nth[j]] \in Nat  BY <2>1
    <2> QED  BY <2>2, <2>3
  <1>3. g[NumberOfParts] <= c  BY <1>1, NthType
  <1> QED  BY <1>2, <1>3 DEF Covers

LEMMA CoversChange ==
  ASSUME NEW w \in [Parts -> Nat], NEW v \in [Parts -> Nat], NEW b \in Int,
         NEW p \in Parts, NEW d \in Int, v[p] = w[p] + d,
         \A q \in Parts \ {p} : v[q] = w[q], Covers(w, b)
  PROVE  Covers(v, b + d)
  <1> DEFINE n == NumberOfParts
  <1>1. PICK g \in [0..n -> Nat] :
            /\ \A i, j \in 0..n : i < j => g[j] >= g[i] + w[Nth[j]]
            /\ g[n] <= b
    BY DEF Covers
  <1>2. PICK m \in 1..n : Nth[m] = p  BY NthType
  <1>3. n \in Nat /\ m \in 0..n /\ 0 \in 0..n /\ 0 < m  BY NthType, <1>2
  <1>4. w[p] \in Nat /\ v[p] \in Nat  OBVIOUS
  <1> DEFINE h == [i \in 0..n |-> IF i < m THEN g[i] ELSE g[i] + d]
  <1>5. ASSUME NEW i \in 0..n PROVE i >= m => g[i] >= w[p]
    <2>1. g[m] >= g[0] + w[p]  BY <1>1, <1>2, <1>3
    <2>2. g[m] \in Nat /\ g[0] \in Nat /\ g[i] \in Nat  BY <1>1, <1>3
    <2>3. CASE i = m  BY <2>1, <2>2, <2>3, <1>4
    <2>4. CASE i > m
      <3>1. g[i] >= g[m] + w[Nth[i]]  BY <1>1, <1>3, <2>4
      <3>2. Nth[i] \in Parts  BY <1>3, <2>4, NthType
      <3>3. w[Nth[i]] \in Nat  BY <3>2
      <3> QED  BY <3>1, <3>3, <2>1, <2>2, <1>4
    <2> QED  BY <2>3, <2>4, <1>3
  <1>6. h \in [0..n -> Nat]
    <2>1. ASSUME NEW i \in 0..n PROVE (IF i < m THEN g[i] ELSE g[i] + d) \in Nat
      <3>1. g[i] \in Nat /\ i \in Int /\ m \in Int  BY <1>1, <1>3
      <3>2. i >= m => g[i] + d >= v[p]  BY <1>4, <1>5, <3>1
      <3> QED  BY <3>1, <3>2, <1>4
    <2> QED  BY <2>1
  <1>7. ASSUME NEW i \in 0..n, NEW j \in 0..n, i < j
        PROVE  h[j] >= h[i] + v[Nth[j]]
    <2>1. j \in 1..n /\ Nth[j] \in Parts  BY <1>3, <1>7, NthType
    <2>2. g[j] >= g[i] + w[Nth[j]] /\ g[i] \in Nat /\ g[j] \in Nat  BY <1>1, <1>7
    <2>3. w[Nth[j]] \in Nat /\ v[Nth[j]] \in Nat  BY <2>1
    <2>4. CASE j = m
      <3>1. h[j] = g[j] + d /\ h[i] = g[i]  BY <2>4, <1>3, <1>7
      <3>2. v[Nth[j]] = w[Nth[j]] + d  BY <2>4, <1>2
      <3>3. g[j] + d >= g[i] + (w[Nth[j]] + d)
        <4> DEFINE G == g[j]  F == g[i]  W == w[Nth[j]]
        <4>1. G \in Nat /\ F \in Nat /\ W \in Nat /\ G >= F + W  BY <2>2, <2>3
        <4> HIDE DEF G, F, W
        <4>2. G + d >= F + (W + d)  BY <4>1
        <4> QED  BY <4>2 DEF G, F, W
      <3> HIDE DEF h
      <3> QED  BY <3>1, <3>2, <3>3
    <2>5. CASE j # m
      <3>1. v[Nth[j]] = w[Nth[j]]  BY <2>5, <2>1, <1>2, NthType
      <3>2. CASE j < m
        BY <3>1, <3>2, <2>2, <1>3, <1>7
      <3>3. CASE m <= i
        <4>1. h[j] = g[j] + d /\ h[i] = g[i] + d  BY <3>3, <1>3, <1>7
        <4> QED  BY <4>1, <3>1, <2>2, <2>3
      <3>4. CASE i < m /\ m < j
        <4>1. h[j] = g[j] + d /\ h[i] = g[i]  BY <3>4, <1>3, <1>7
        <4>2. g[j] >= g[m] + w[Nth[j]] /\ g[m] >= g[i] + w[p]
          BY <3>4, <1>1, <1>2, <1>3
        <4>3. g[m] \in Nat  BY <1>1, <1>3
        <4>4. g[j] + d >= g[i] + (w[p] + d) + w[Nth[j]]
          <5> DEFINE G == g[j]  M == g[m]  F == g[i]  W == w[Nth[j]]  P == w[p]
          <5>1. /\ G \in Nat /\ M \in Nat /\ F \in Nat /\ W \in Nat /\ P \in Nat
                /\ G >= M + W /\ M >= F + P
            BY <4>2, <4>3, <2>2, <2>3, <1>4
          <5> HIDE DEF G, M, F, W, P
          <5>2. G + d >= F + (P + d) + W  BY <5>1
          <5> QED  BY <5>2 DEF G, M, F, W, P
        <4>5. w[p] + d >= 0  BY <1>4
        <4> QED  BY <4>1, <4>4, <4>5, <3>1, <2>2, <2>3
      <3> QED  BY <3>2, <3>3, <3>4, <2>5, <1>3
    <2> QED  BY <2>4, <2>5
  <1>8. h[n] <= b + d
    <2>1. h[n] = g[n] + d /\ g[n] \in Nat  BY <1>1, <1>3
    <2> QED  BY <2>1, <1>1
  <1> HIDE DEF h
  <1> QED  BY <1>6, <1>7, <1>8 DEF Covers

-----------------------------------------------------------------------------
(* The limit. *)

\* Of what part p has been granted, what it may pass on within k ticks.
DueWithin(p, k) == IF due[p] <= k THEN Granted(p) ELSE 0

AllGranted == [p \in Parts |-> Granted(p)]
AllDueWithin(k) == [p \in Parts |-> DueWithin(p, k)]

\* What was let through and what is granted comes from the bucket, and no time in the future
\* is promised more than its refills.
LimitInv ==
    Rate > 0 =>
        /\ Covers(AllGranted, Rate + Rate * now - tokens - released)
        /\ \A k \in Nat : Covers(AllDueWithin(k), Rate + Rate * (now + k) - released)

LEMMA SharesTyped ==
  ASSUME TypeInv
  PROVE  /\ AllGranted \in [Parts -> Nat]
         /\ \A k \in Nat : AllDueWithin(k) \in [Parts -> Nat]
         /\ \A k \in Nat : \A p \in Parts : AllDueWithin(k)[p] <= AllGranted[p]
  <1>1. \A p \in Parts : Granted(p) \in Nat  BY GrantIsGranted
  <1> QED  BY <1>1 DEF AllGranted, AllDueWithin, DueWithin

LEMMA BoundsAreNumbers ==
  ASSUME TypeInv
  PROVE  /\ Rate \in Nat /\ now \in Nat /\ tokens \in Int /\ released \in Nat
         /\ \A k \in Nat : Rate * (now + k) \in Nat
         /\ \A k \in Nat : Rate * (now + k) = Rate * now + Rate * k
  <1>1. Rate \in Nat /\ now \in Nat /\ tokens \in Int /\ released \in Nat
    BY TimingAssumption DEF TypeInv, TypeOK
  <1>2. ASSUME NEW k \in Nat
        PROVE  Rate * (now + k) \in Nat /\ Rate * (now + k) = Rate * now + Rate * k
    BY <1>1
  <1> QED  BY <1>1, <1>2

\* Nothing is granted, and nothing has been let through, before the parts begin.
LEMMA InitLimitInv == Init => LimitInv
  <1> SUFFICES ASSUME Init, Rate > 0 PROVE LimitInv  BY DEF LimitInv
  <1>1. TypeInv  BY InitTypeInv
  <1>2. now = 0 /\ tokens = Rate /\ released = 0  BY DEF Init
  <1>3. \A p \in Parts : Granted(p) = 0  BY DEF Init, Granted
  <1>4. ASSUME NEW w \in [Parts -> Nat], \A p \in Parts : w[p] = 0, NEW b \in Nat
        PROVE  Covers(w, b)
    <2> DEFINE g == [i \in 0..NumberOfParts |-> 0]
    <2>1. g \in [0..NumberOfParts -> Nat] /\ g[NumberOfParts] <= b  BY NthType
    <2>2. ASSUME NEW i \in 0..NumberOfParts, NEW j \in 0..NumberOfParts, i < j
          PROVE  g[j] >= g[i] + w[Nth[j]]
      <3>1. Nth[j] \in Parts  BY <2>2, NthType
      <3> QED  BY <3>1, <1>4
    <2> HIDE DEF g
    <2> QED  BY <2>1, <2>2 DEF Covers
  <1>5. Covers(AllGranted, Rate + Rate * now - tokens - released)
    <2>1. Rate + Rate * now - tokens - released = 0
      <3>1. Rate \in Nat /\ Rate * 0 = 0  BY <1>1, BoundsAreNumbers
      <3> QED  BY <1>2, <3>1
    <2>2. \A p \in Parts : AllGranted[p] = 0  BY <1>3 DEF AllGranted
    <2> QED  BY <1>1, <1>4, <2>1, <2>2, SharesTyped
  <1>6. ASSUME NEW k \in Nat
        PROVE  Covers(AllDueWithin(k), Rate + Rate * (now + k) - released)
    <2>1. Rate + Rate * (now + k) - released \in Nat
      <3>1. Rate \in Nat /\ Rate * (now + k) \in Nat  BY <1>1, BoundsAreNumbers
      <3> QED  BY <1>2, <3>1
    <2>2. \A p \in Parts : AllDueWithin(k)[p] = 0  BY <1>3 DEF AllDueWithin, DueWithin
    <2> QED  BY <1>1, <1>4, <2>1, <2>2, SharesTyped
  <1> QED  BY <1>5, <1>6 DEF LimitInv

\* Steps that neither grant nor let anything through.
LEMMA QuietLimit ==
  ASSUME TypeInv, TypeInv', LimitInv, UNCHANGED <<due, tokens, now, released>>,
         Rate > 0 => \A p \in Parts : Granted(p)' = Granted(p)
  PROVE  LimitInv'
  <1> SUFFICES ASSUME Rate > 0 PROVE LimitInv'  BY DEF LimitInv
  <1>1. AllGranted' = AllGranted  BY DEF AllGranted
  <1>2. ASSUME NEW k \in Nat PROVE AllDueWithin(k)' = AllDueWithin(k)
    BY DEF AllDueWithin, DueWithin
  <1> QED  BY <1>1, <1>2 DEF LimitInv, Covers

\* An abandoned Read frees what it was granted, of which the bucket gets at most a part.
LEMMA AbandonReadLimit ==
  ASSUME TypeInv, TypeInv', LimitInv, NEW p \in Parts, AbandonRead(p), UNCHANGED <<now, released>>
  PROVE  LimitInv'
  <1> SUFFICES ASSUME Rate > 0 PROVE LimitInv'  BY DEF LimitInv
  <1>1. /\ pending' = [pending EXCEPT ![p] = 0] /\ owed' = [owed EXCEPT ![p] = 0]
        /\ due' = [due EXCEPT ![p] = 0] /\ tokens' \in {tokens, Less(Rate, tokens + Grant(p))}
    BY DEF AbandonRead
  <1>2. Granted(p)' = 0 /\ \A q \in Parts \ {p} : Granted(q)' = Granted(q) /\ due'[q] = due[q]
    BY <1>1 DEF Granted, TypeInv, TypeOK
  <1>3. Granted(p) \in Nat /\ Grant(p) \in Nat /\ Grant(p) <= Granted(p)  BY GrantIsGranted
  <1> DEFINE B == Rate + Rate * now - tokens - released
             C == Rate + Rate * now - tokens' - released
  <1>4. B \in Int /\ C \in Int /\ B - Granted(p) <= C
    <2>1. tokens' \in Int /\ tokens' <= tokens + Grant(p)
      BY <1>1, <1>3, BoundsAreNumbers DEF Less
    <2>2. Rate * now \in Nat /\ Rate \in Nat /\ released \in Nat /\ tokens \in Int
      BY BoundsAreNumbers
    <2> QED  BY <1>3, <2>1, <2>2
  <1>5. Covers(AllGranted', C)
    <2>1. Covers(AllGranted, B)  BY DEF LimitInv
    <2>2. AllGranted'[p] = AllGranted[p] + (- Granted(p)) /\ - Granted(p) \in Int
      BY <1>2, <1>3 DEF AllGranted
    <2>3. \A q \in Parts \ {p} : AllGranted'[q] = AllGranted[q]  BY <1>2 DEF AllGranted
    <2>4. AllGranted \in [Parts -> Nat] /\ AllGranted' \in [Parts -> Nat]
      <3>1. \A q \in Parts : Granted(q) \in Nat  BY GrantIsGranted
      <3> QED  BY <1>2, <3>1 DEF AllGranted
    <2> HIDE DEF B, C
    <2>5. Covers(AllGranted', B + (- Granted(p)))
      BY <1>4, <2>1, <2>2, <2>3, <2>4, CoversChange
    <2>6. B + (- Granted(p)) \in Int /\ B + (- Granted(p)) <= C  BY <1>3, <1>4
    <2> QED  BY <1>4, <2>4, <2>5, <2>6, CoversLess
  <1>6. ASSUME NEW k \in Nat
        PROVE  Covers(AllDueWithin(k)', Rate + Rate * (now + k) - released)
    <2>1. Covers(AllDueWithin(k), Rate + Rate * (now + k) - released)  BY DEF LimitInv
    <2>2. \A q \in Parts : AllDueWithin(k)'[q] <= AllDueWithin(k)[q]
      BY <1>2, <1>3, GrantIsGranted DEF AllDueWithin, DueWithin
    <2>3. AllDueWithin(k) \in [Parts -> Nat] /\ AllDueWithin(k)' \in [Parts -> Nat]
      BY <1>2, SharesTyped, GrantIsGranted DEF AllDueWithin, DueWithin
    <2>4. Rate + Rate * (now + k) - released \in Int  BY BoundsAreNumbers
    <2> QED  BY <2>1, <2>2, <2>3, <2>4, CoversLess
  <1> QED  BY <1>5, <1>6 DEF LimitInv, Covers

\* A grant is for a time by which the refills have made up for it.
LEMMA WaitNLimit ==
  ASSUME TypeInv, TypeInv', LimitInv, NEW p \in Parts, WaitN(p)
  PROVE  LimitInv'
  <1>1. CASE AttemptFails(p, TRUE, FALSE)
    BY <1>1, AbandonReadLimit DEF AttemptFails, world
  <1>2. CASE ~AttemptFails(p, TRUE, FALSE)
    <2> SUFFICES ASSUME Rate > 0 PROVE LimitInv'  BY DEF LimitInv
    <2> DEFINE C == Less(owed[p], Rate)  D == Delay(C)
    <2>1. /\ owed[p] > 0 /\ due[p] = 0
          /\ tokens' = tokens - C /\ owed' = [owed EXCEPT ![p] = @ - C]
          /\ due' = [due EXCEPT ![p] = D]
          /\ UNCHANGED <<pending, now, released>>
      BY <1>2 DEF WaitN, world
    <2>2. owed[p] \in Nat /\ pending[p] \in Nat /\ Rate \in Nat \ {0} /\ tokens \in Int
      BY BoundsAreNumbers DEF TypeInv, TypeOK
    <2>3. C \in Nat /\ C > 0 /\ C <= owed[p]  BY <2>1, <2>2 DEF Less
    <2> HIDE DEF C
    <2>4. D \in Nat /\ Rate * D >= C - tokens
      <3>1. CASE C <= tokens
        <4>1. D = 0 /\ Rate * 0 = 0  BY <3>1, <2>2 DEF Delay
        <4> QED  BY <4>1, <3>1, <2>2, <2>3
      <3>2. CASE ~(C <= tokens)
        <4>1. C - tokens \in Nat  BY <2>2, <2>3, <3>2
        <4> QED  BY <2>2, <3>2, <4>1, CeilDivCovers DEF Delay
      <3> QED  BY <3>1, <3>2
    <2> HIDE DEF D
    <2>5. /\ Granted(p)' = Granted(p) + C /\ due'[p] = D
          /\ \A q \in Parts \ {p} : Granted(q)' = Granted(q) /\ due'[q] = due[q]
      BY <2>1, <2>2, <2>3 DEF Granted, TypeInv, TypeOK
    <2>6. \A q \in Parts : Granted(q) \in Nat  BY GrantIsGranted
    <2>7. AllGranted \in [Parts -> Nat] /\ AllGranted' \in [Parts -> Nat]
      BY <2>3, <2>5, <2>6 DEF AllGranted
    <2> DEFINE B == Rate + Rate * now - tokens - released
    <2>8. B \in Int /\ B + C = Rate + Rate * now' - tokens' - released'
      <3>1. Rate * now \in Int /\ released \in Int  BY BoundsAreNumbers
      <3> QED  BY <2>1, <2>2, <2>3, <3>1
    <2>9. Covers(AllGranted', B + C)
      <3>1. Covers(AllGranted, B)  BY DEF LimitInv
      <3>2. /\ AllGranted'[p] = AllGranted[p] + C
            /\ \A q \in Parts \ {p} : AllGranted'[q] = AllGranted[q]
        BY <2>5 DEF AllGranted
      <3> HIDE DEF B
      <3> QED  BY <2>3, <2>7, <2>8, <3>1, <3>2, CoversChange
    <2>10. ASSUME NEW k \in Nat
           PROVE  Covers(AllDueWithin(k)', Rate + Rate * (now + k) - released)
      <3>1. AllDueWithin(k) \in [Parts -> Nat] /\ AllDueWithin(k)' \in [Parts -> Nat]
        BY <2>3, <2>5, <2>6 DEF AllDueWithin, DueWithin
      <3>2. Rate + Rate * (now + k) - released \in Int  BY BoundsAreNumbers
      <3>3. CASE k < D
        <4>1. Covers(AllDueWithin(k), Rate + Rate * (now + k) - released)  BY DEF LimitInv
        <4>2. \A q \in Parts : AllDueWithin(k)'[q] <= AllDueWithin(k)[q]
          BY <2>4, <2>5, <2>6, <3>3 DEF AllDueWithin, DueWithin
        <4> QED  BY <3>1, <3>2, <4>1, <4>2, CoversLess
      <3>4. CASE D <= k
        <4>1. \A q \in Parts : AllDueWithin(k)'[q] <= AllGranted'[q]
          BY <2>3, <2>5, <2>6 DEF AllDueWithin, DueWithin, AllGranted
        <4>2. B + C <= Rate + Rate * (now + k) - released
          <5>1. Rate * k >= Rate * D
            <6>1. PICK d \in Nat : k = D + d
              <7>1. k - D \in Nat /\ k = D + (k - D)  BY <2>4, <3>4
              <7> QED  BY <7>1
            <6>2. Rate * (D + d) = Rate * D + Rate * d /\ Rate * d \in Nat /\ Rate * D \in Nat
              BY <2>2, <2>4
            <6> QED  BY <6>1, <6>2
          <5>2. /\ Rate * (now + k) = Rate * now + Rate * k /\ Rate * now \in Nat
                /\ Rate * k \in Nat /\ Rate * D \in Nat /\ released \in Nat
            BY <2>2, <2>4, BoundsAreNumbers
          <5> DEFINE X == Rate * k  Y == Rate * D  Z == Rate * now
          <5>3. X >= Y /\ Y >= C - tokens /\ X \in Nat /\ Y \in Nat /\ Z \in Nat
            BY <2>4, <5>1, <5>2
          <5> HIDE DEF X, Y, Z
          <5>4. Rate + Z - tokens - released + C <= Rate + (Z + X) - released
            BY <2>2, <2>3, <5>2, <5>3
          <5> QED  BY <5>2, <5>4 DEF X, Y, Z
        <4>3. B + C \in Int  BY <2>3, <2>8
        <4> HIDE DEF B
        <4> QED  BY <2>7, <2>9, <3>1, <3>2, <4>1, <4>2, <4>3, CoversLess
      <3> QED  BY <2>4, <3>3, <3>4
    <2> HIDE DEF B
    <2>11. Covers(AllGranted', Rate + Rate * now' - tokens' - released')  BY <2>8, <2>9
    <2> QED  BY <2>1, <2>10, <2>11 DEF LimitInv, Covers
  <1> QED  BY <1>1, <1>2

\* What is let through was granted, for a time that has come.
LEMMA SendLimit ==
  ASSUME TypeInv, TypeInv', LimitInv, NEW p \in Parts, Send(p)
  PROVE  LimitInv'
  <1> SUFFICES ASSUME Rate > 0 PROVE LimitInv'  BY DEF LimitInv
  <1> DEFINE P == pending[p]
  <1>1. /\ owed[p] = 0 /\ due[p] = 0 /\ released' = released + P
        /\ pending' = [pending EXCEPT ![p] = 0] /\ UNCHANGED <<owed, due, tokens, now>>
    BY DEF Send, world
  <1>2. P \in Nat /\ released \in Nat /\ Granted(p) = P
    BY <1>1 DEF TypeInv, TypeOK, Granted
  <1>3. Granted(p)' = 0 /\ \A q \in Parts \ {p} : Granted(q)' = Granted(q)
    BY <1>1 DEF Granted, TypeInv, TypeOK
  <1>4. \A q \in Parts : Granted(q) \in Nat  BY GrantIsGranted
  <1> HIDE DEF P
  <1>5. - P \in Int  BY <1>2
  <1>6. Covers(AllGranted', Rate + Rate * now' - tokens' - released')
    <2> DEFINE B == Rate + Rate * now - tokens - released
    <2>1. B \in Int /\ B + (- P) = Rate + Rate * now' - tokens' - released'
      <3>1. Rate * now \in Int /\ Rate \in Int /\ tokens \in Int  BY BoundsAreNumbers
      <3> QED  BY <1>1, <1>2, <3>1
    <2>2. Covers(AllGranted, B)  BY DEF LimitInv
    <2>3. /\ AllGranted \in [Parts -> Nat] /\ AllGranted' \in [Parts -> Nat]
          /\ AllGranted'[p] = AllGranted[p] + (- P)
          /\ \A q \in Parts \ {p} : AllGranted'[q] = AllGranted[q]
      BY <1>2, <1>3, <1>4 DEF AllGranted
    <2> HIDE DEF B
    <2>4. Covers(AllGranted', B + (- P))  BY <1>5, <2>1, <2>2, <2>3, CoversChange
    <2> QED  BY <2>1, <2>4
  <1>7. ASSUME NEW k \in Nat
        PROVE  Covers(AllDueWithin(k)', Rate + Rate * (now' + k) - released')
    <2> DEFINE B == Rate + Rate * (now + k) - released
    <2>1. B \in Int /\ B + (- P) = Rate + Rate * (now' + k) - released'
      <3>1. Rate * (now + k) \in Int /\ Rate \in Int  BY BoundsAreNumbers
      <3> QED  BY <1>1, <1>2, <3>1
    <2>2. Covers(AllDueWithin(k), B)  BY DEF LimitInv
    <2>3. /\ AllDueWithin(k) \in [Parts -> Nat] /\ AllDueWithin(k)' \in [Parts -> Nat]
          /\ AllDueWithin(k)'[p] = AllDueWithin(k)[p] + (- P)
          /\ \A q \in Parts \ {p} : AllDueWithin(k)'[q] = AllDueWithin(k)[q]
      BY <1>1, <1>2, <1>3, <1>4 DEF AllDueWithin, DueWithin
    <2> HIDE DEF B
    <2>4. Covers(AllDueWithin(k)', B + (- P))  BY <1>5, <2>1, <2>2, <2>3, CoversChange
    <2> QED  BY <2>1, <2>4
  <1> QED  BY <1>6, <1>7 DEF LimitInv, Covers

\* A tick refills the bucket by no more than Rate and brings every grant a tick nearer.
LEMMA TickLimit == ASSUME TypeInv, TypeInv', LimitInv, Tick PROVE LimitInv'
  <1> SUFFICES ASSUME Rate > 0 PROVE LimitInv'  BY DEF LimitInv
  <1>1. /\ due' = [p \in Parts |-> More(0, due[p] - 1)] /\ tokens' = Less(Rate, tokens + Rate)
        /\ now' = now + 1 /\ UNCHANGED <<pending, owed, released>>
    BY DEF Tick
  <1>2. \A q \in Parts : Granted(q)' = Granted(q)  BY <1>1 DEF Granted
  <1>3. Rate \in Nat /\ now \in Nat /\ tokens \in Int /\ released \in Nat /\ tokens' \in Int
    BY <1>1, BoundsAreNumbers DEF Less
  <1>4. Rate * (now + 1) = Rate * now + Rate /\ Rate * now \in Nat
    <2>1. Rate * (now + 1) = Rate * now + Rate * 1 /\ Rate * now \in Nat /\ Rate * 1 = Rate
      BY <1>3
    <2> QED  BY <2>1
  <1>5. Covers(AllGranted', Rate + Rate * now' - tokens' - released')
    <2> DEFINE Z == Rate * now
    <2>1. Z \in Nat /\ Rate * now' = Z + Rate  BY <1>1, <1>4
    <2>2. Covers(AllGranted, Rate + Z - tokens - released)  BY DEF LimitInv
    <2> HIDE DEF Z
    <2>3. AllGranted' = AllGranted /\ AllGranted \in [Parts -> Nat]
      BY <1>2, SharesTyped DEF AllGranted
    <2>4. tokens' <= tokens + Rate  BY <1>1, <1>3 DEF Less
    <2> DEFINE B == Rate + Z - tokens - released
               C == Rate + Rate * now' - tokens' - released'
    <2>5. B \in Int /\ C \in Int /\ B <= C  BY <1>1, <1>3, <2>1, <2>4
    <2> HIDE DEF B, C
    <2>6. Covers(AllGranted, B)  BY <2>2 DEF B
    <2>7. Covers(AllGranted, C)  BY <2>3, <2>5, <2>6, CoversLess
    <2> QED  BY <2>3, <2>7 DEF C
  <1>6. ASSUME NEW k \in Nat
        PROVE  Covers(AllDueWithin(k)', Rate + Rate * (now' + k) - released')
    <2>1. k + 1 \in Nat /\ now' + k = now + (k + 1)  BY <1>1, <1>3
    <2>2. \A q \in Parts : due'[q] <= k <=> due[q] <= k + 1
      <3>1. \A q \in Parts : due[q] \in Nat /\ due'[q] = More(0, due[q] - 1)
        BY <1>1 DEF TypeInv, TypeOK
      <3> QED  BY <3>1 DEF More
    <2>3. AllDueWithin(k)' = AllDueWithin(k + 1)
      BY <1>2, <2>2 DEF AllDueWithin, DueWithin
    <2>4. Covers(AllDueWithin(k + 1), Rate + Rate * (now + (k + 1)) - released)
      BY <2>1 DEF LimitInv
    <2> QED  BY <1>1, <2>1, <2>3, <2>4
  <1> QED  BY <1>5, <1>6 DEF LimitInv, Covers

LEMMA NextLimitInv == TypeInv /\ TypeInv' /\ LimitInv /\ [Next]_vars => LimitInv'
  <1> SUFFICES ASSUME TypeInv, TypeInv', LimitInv, [Next]_vars PROVE LimitInv'  OBVIOUS
  <1>1. ASSUME NEW p \in Parts, Allow(p) \/ PauseEnds(p) \/ Answer(p) PROVE LimitInv'
    BY <1>1, QuietLimit DEF Allow, PauseEnds, Answer, StartAttempt, world, Granted
  <1>2. ASSUME NEW p \in Parts,
               ReturnCancelled(p) \/ StaleConnection(p) \/ ServerFails(p) \/ AttemptTimesOut(p)
        PROVE  LimitInv'
    BY <1>2, AbandonReadLimit
    DEF ReturnCancelled, StaleConnection, ServerFails, AttemptTimesOut, AttemptFails, world
  <1>3. ASSUME NEW p \in Parts, Read(p) PROVE LimitInv'
    <2> SUFFICES ASSUME Rate > 0 PROVE LimitInv'  BY DEF LimitInv
    <2>1. /\ pending[p] = 0 /\ pending' = [pending EXCEPT ![p] = NextRead(p)]
          /\ owed' = [owed EXCEPT ![p] = NextRead(p)] /\ UNCHANGED <<due, tokens, now, released>>
      <3>1. Rate # 0  BY BoundsAreNumbers
      <3> HIDE DEF NextRead
      <3> QED  BY <1>3, <3>1 DEF Read, world
    <2>2. owed[p] = 0 /\ NextRead(p) \in Int
      BY <2>1, TimingAssumption DEF TypeInv, TypeOK, Holds, NextRead, Less
    <2>3. ASSUME NEW q \in Parts PROVE Granted(q)' = Granted(q)
      BY <2>1, <2>2 DEF Granted, TypeInv, TypeOK
    <2> QED  BY <2>1, <2>3, QuietLimit
  <1>4. CASE Cancel  BY <1>4, QuietLimit DEF Cancel, parts, Granted
  <1>5. CASE UNCHANGED vars  BY <1>5, QuietLimit DEF vars, parts, world, Granted
  <1> QED
    BY <1>1, <1>2, <1>3, <1>4, <1>5, WaitNLimit, SendLimit, TickLimit
    DEF Next, PartStep, Finished

\* All parts together never pass more than the limit, whatever parts wait, fail, give back
\* what they were granted or are cancelled (ratelimit.go wait and newBandwidthDirectionLimiter).
THEOREM LimitHoldsAlways == Spec => []LimitHolds
  <1>1. TypeInv /\ LimitInv => LimitHolds
    <2> SUFFICES ASSUME TypeInv, LimitInv, Rate > 0 PROVE released <= Rate + Rate * now
      BY DEF LimitHolds
    <2>1. Covers(AllDueWithin(0), Rate + Rate * (now + 0) - released)  BY DEF LimitInv
    <2>2. Rate * (now + 0) = Rate * now /\ Rate * now \in Nat /\ released \in Nat /\ Rate \in Nat
      BY BoundsAreNumbers
    <2>3. Rate + Rate * (now + 0) - released >= 0
      <3>1. Rate + Rate * (now + 0) - released \in Int  BY <2>2
      <3> QED  BY <2>1, <3>1, CoversAtLeast
    <2> QED  BY <2>2, <2>3
  <1> QED  BY InitTypeInv, NextTypeInv, InitLimitInv, NextLimitInv, <1>1, PTL DEF Spec

-----------------------------------------------------------------------------

\* As long as the http.Client's timeout is not below AdaptiveTimeout, an attempt that times out
\* had the time that AdaptiveTimeout gives for its size (retry.go, manager.go newManagerEntry).
THEOREM AdaptiveTimeIsGivenUnlessCut ==
  ASSUME AdaptiveTimeout <= HTTPTimeout
  PROVE  Spec => []AdaptiveTimeIsGiven
  <1>1. Init => AdaptiveTimeIsGiven  BY DEF Init, AdaptiveTimeIsGiven
  <1>2. TypeInv /\ AdaptiveTimeIsGiven /\ [Next]_vars => AdaptiveTimeIsGiven'
    <2> SUFFICES ASSUME TypeInv, AdaptiveTimeIsGiven, [Next]_vars
                 PROVE  AdaptiveTimeIsGiven'
      OBVIOUS
    <2>0. AdaptiveTimeout' = AdaptiveTimeout  BY DEF AdaptiveTimeout
    <2>1. ASSUME NEW p \in Parts, AttemptTimesOut(p) PROVE AdaptiveTimeIsGiven'
      <3>1. timedOut' = timedOut \cup {age[p]} /\ age[p] >= Deadline
        BY <2>1 DEF AttemptTimesOut
      <3>2. Deadline = AdaptiveTimeout
        <4>1. AdaptiveTimeout \in Nat  BY TimingAssumption DEF AdaptiveTimeout, More, CeilDiv
        <4> QED  BY <4>1, TimingAssumption DEF Deadline, Less
      <3> QED  BY <2>0, <3>1, <3>2 DEF AdaptiveTimeIsGiven
    <2>2. CASE ~\E p \in Parts : AttemptTimesOut(p)
      <3>1. timedOut' = timedOut
        BY <2>2 DEF Next, PartStep, Allow, PauseEnds, ReturnCancelled, StaleConnection,
                    ServerFails, Read, WaitN, Send, Answer, Cancel, Tick, Finished, vars
      <3> QED  BY <2>0, <3>1 DEF AdaptiveTimeIsGiven
    <2> QED  BY <2>1, <2>2
  <1> QED  BY InitTypeInv, NextTypeInv, <1>1, <1>2, PTL DEF Spec

-----------------------------------------------------------------------------
(* Enough time.  While nothing goes wrong outside the program, a part waits for the link or
   for the limiter.  A tick that it waits for the link carries as many whole Reads of its
   bytes as fit; a tick that it waits for the limiter refills a bucket that is in debt, so
   that all of the refill is for bytes of the parts.  Neither can happen often. *)

\* What a tick carries of a part that has more to send: the Reads that fit into it.
TickCarries == ReadSize * (LinkSpeed \div ReadSize)

\* The ticks in which a part can wait for the link, or for the limiter that all parts share,
\* without being through.
LinkTicks == (Size - 1) \div TickCarries
LimitTicks == IF Rate = 0 THEN 0 ELSE (NumberOfParts * Size) \div Rate

\* The time of an attempt is more than that, and there is a retry for a dead pooled connection.
TimeSuffices == LinkTicks + LimitTicks < Deadline /\ MaxAttempts >= 2

Live(p) == pc[p] = "send" /\ ~(stale /\ UsesPooled(p))

\* The units of part p that the limiter has not granted yet.
Left(p) == Size - sent[p] - Granted(p)
AllLeft == [p \in Parts |-> Left(p)]

\* The parts were granted the bucket's first second, d refills of it, and what it is in debt.
Refilled(d) == Covers(AllLeft, NumberOfParts * Size - Rate * (d + 1) + tokens)

\* The ticks of an attempt so far: l that the link was busy and d that the bucket was in debt.
InStep(p, l, d) ==
    /\ age[p] = l + d
    /\ l * TickCarries + (LinkSpeed - room[p]) <= sent[p]
    /\ Refilled(d)

Paced(p) ==
    /\ ~Live(p) /\ pc[p] # "ok" => sent[p] = 0 /\ pending[p] = 0 /\ room[p] = LinkSpeed
    /\ due[p] > 0 => tokens + Rate * (due[p] - 1) < 0
    /\ Live(p) =>
        /\ pending[p] \in {0, NextRead(p)}
        /\ sent[p] < Size => \E k \in Nat : LinkSpeed - room[p] = k * ReadSize
        /\ \E l \in 0..LinkTicks, d \in 0..LimitTicks : InStep(p, l, d)

ServedInv ==
    ~faulty =>
        /\ up
        /\ \A p \in Parts : pc[p] # "failed" /\ attempt[p] <= 2 /\ (attempt[p] = 2 => stale)
        /\ ~cancelled => Refilled(0) /\ \A p \in Parts : Paced(p)

\* A product that does not exceed x has a factor that does not exceed the quotient.
LEMMA QuotientBounds ==
  ASSUME NEW x \in Nat, NEW y \in Nat \ {0}, NEW k \in Nat, k * y <= x
  PROVE  k <= x \div y
  <1> DEFINE q == x \div y
  <1>1. q \in Nat /\ x < q * y + y  OBVIOUS
  <1> HIDE DEF q
  <1>2. CASE k >= q + 1
    <2>1. PICK e \in Nat : k = q + 1 + e
      <3>1. k - (q + 1) \in Nat /\ k = q + 1 + (k - (q + 1))  BY <1>1, <1>2
      <3> QED  BY <3>1
    <2>2. (q + 1 + e) * y = q * y + y + e * y /\ e * y \in Nat /\ q * y \in Nat  BY <1>1
    <2> QED  BY <1>1, <2>1, <2>2
  <1>3. CASE k < q + 1  BY <1>1, <1>3
  <1> QED  BY <1>1, <1>2, <1>3 DEF q

\* Reads are sent until the next one does not fit, which is when the tick has carried its own.
LEMMA ReadsFill ==
  ASSUME NEW k \in Nat, (k + 1) * ReadSize > LinkSpeed
  PROVE  k * ReadSize >= TickCarries
  <1> DEFINE q == LinkSpeed \div ReadSize
  <1>1. LinkSpeed \in Nat /\ ReadSize \in Nat \ {0}  BY TimingAssumption
  <1>2. q \in Nat /\ q * ReadSize <= LinkSpeed  BY <1>1
  <1>3. TickCarries = ReadSize * q  BY DEF TickCarries
  <1> HIDE DEF q
  <1>4. CASE k < q
    <2>1. PICK e \in Nat : q = k + 1 + e
      <3>1. q - (k + 1) \in Nat /\ q = k + 1 + (q - (k + 1))  BY <1>2, <1>4
      <3> QED  BY <3>1
    <2>2. /\ (k + 1 + e) * ReadSize = (k + 1) * ReadSize + e * ReadSize
          /\ e * ReadSize \in Nat /\ (k + 1) * ReadSize \in Nat
      BY <1>1
    <2> QED  BY <1>1, <1>2, <2>1, <2>2
  <1>5. CASE k >= q
    <2>1. PICK e \in Nat : k = q + e
      <3>1. k - q \in Nat /\ k = q + (k - q)  BY <1>2, <1>5
      <3> QED  BY <3>1
    <2>2. (q + e) * ReadSize = ReadSize * q + e * ReadSize /\ e * ReadSize \in Nat
          /\ ReadSize * q \in Nat
      BY <1>1, <1>2
    <2> QED  BY <1>3, <2>1, <2>2
  <1> QED  BY <1>2, <1>4, <1>5

LEMMA PaceNumbers ==
  /\ TickCarries \in Nat \ {0} /\ LinkTicks \in Nat /\ LimitTicks \in Nat
  /\ NumberOfParts * Size \in Nat /\ Deadline \in Nat /\ AdaptiveTimeout \in Nat
  /\ Rate \in Nat /\ Size \in Nat \ {0} /\ LinkSpeed \in Nat /\ ReadSize \in 1..LinkSpeed
  /\ MaxAttempts \in Nat \ {0}
  <1>1. /\ Rate \in Nat /\ Size \in Nat \ {0} /\ LinkSpeed \in Nat /\ ReadSize \in 1..LinkSpeed
        /\ MaxAttempts \in Nat \ {0}
    BY TimingAssumption
  <1>2. TickCarries \in Nat \ {0}
    <2> DEFINE q == LinkSpeed \div ReadSize
    <2>1. q \in Nat  BY <1>1
    <2>2. q >= 1
      <3>1. 1 * ReadSize <= LinkSpeed  BY <1>1
      <3> QED  BY <1>1, <3>1, QuotientBounds
    <2> HIDE DEF q
    <2>3. q \in Nat \ {0} /\ ReadSize \in Nat \ {0}  BY <1>1, <2>1, <2>2
    <2>4. ReadSize * q \in Nat \ {0}  BY <2>3
    <2> QED  BY <2>4 DEF TickCarries, q
  <1>3. LinkTicks \in Nat
    <2>1. Size - 1 \in Nat  BY <1>1
    <2> QED  BY <1>2, <2>1 DEF LinkTicks
  <1>4. NumberOfParts * Size \in Nat  BY <1>1, NthType
  <1>5. LimitTicks \in Nat  BY <1>1, <1>4 DEF LimitTicks
  <1>6. AdaptiveTimeout \in Nat  BY TimingAssumption DEF AdaptiveTimeout, More, CeilDiv
  <1> QED  BY <1>1, <1>2, <1>3, <1>4, <1>5, <1>6, DeadlineNat

LEMMA LeftTyped ==
  ASSUME TypeInv
  PROVE  /\ AllLeft \in [Parts -> Nat]
         /\ \A p \in Parts : Left(p) \in Nat /\ owed[p] <= Left(p) /\ AllLeft[p] = Left(p)
  <1>1. ASSUME NEW p \in Parts PROVE Left(p) \in Nat /\ owed[p] <= Left(p)
    <2>1. /\ sent[p] \in Nat /\ sent[p] <= Size /\ pending[p] \in Nat /\ owed[p] \in Nat
          /\ owed[p] <= pending[p] /\ Size \in Nat
          /\ sent[p] + pending[p] <= Size \/ pending[p] = 0
      BY PaceNumbers DEF TypeInv, TypeOK, Holds
    <2> QED  BY <2>1 DEF Left, Granted
  <1> QED  BY <1>1 DEF AllLeft

LEMMA RefillsAreNumbers ==
  ASSUME NEW d \in Nat
  PROVE  /\ Rate * d \in Nat /\ Rate * (d + 1) \in Nat /\ Rate * (d + 1) = Rate * d + Rate
         /\ Rate * (d + 1) - Rate = Rate * d
  BY PaceNumbers

LEMMA ProductsGrow ==
  ASSUME NEW x \in Nat, NEW y \in Nat, NEW d \in Nat, x <= y
  PROVE  x * d <= y * d /\ x * d \in Nat /\ y * d \in Nat
  <1>1. PICK e \in Nat : y = x + e
    <2>1. y - x \in Nat /\ y = x + (y - x)  OBVIOUS
    <2> QED  BY <2>1
  <1>2. (x + e) * d = x * d + e * d /\ x * d \in Nat /\ e * d \in Nat  OBVIOUS
  <1> QED  BY <1>1, <1>2

\* An attempt that has kept pace is not past its deadline.
LEMMA LiveIsInTime ==
  ASSUME TimeSuffices, TypeInv, NEW p \in Parts, Paced(p), Live(p)
  PROVE  age[p] < Deadline
  <1>1. PICK l \in 0..LinkTicks, d \in 0..LimitTicks : InStep(p, l, d)  BY DEF Paced
  <1>2. age[p] = l + d  BY <1>1 DEF InStep
  <1> QED  BY <1>1, <1>2, PaceNumbers DEF TimeSuffices

\* The parts pay for the d + 1 refills they had and for the n that a debt of the bucket takes.
LEMMA RefillsArePaid ==
  ASSUME TypeInv, NEW d \in Nat, NEW c \in Nat, NEW n \in Nat, Rate > 0,
         NumberOfParts * Size - Rate * (d + 1) + tokens >= c, Rate * n < c - tokens
  PROVE  d + 1 + n <= LimitTicks
  <1> DEFINE N == NumberOfParts * Size
             X == Rate * (d + 1)
             Y == Rate * n
  <1>1. N \in Nat /\ X \in Nat /\ Y \in Nat /\ tokens \in Int /\ Rate \in Nat \ {0}
    BY PaceNumbers, RefillsAreNumbers, BoundsAreNumbers
  <1>2. N - X + tokens >= c /\ Y < c - tokens  OBVIOUS
  <1>3. (d + 1 + n) * Rate = X + Y  BY <1>1
  <1> HIDE DEF X, Y, N
  <1>4. (d + 1 + n) * Rate <= N  BY <1>1, <1>2, <1>3
  <1>5. d + 1 + n <= N \div Rate  BY <1>1, <1>4, QuotientBounds
  <1> QED  BY <1>1, <1>5 DEF LimitTicks, N

\* The limiter does not refuse: the time for which it would grant the bytes is in the attempt.
LEMMA GrantIsInTime ==
  ASSUME TimeSuffices, TypeInv, NEW p \in Parts, Paced(p), Live(p), owed[p] > 0
  PROVE  age[p] + Delay(Less(owed[p], Rate)) <= AdaptiveTimeout
  <1>1. PICK l \in 0..LinkTicks, d \in 0..LimitTicks : InStep(p, l, d)  BY DEF Paced
  <1>2. age[p] = l + d /\ Refilled(d)  BY <1>1 DEF InStep
  <1>3. LinkTicks + LimitTicks < AdaptiveTimeout
    BY PaceNumbers, TimingAssumption DEF TimeSuffices, Deadline, Less
  <1> DEFINE C == Less(owed[p], Rate)
  <1>4. C \in Nat /\ C <= owed[p] /\ Rate > 0 /\ tokens \in Int /\ owed[p] \in Nat
    <2>1. owed[p] \in Nat /\ tokens \in Int /\ Rate > 0
      BY PaceNumbers DEF TypeInv, TypeOK, Holds
    <2> QED  BY <2>1, PaceNumbers DEF Less
  <1> HIDE DEF C
  <1>5. CASE C <= tokens
    BY <1>1, <1>2, <1>3, <1>5, PaceNumbers DEF Delay, C
  <1>6. CASE ~(C <= tokens)
    <2> DEFINE D == CeilDiv(C - tokens, Rate)
    <2>1. D \in Nat /\ D >= 1 /\ Rate * (D - 1) < C - tokens
      <3>1. C - tokens \in Nat \ {0} /\ Rate \in Nat \ {0}  BY <1>4, <1>6, PaceNumbers
      <3>2. D \in Nat /\ D >= 1  BY <3>1, CeilDivCovers
      <3>3. Rate * D <= C - tokens + Rate - 1
        BY <3>1 DEF CeilDiv
      <3> HIDE DEF D
      <3>4. Rate * D = Rate * (D - 1) + Rate /\ Rate * (D - 1) \in Nat
        <4>1. D - 1 \in Nat /\ D = (D - 1) + 1  BY <3>2
        <4> QED  BY <4>1, RefillsAreNumbers
      <3> QED  BY <1>4, <3>1, <3>2, <3>3, <3>4
    <2>2. Covers(AllLeft, NumberOfParts * Size - Rate * (d + 1) + tokens)
      BY <1>2 DEF Refilled
    <2> DEFINE B == NumberOfParts * Size - Rate * (d + 1) + tokens
               w == [AllLeft EXCEPT ![p] = @ - C]
    <2>3. B \in Int
      <3>1. NumberOfParts * Size \in Nat /\ Rate * (d + 1) \in Nat
        BY <1>1, PaceNumbers, RefillsAreNumbers
      <3> QED  BY <1>4, <3>1
    <2>4. AllLeft \in [Parts -> Nat] /\ AllLeft[p] \in Nat /\ C <= AllLeft[p]
      BY <1>4, LeftTyped
    <2>5. /\ w \in [Parts -> Nat] /\ w[p] = AllLeft[p] + (- C)
          /\ \A q \in Parts \ {p} : w[q] = AllLeft[q]
      BY <1>4, <2>4
    <2> HIDE DEF B, w, D
    <2>6. Covers(w, B + (- C))
      <3>1. - C \in Int  BY <1>4
      <3>2. Covers(AllLeft, B)  BY <2>2 DEF B
      <3> QED  BY <2>3, <2>4, <2>5, <3>1, <3>2, CoversChange
    <2>7. B + (- C) >= 0
      <3>1. B + (- C) \in Int  BY <1>4, <2>3
      <3> QED  BY <2>6, <3>1, CoversAtLeast
    <2>8. d + D <= LimitTicks
      <3> DEFINE n == D - 1
      <3>1. n \in Nat /\ d + 1 + n = d + D /\ d \in Nat  BY <1>1, <2>1, PaceNumbers
      <3>2. Rate * n < C - tokens  BY <2>1
      <3>3. NumberOfParts * Size - Rate * (d + 1) + tokens >= C
        <4>1. B >= C  BY <1>4, <2>3, <2>7
        <4> QED  BY <4>1 DEF B
      <3> HIDE DEF n
      <3>4. d + 1 + n <= LimitTicks  BY <1>4, <3>1, <3>2, <3>3, RefillsArePaid
      <3> QED  BY <3>1, <3>4
    <2>9. Delay(C) = D  BY <1>6 DEF Delay, D
    <2> QED  BY <1>1, <1>2, <1>3, <2>1, <2>8, <2>9, PaceNumbers DEF C
  <1> QED  BY <1>5, <1>6

-----------------------------------------------------------------------------
(* The steps keep the pace. *)

LEMMA LeftStaysTyped ==
  ASSUME TypeInv'
  PROVE  /\ AllLeft' \in [Parts -> Nat]
         /\ \A p \in Parts : Left(p)' \in Nat /\ AllLeft'[p] = Left(p)'
  <1>1. ASSUME NEW p \in Parts PROVE Left(p)' \in Nat
    <2>1. /\ sent'[p] \in Nat /\ sent'[p] <= Size /\ pending'[p] \in Nat /\ owed'[p] \in Nat
          /\ owed'[p] <= pending'[p] /\ Size \in Nat
          /\ sent'[p] + pending'[p] <= Size \/ pending'[p] = 0
      BY PaceNumbers DEF TypeInv, TypeOK, Holds
    <2> QED  BY <2>1 DEF Left, Granted
  <1> QED  BY <1>1 DEF AllLeft

LEMMA RefilledNumbers ==
  ASSUME NEW d \in Nat
  PROVE  \A t \in Int : NumberOfParts * Size - Rate * (d + 1) + t
                            = (NumberOfParts * Size - Rate) + (t - Rate * d)
  <1> DEFINE N == NumberOfParts * Size
             X == Rate * (d + 1)
             Y == Rate * d
  <1>1. N \in Nat /\ X \in Nat /\ Y \in Nat /\ Rate \in Nat /\ X = Y + Rate
    BY PaceNumbers, RefillsAreNumbers
  <1> HIDE DEF N, X, Y
  <1>2. \A t \in Int : N - X + t = (N - Rate) + (t - Y)  BY <1>1
  <1> QED  BY <1>2 DEF N, X, Y

\* The refills are counted on as far as the bucket has grown by them.
LEMMA RefilledStays ==
  ASSUME TypeInv, TypeInv', \A q \in Parts : Left(q)' <= Left(q),
         NEW d \in Nat, NEW e \in Nat, tokens - Rate * d <= tokens' - Rate * e, Refilled(d)
  PROVE  Refilled(e)'
  <1> DEFINE B == NumberOfParts * Size - Rate * (d + 1) + tokens
             C == NumberOfParts * Size - Rate * (e + 1) + tokens'
  <1>1. B \in Int /\ C \in Int /\ B <= C
    <2> DEFINE M == NumberOfParts * Size - Rate
               X == tokens - Rate * d
               Y == tokens' - Rate * e
    <2>1. B = M + X /\ C = M + Y
      <3>1. tokens \in Int /\ tokens' \in Int  BY DEF TypeInv, TypeOK
      <3>2. B = M + X  BY <3>1, RefilledNumbers
      <3>3. C = M + Y  BY <3>1, RefilledNumbers
      <3> QED  BY <3>2, <3>3
    <2>2. M \in Int /\ X \in Int /\ Y \in Int /\ X <= Y
      <3>1. tokens \in Int /\ tokens' \in Int  BY DEF TypeInv, TypeOK
      <3>2. NumberOfParts * Size \in Nat /\ Rate \in Nat /\ Rate * d \in Nat /\ Rate * e \in Nat
        BY PaceNumbers, RefillsAreNumbers
      <3>3. tokens - Rate * d <= tokens' - Rate * e  OBVIOUS
      <3> DEFINE U == Rate * d
                 V == Rate * e
                 N == NumberOfParts * Size
      <3>4. U \in Nat /\ V \in Nat /\ N \in Nat /\ tokens - U <= tokens' - V  BY <3>2, <3>3
      <3> HIDE DEF U, V, N
      <3>5. N - Rate \in Int /\ tokens - U \in Int /\ tokens' - V \in Int  BY <3>1, <3>2, <3>4
      <3> QED  BY <3>4, <3>5 DEF U, V, N
    <2> HIDE DEF M, X, Y, B, C
    <2> QED  BY <2>1, <2>2
  <1>2. Covers(AllLeft, B)  BY DEF Refilled
  <1> HIDE DEF B, C
  <1>3. Covers(AllLeft', C)
    BY <1>1, <1>2, LeftTyped, LeftStaysTyped, CoversLess
  <1> QED  BY <1>3 DEF Refilled, Covers, C

LEMMA RefilledKept ==
  ASSUME TypeInv, TypeInv', tokens' = tokens, \A q \in Parts : Left(q)' <= Left(q)
  PROVE  \A d \in Nat : Refilled(d) => Refilled(d)'
  <1> SUFFICES ASSUME NEW d \in Nat, Refilled(d) PROVE Refilled(d)'  OBVIOUS
  <1>1. tokens - Rate * d <= tokens' - Rate * d
    <2>1. tokens \in Int /\ Rate * d \in Nat  BY RefillsAreNumbers DEF TypeInv, TypeOK
    <2> QED  BY <2>1
  <1> QED  BY <1>1, RefilledStays

\* A grant is paid for by the units granted.
LEMMA RefilledGrants ==
  ASSUME TypeInv, TypeInv', NEW p \in Parts, NEW c \in Nat, tokens' = tokens - c,
         Left(p)' = Left(p) - c, \A q \in Parts \ {p} : Left(q)' = Left(q),
         NEW d \in Nat, Refilled(d)
  PROVE  Refilled(d)'
  <1> DEFINE B == NumberOfParts * Size - Rate * (d + 1) + tokens
  <1>1. Covers(AllLeft, B)  BY DEF Refilled
  <1>2. B \in Int /\ B + (- c) = NumberOfParts * Size - Rate * (d + 1) + tokens'
    <2> DEFINE N == NumberOfParts * Size
               X == Rate * (d + 1)
    <2>1. N \in Nat /\ X \in Nat /\ tokens \in Int
      BY PaceNumbers, RefillsAreNumbers, BoundsAreNumbers
    <2> HIDE DEF N, X
    <2>2. N - X + tokens \in Int /\ N - X + tokens + (- c) = N - X + tokens'  BY <2>1
    <2> QED  BY <2>2 DEF N, X
  <1>3. /\ AllLeft \in [Parts -> Nat] /\ AllLeft' \in [Parts -> Nat]
        /\ AllLeft'[p] = AllLeft[p] + (- c)
        /\ \A q \in Parts \ {p} : AllLeft'[q] = AllLeft[q]
    BY LeftTyped, LeftStaysTyped
  <1>4. - c \in Int  OBVIOUS
  <1> HIDE DEF B
  <1>5. Covers(AllLeft', B + (- c))  BY <1>1, <1>2, <1>3, <1>4, CoversChange
  <1> QED  BY <1>2, <1>5 DEF Refilled, Covers

\* A step of part p that changes nothing of the others but the bucket.
LEMMA OthersKeepPace ==
  ASSUME TypeInv, TypeInv', NEW p \in Parts, \A q \in Parts : Paced(q), tokens' <= tokens,
         stale' = stale, \A d \in Nat : Refilled(d) => Refilled(d)',
         \A q \in Parts \ {p} : /\ pc'[q] = pc[q] /\ attempt'[q] = attempt[q]
                                /\ age'[q] = age[q] /\ sent'[q] = sent[q]
                                /\ pending'[q] = pending[q] /\ due'[q] = due[q]
                                /\ room'[q] = room[q],
         Paced(p)'
  PROVE  \A q \in Parts : Paced(q)'
  <1> SUFFICES ASSUME NEW q \in Parts, q # p PROVE Paced(q)'  OBVIOUS
  <1>1. /\ pc'[q] = pc[q] /\ attempt'[q] = attempt[q] /\ age'[q] = age[q] /\ sent'[q] = sent[q]
        /\ pending'[q] = pending[q] /\ due'[q] = due[q] /\ room'[q] = room[q]
    OBVIOUS
  <1>2. Live(q)' <=> Live(q)  BY <1>1 DEF Live, UsesPooled
  <1>3. NextRead(q)' = NextRead(q)  BY <1>1 DEF NextRead
  <1>4. due[q] > 0 => tokens' + Rate * (due[q] - 1) < 0
    <2> SUFFICES ASSUME due[q] > 0 PROVE tokens' + Rate * (due[q] - 1) < 0  OBVIOUS
    <2> DEFINE Y == Rate * (due[q] - 1)
    <2>1. Y \in Int /\ tokens \in Int /\ tokens' \in Int
      <3>1. Rate \in Nat /\ due[q] \in Nat  BY PaceNumbers DEF TypeInv, TypeOK
      <3>2. tokens \in Int /\ tokens' \in Int  BY DEF TypeInv, TypeOK
      <3> QED  BY <3>1, <3>2
    <2>2. tokens + Y < 0  BY DEF Paced
    <2> HIDE DEF Y
    <2>3. tokens' + Y < 0  BY <2>1, <2>2
    <2> QED  BY <2>3 DEF Y
  <1>5. ASSUME NEW l \in Nat, NEW d \in Nat, InStep(q, l, d) PROVE InStep(q, l, d)'
    BY <1>1, <1>5 DEF InStep, TickCarries
  <1>6. /\ LinkTicks' = LinkTicks /\ LimitTicks' = LimitTicks
        /\ LinkTicks \in Nat /\ LimitTicks \in Nat
    BY PaceNumbers DEF LinkTicks, LimitTicks, TickCarries, NumberOfParts
  <1>7. Paced(q)  OBVIOUS
  <1>8. ~Live(q) /\ pc'[q] # "ok" => sent'[q] = 0 /\ pending'[q] = 0 /\ room'[q] = LinkSpeed
    BY <1>1, <1>7 DEF Paced
  <1>9. Live(q) => /\ pending'[q] \in {0, NextRead(q)}
                   /\ sent'[q] < Size => \E k \in Nat : LinkSpeed - room'[q] = k * ReadSize
    BY <1>1, <1>7 DEF Paced
  <1>10. Live(q) => \E l \in 0..LinkTicks, d \in 0..LimitTicks : InStep(q, l, d)'
    <2> SUFFICES ASSUME Live(q)
                 PROVE  \E l \in 0..LinkTicks, d \in 0..LimitTicks : InStep(q, l, d)'
      OBVIOUS
    <2>1. PICK l \in 0..LinkTicks, d \in 0..LimitTicks : InStep(q, l, d)  BY <1>7 DEF Paced
    <2>2. l \in Nat /\ d \in Nat  BY <1>6
    <2> QED  BY <1>5, <2>1, <2>2
  <1> QED  BY <1>1, <1>2, <1>3, <1>4, <1>6, <1>8, <1>9, <1>10 DEF Paced

\* A tick that a part waits for a grant refills a bucket in debt, and every other tick of an
\* attempt carries its Reads.
LEMMA TickPaced ==
  ASSUME TimeSuffices, TypeInv, TypeInv', up, ~Cancelled, Refilled(0),
         \A p \in Parts : Paced(p), Tick
  PROVE  Refilled(0)' /\ \A p \in Parts : Paced(p)'
  <1>1. /\ age' = [p \in Parts |-> IF pc[p] = "send" THEN age[p] + 1 ELSE age[p]]
        /\ due' = [p \in Parts |-> More(0, due[p] - 1)]
        /\ tokens' = Less(Rate, tokens + Rate)
        /\ room' = [p \in Parts |-> LinkSpeed]
        /\ UNCHANGED <<pc, attempt, sent, pending, owed, stale>>
    BY DEF Tick
  <1>2. /\ tokens \in Int /\ tokens <= Rate /\ Rate \in Nat /\ tokens' \in Int
        /\ tokens <= tokens' /\ tokens' <= tokens + Rate
    BY <1>1, PaceNumbers DEF TypeInv, TypeOK, Less
  <1>3. \A q \in Parts : Left(q)' <= Left(q)
    <2>1. \A q \in Parts : Left(q)' = Left(q)  BY <1>1 DEF Left, Granted
    <2> QED  BY <2>1, LeftTyped
  <1>4. ASSUME NEW d \in Nat, Refilled(d) PROVE Refilled(d)'
    <2>1. tokens - Rate * d <= tokens' - Rate * d
      <3> DEFINE X == Rate * d
      <3>1. X \in Nat  BY RefillsAreNumbers
      <3> HIDE DEF X
      <3>2. \A t, u, x \in Int : t <= u => t - x <= u - x  OBVIOUS
      <3>3. X \in Int  BY <3>1
      <3>4. tokens - X <= tokens' - X  BY <1>2, <3>2, <3>3, Zenon
      <3> QED  BY <3>4 DEF X
    <2> QED  BY <1>3, <1>4, <2>1, RefilledStays
  <1>5. ASSUME NEW d \in Nat, Refilled(d), tokens < 0 PROVE Refilled(d + 1)'
    <2>1. tokens - Rate * d <= tokens' - Rate * (d + 1)
      <3> DEFINE X == Rate * d
      <3>1. X \in Nat /\ Rate * (d + 1) = X + Rate  BY RefillsAreNumbers
      <3> HIDE DEF X
      <3>2. tokens' = tokens + Rate  BY <1>1, <1>2, <1>5 DEF Less
      <3>3. tokens - X <= tokens' - (X + Rate)  BY <1>2, <3>1, <3>2
      <3> QED  BY <3>1, <3>3 DEF X
    <2>2. d + 1 \in Nat  OBVIOUS
    <2> QED  BY <1>3, <1>5, <2>1, <2>2, RefilledStays
  <1>6. ASSUME NEW p \in Parts PROVE Paced(p)'
    <2>1. /\ Paced(p) /\ (Live(p)' <=> Live(p)) /\ NextRead(p)' = NextRead(p)
          /\ room'[p] = LinkSpeed
      BY <1>1 DEF Live, UsesPooled, NextRead
    <2>2. ~Live(p) /\ pc'[p] # "ok" => sent'[p] = 0 /\ pending'[p] = 0 /\ room'[p] = LinkSpeed
      BY <1>1, <2>1 DEF Paced
    <2>3. due'[p] > 0 => tokens' + Rate * (due'[p] - 1) < 0
      <3> SUFFICES ASSUME due'[p] > 0 PROVE tokens' + Rate * (due'[p] - 1) < 0  OBVIOUS
      <3>1. due[p] \in Nat /\ due[p] >= 2 /\ due'[p] = due[p] - 1
        BY <1>1 DEF TypeInv, TypeOK, More
      <3> DEFINE k == due[p] - 2
      <3>2. k \in Nat /\ due[p] - 1 = k + 1 /\ due'[p] - 1 = k  BY <3>1
      <3>3. tokens + Rate * (k + 1) < 0  BY <2>1, <3>1, <3>2 DEF Paced
      <3> HIDE DEF k
      <3>4. Rate * (k + 1) = Rate * k + Rate /\ Rate * k \in Nat  BY <3>2, RefillsAreNumbers
      <3>5. tokens' + Rate * k < 0
        <4> DEFINE Y == Rate * k
        <4>1. Y \in Int /\ tokens + (Y + Rate) < 0  BY <3>3, <3>4
        <4> HIDE DEF Y
        <4>2. tokens \in Int /\ tokens' \in Int /\ Rate \in Int /\ tokens' <= tokens + Rate
          BY <1>2
        <4>3. \A t, u, r, y \in Int : u <= t + r /\ t + (y + r) < 0 => u + y < 0  OBVIOUS
        <4>4. tokens' + Y < 0  BY <4>1, <4>2, <4>3
        <4> QED  BY <4>4 DEF Y
      <3> QED  BY <3>2, <3>5
    <2>4. sent'[p] < Size => \E k \in Nat : LinkSpeed - room'[p] = k * ReadSize
      <3>1. LinkSpeed - room'[p] = 0 * ReadSize  BY <2>1, PaceNumbers
      <3> QED  BY <3>1
    <2>5. ASSUME Live(p)
          PROVE  \E l \in 0..LinkTicks, d \in 0..LimitTicks : InStep(p, l, d)'
      <3>1. PICK l \in 0..LinkTicks, d \in 0..LimitTicks : InStep(p, l, d)
        BY <2>1, <2>5 DEF Paced
      <3>2. age[p] = l + d /\ l * TickCarries + (LinkSpeed - room[p]) <= sent[p] /\ Refilled(d)
        BY <3>1 DEF InStep
      <3>3. /\ l \in Nat /\ d \in Nat /\ sent[p] \in Nat /\ room[p] \in 0..LinkSpeed
            /\ age'[p] = age[p] + 1 /\ sent'[p] = sent[p] /\ TickCarries' = TickCarries
            /\ TickCarries \in Nat \ {0} /\ l * TickCarries \in Nat
        <4>1. l \in Nat /\ d \in Nat /\ TickCarries \in Nat \ {0}  BY <3>1, PaceNumbers
        <4>2. l * TickCarries \in Nat  BY <4>1
        <4> QED  BY <1>1, <2>5, <4>1, <4>2 DEF Live, TypeInv, TypeOK, TickCarries
      <3>4. Transmits(p)
        BY <2>5 DEF Tick, Over, Pauses, Live
      <3>5. CASE due[p] > 0
        <4>1. tokens < 0 /\ Rate > 0
          <5> DEFINE Y == Rate * (due[p] - 1)
          <5>1. due[p] - 1 \in Nat  BY <3>5 DEF TypeInv, TypeOK
          <5>2. Y \in Nat  BY <1>2, <5>1
          <5>3. tokens + Y < 0  BY <2>1, <3>5 DEF Paced
          <5> HIDE DEF Y
          <5> QED  BY <1>2, <3>5, <5>2, <5>3 DEF TypeInv, Holds
        <4>2. Refilled(d + 1)'  BY <1>5, <3>2, <3>3, <4>1
        <4>3. d + 1 \in 0..LimitTicks
          <5> DEFINE B == NumberOfParts * Size - Rate * (d + 1) + tokens
          <5>1. B \in Int
            <6>1. NumberOfParts * Size \in Nat /\ Rate * (d + 1) \in Nat
              BY <3>3, PaceNumbers, RefillsAreNumbers
            <6> QED  BY <1>2, <6>1
          <5>2. B >= 0
            <6>1. Covers(AllLeft, B)  BY <3>2 DEF Refilled
            <6> HIDE DEF B
            <6> QED  BY <5>1, <6>1, CoversAtLeast
          <5>3. Rate * 0 < 0 - tokens
            <6>1. Rate * 0 = 0  BY <1>2
            <6> QED  BY <1>2, <4>1, <6>1
          <5>4. NumberOfParts * Size - Rate * (d + 1) + tokens >= 0  BY <5>2
          <5>5. d + 1 + 0 <= LimitTicks
            <6>1. 0 \in Nat  OBVIOUS
            <6> HIDE DEF B
            <6> QED  BY <3>3, <4>1, <5>3, <5>4, <6>1, RefillsArePaid
          <5> QED  BY <3>3, <5>5, PaceNumbers
        <4>4. InStep(p, l, d + 1)'
          <5>1. age'[p] = l + (d + 1)  BY <3>2, <3>3
          <5>2. l * TickCarries + (LinkSpeed - room'[p]) <= sent'[p]
            <6> DEFINE A == l * TickCarries
            <6>1. A \in Nat /\ A + (LinkSpeed - room[p]) <= sent[p]  BY <3>2, <3>3
            <6> HIDE DEF A
            <6>2. A + (LinkSpeed - room'[p]) <= sent'[p]  BY <2>1, <3>3, <6>1, PaceNumbers
            <6> QED  BY <6>2 DEF A
          <5> QED  BY <3>3, <4>2, <5>1, <5>2 DEF InStep
        <4> QED  BY <3>1, <4>3, <4>4
      <3>6. CASE ~(due[p] > 0)
        <4>1. sent[p] < Size /\ NextRead(p) > room[p]
          BY <2>5, <3>4, <3>6 DEF Transmits, Connected, Live
        <4>2. LinkSpeed - room[p] >= TickCarries
          <5>1. PICK k \in Nat : LinkSpeed - room[p] = k * ReadSize
            BY <2>1, <2>5, <4>1 DEF Paced
          <5>2. ReadSize > room[p]
            BY <3>3, <4>1, PaceNumbers DEF NextRead, Less
          <5>3. (k + 1) * ReadSize > LinkSpeed
            <6>1. (k + 1) * ReadSize = k * ReadSize + ReadSize  BY PaceNumbers
            <6>2. (LinkSpeed - room[p]) + ReadSize > LinkSpeed  BY <3>3, <5>2, PaceNumbers
            <6> QED  BY <5>1, <6>1, <6>2
          <5> QED  BY <5>1, <5>3, ReadsFill
        <4>3. (l + 1) * TickCarries <= sent[p]
          <5> DEFINE A == l * TickCarries
          <5>1. (l + 1) * TickCarries = A + TickCarries  BY <3>3
          <5>2. A \in Nat /\ A + (LinkSpeed - room[p]) <= sent[p]  BY <3>2, <3>3
          <5> HIDE DEF A
          <5>3. A + TickCarries <= sent[p]  BY <3>3, <4>2, <5>2, PaceNumbers
          <5> QED  BY <5>1, <5>3
        <4>4. l + 1 \in 0..LinkTicks
          <5>1. (l + 1) * TickCarries \in Nat /\ l + 1 \in Nat  BY <3>3
          <5>2. (l + 1) * TickCarries <= Size - 1 /\ Size - 1 \in Nat
            BY <3>3, <4>1, <4>3, <5>1, PaceNumbers
          <5>3. l + 1 <= LinkTicks  BY <3>3, <5>1, <5>2, QuotientBounds DEF LinkTicks
          <5> QED  BY <5>1, <5>3, PaceNumbers
        <4>5. InStep(p, l + 1, d)'
          <5>1. age'[p] = (l + 1) + d  BY <3>2, <3>3
          <5>2. (l + 1) * TickCarries + (LinkSpeed - room'[p]) <= sent'[p]
            <6> DEFINE A == (l + 1) * TickCarries
            <6>1. A \in Nat /\ A <= sent[p]  BY <3>3, <4>3
            <6> HIDE DEF A
            <6>2. A + (LinkSpeed - room'[p]) <= sent'[p]  BY <2>1, <3>3, <6>1, PaceNumbers
            <6> QED  BY <6>2 DEF A
          <5>3. Refilled(d)'  BY <1>4, <3>2, <3>3
          <5> QED  BY <3>3, <5>1, <5>2, <5>3 DEF InStep
        <4> QED  BY <3>1, <4>4, <4>5
      <3> QED  BY <3>5, <3>6
    <2>6. LinkTicks' = LinkTicks /\ LimitTicks' = LimitTicks
      BY DEF LinkTicks, LimitTicks, TickCarries, NumberOfParts
    <2>7. Live(p) => pending'[p] \in {0, NextRead(p)}  BY <1>1, <2>1 DEF Paced
    <2> QED  BY <2>1, <2>2, <2>3, <2>4, <2>5, <2>6, <2>7 DEF Paced
  <1> QED  BY <1>4, <1>6

\* Attempts begin with nothing sent, on a link that this part has not used in this tick.
LEMMA StartPaced ==
  ASSUME TypeInv, NEW p \in Parts, Refilled(0)', pc[p] # "ok", ~Live(p), Paced(p), stale' = stale,
         StartAttempt(p), tokens' = tokens
  PROVE  Paced(p)'
  <1>1. /\ pc'[p] = "send" /\ age'[p] = 0 /\ sent'[p] = 0
        /\ UNCHANGED <<attempt, pending, owed, due, room>>
    BY DEF StartAttempt, TypeInv, TypeOK
  <1>2. sent[p] = 0 /\ pending[p] = 0 /\ room[p] = LinkSpeed  BY DEF Paced
  <1>3. due'[p] > 0 => tokens' + Rate * (due'[p] - 1) < 0
    BY <1>1 DEF Paced
  <1>4. LinkSpeed - room'[p] = 0 * ReadSize  BY <1>1, <1>2, PaceNumbers
  <1>5. 0 \in 0..LinkTicks' /\ 0 \in 0..LimitTicks' /\ InStep(p, 0, 0)'
    <2>1. LinkTicks' = LinkTicks /\ LimitTicks' = LimitTicks /\ TickCarries' = TickCarries
      BY DEF LinkTicks, LimitTicks, TickCarries, NumberOfParts
    <2>2. 0 * TickCarries' + (LinkSpeed - room'[p]) <= sent'[p]
      BY <1>1, <1>2, <2>1, PaceNumbers
    <2> QED  BY <1>1, <2>1, <2>2, PaceNumbers DEF InStep
  <1>6. \E l \in 0..LinkTicks', d \in 0..LimitTicks' : InStep(p, l, d)'  BY <1>5
  <1> QED  BY <1>1, <1>2, <1>3, <1>4, <1>6 DEF Paced

\* An attempt that fails on a dead connection has read nothing, and gives nothing back.
LEMMA StalePaced ==
  ASSUME TypeInv, TypeInv', NEW p \in Parts, pc[p] = "send", ~Live(p), Paced(p),
         AttemptFails(p, TRUE, FALSE), attempt[p] < MaxAttempts
  PROVE  /\ Paced(p)' /\ tokens' = tokens /\ pc'[p] = "allow"
         /\ \A q \in Parts : Left(q)' = Left(q)
  <1>1. /\ pc' = [pc EXCEPT ![p] = "allow"] /\ AbandonRead(p)
        /\ UNCHANGED <<age, pause, sent, room, stale>>
    BY DEF AttemptFails, world
  <1>2. sent[p] = 0 /\ pending[p] = 0 /\ room[p] = LinkSpeed  BY DEF Paced
  <1>3. owed[p] = 0 /\ due[p] = 0
    BY <1>2, PaceNumbers DEF TypeInv, TypeOK, Holds, Granted
  <1>4. tokens' = tokens
    BY <1>1, <1>3, PaceNumbers DEF AbandonRead, Grant, Less, TypeInv, TypeOK
  <1>5. UNCHANGED <<pending, owed, due>>
    BY <1>1, <1>2, <1>3 DEF AbandonRead, TypeInv, TypeOK
  <1>6. pc'[p] = "allow"  BY <1>1 DEF TypeInv, TypeOK
  <1>7. Paced(p)'  BY <1>1, <1>2, <1>3, <1>5, <1>6 DEF Paced, Live
  <1>8. \A q \in Parts : Left(q)' = Left(q)  BY <1>1, <1>5 DEF Left, Granted
  <1> QED  BY <1>4, <1>6, <1>7, <1>8

LEMMA ReadPaced ==
  ASSUME TypeInv, TypeInv', NEW p \in Parts, Paced(p), Read(p)
  PROVE  /\ Paced(p)' /\ tokens' = tokens /\ \A q \in Parts : Left(q)' <= Left(q)
         /\ \A q \in Parts \ {p} : pending'[q] = pending[q]
  <1>1. /\ Live(p) /\ pending[p] = 0 /\ pending' = [pending EXCEPT ![p] = NextRead(p)]
        /\ owed' = [owed EXCEPT ![p] = IF Rate = 0 THEN 0 ELSE NextRead(p)]
        /\ UNCHANGED <<pc, attempt, age, sent, due, room, tokens, stale>>
    BY DEF Read, Live, Sending, Connected, world
  <1>2. pending'[p] = NextRead(p) /\ \A q \in Parts \ {p} : pending'[q] = pending[q]
    BY <1>1 DEF TypeInv, TypeOK
  <1>3. Live(p)' /\ NextRead(p)' = NextRead(p)  BY <1>1 DEF Live, UsesPooled, NextRead
  <1>4. ASSUME NEW q \in Parts PROVE Left(q)' <= Left(q)
    <2>1. Left(q) \in Nat  BY LeftTyped
    <2>2. CASE q # p
      <3>1. pending'[q] = pending[q] /\ owed'[q] = owed[q] /\ sent'[q] = sent[q]
        BY <1>1, <2>2 DEF TypeInv, TypeOK
      <3> QED  BY <2>1, <3>1 DEF Left, Granted
    <2>3. CASE q = p
      <3>1. owed[p] = 0 /\ Granted(p) = 0
        BY <1>1, PaceNumbers DEF TypeInv, TypeOK, Holds, Granted
      <3>2. pending'[p] \in Nat /\ owed'[p] \in Nat /\ owed'[p] <= pending'[p]
        BY DEF TypeInv, TypeOK, Holds
      <3>3. Granted(p)' \in Nat  BY <3>2 DEF Granted
      <3>4. sent'[p] = sent[p] /\ sent[p] \in Nat /\ Size \in Nat
        BY <1>1, PaceNumbers DEF TypeInv, TypeOK
      <3> QED  BY <2>3, <3>1, <3>3, <3>4 DEF Left
    <2> QED  BY <2>2, <2>3
  <1>5. ASSUME NEW l \in Nat, NEW d \in Nat, InStep(p, l, d) PROVE InStep(p, l, d)'
    BY <1>1, <1>4, <1>5, RefilledKept DEF InStep, TickCarries
  <1>6. \E l \in 0..LinkTicks', d \in 0..LimitTicks' : InStep(p, l, d)'
    <2>1. LinkTicks' = LinkTicks /\ LimitTicks' = LimitTicks
      BY DEF LinkTicks, LimitTicks, TickCarries, NumberOfParts
    <2>2. PICK l \in 0..LinkTicks, d \in 0..LimitTicks : InStep(p, l, d)  BY <1>1 DEF Paced
    <2>3. l \in Nat /\ d \in Nat  BY PaceNumbers
    <2> QED  BY <1>5, <2>1, <2>2, <2>3
  <1>7. /\ due'[p] > 0 => tokens' + Rate * (due'[p] - 1) < 0
        /\ sent'[p] < Size => \E k \in Nat : LinkSpeed - room'[p] = k * ReadSize
    BY <1>1 DEF Paced
  <1>8. Paced(p)'  BY <1>2, <1>3, <1>6, <1>7 DEF Paced
  <1> QED  BY <1>1, <1>2, <1>4, <1>8

LEMMA GrantPaced ==
  ASSUME TypeInv, TypeInv', NEW p \in Parts, Paced(p), Live(p), WaitN(p),
         ~AttemptFails(p, TRUE, FALSE)
  PROVE  /\ Paced(p)' /\ tokens' <= tokens /\ \A d \in Nat : Refilled(d) => Refilled(d)'
         /\ \A q \in Parts \ {p} : due'[q] = due[q]
  <1> DEFINE C == Less(owed[p], Rate)  D == Delay(C)
  <1>1. /\ owed[p] > 0 /\ due[p] = 0
        /\ tokens' = tokens - C /\ owed' = [owed EXCEPT ![p] = @ - C]
        /\ due' = [due EXCEPT ![p] = D]
        /\ UNCHANGED <<pc, attempt, age, sent, pending, room, stale>>
    BY DEF WaitN, world
  <1>2. owed[p] \in Nat /\ pending[p] \in Nat /\ Rate \in Nat \ {0} /\ tokens \in Int
    BY <1>1, PaceNumbers DEF TypeInv, TypeOK, Holds
  <1>3. C \in Nat /\ C > 0 /\ C <= owed[p]  BY <1>1, <1>2 DEF Less
  <1> HIDE DEF C
  <1>4. D \in Nat /\ (D > 0 => tokens - C + Rate * (D - 1) < 0)
    <2>1. CASE C <= tokens  BY <2>1 DEF Delay
    <2>2. CASE ~(C <= tokens)
      <3>1. C - tokens \in Nat \ {0}  BY <1>2, <1>3, <2>2
      <3>2. D = CeilDiv(C - tokens, Rate)  BY <2>2 DEF Delay
      <3>3. D \in Nat /\ D >= 1  BY <1>2, <3>1, <3>2, CeilDivCovers
      <3>4. Rate * D <= C - tokens + Rate - 1  BY <1>2, <3>1, <3>2 DEF CeilDiv
      <3> HIDE DEF D
      <3> DEFINE Y == Rate * (D - 1)
      <3>5. Rate * D = Y + Rate /\ Y \in Nat
        <4>1. D - 1 \in Nat /\ D = (D - 1) + 1  BY <3>3
        <4> QED  BY <4>1, RefillsAreNumbers
      <3> HIDE DEF Y
      <3>6. tokens - C + Y < 0  BY <1>2, <1>3, <3>4, <3>5
      <3> QED  BY <3>3, <3>6 DEF Y
    <2> QED  BY <2>1, <2>2
  <1> HIDE DEF D
  <1>5. due'[p] = D /\ \A q \in Parts \ {p} : due'[q] = due[q]
    BY <1>1 DEF TypeInv, TypeOK
  <1>6. Left(p)' = Left(p) - C /\ \A q \in Parts \ {p} : Left(q)' = Left(q)
    <2>1. owed'[p] = owed[p] - C /\ \A q \in Parts \ {p} : owed'[q] = owed[q]
      BY <1>1 DEF TypeInv, TypeOK
    <2>2. sent[p] \in Nat /\ Size \in Nat  BY PaceNumbers DEF TypeInv, TypeOK
    <2>3. Left(p)' = Left(p) - C
      BY <1>1, <1>2, <1>3, <2>1, <2>2 DEF Left, Granted
    <2>4. \A q \in Parts \ {p} : Left(q)' = Left(q)
      BY <1>1, <2>1 DEF Left, Granted
    <2> QED  BY <2>3, <2>4
  <1>7. ASSUME NEW d \in Nat, Refilled(d) PROVE Refilled(d)'
    BY <1>1, <1>3, <1>6, <1>7, RefilledGrants
  <1>8. tokens' <= tokens  BY <1>1, <1>2, <1>3
  <1>9. due'[p] > 0 => tokens' + Rate * (due'[p] - 1) < 0  BY <1>1, <1>4, <1>5
  <1>10. Live(p)' /\ NextRead(p)' = NextRead(p)  BY <1>1 DEF Live, UsesPooled, NextRead
  <1>11. \E l \in 0..LinkTicks', d \in 0..LimitTicks' : InStep(p, l, d)'
    <2>1. /\ LinkTicks' = LinkTicks /\ LimitTicks' = LimitTicks
      BY DEF LinkTicks, LimitTicks, TickCarries, NumberOfParts
    <2>2. PICK l \in 0..LinkTicks, d \in 0..LimitTicks : InStep(p, l, d)  BY DEF Paced
    <2>3. l \in Nat /\ d \in Nat  BY PaceNumbers
    <2>4. Refilled(d)'  BY <1>7, <2>2, <2>3 DEF InStep
    <2>5. InStep(p, l, d)'  BY <1>1, <2>2, <2>4 DEF InStep, TickCarries
    <2> QED  BY <2>1, <2>5
  <1>12. /\ pending'[p] \in {0, NextRead(p)}
         /\ sent'[p] < Size => \E k \in Nat : LinkSpeed - room'[p] = k * ReadSize
    BY <1>1 DEF Paced
  <1>13. Paced(p)'  BY <1>9, <1>10, <1>11, <1>12 DEF Paced
  <1> QED  BY <1>5, <1>7, <1>8, <1>13

LEMMA SendPaced ==
  ASSUME TypeInv, TypeInv', NEW p \in Parts, Paced(p), Live(p), Send(p)
  PROVE  /\ Paced(p)' /\ tokens' = tokens /\ \A q \in Parts : Left(q)' <= Left(q)
         /\ \A q \in Parts \ {p} : /\ sent'[q] = sent[q] /\ room'[q] = room[q]
                                   /\ pending'[q] = pending[q]
  <1>1. /\ pending[p] > 0 /\ owed[p] = 0 /\ due[p] = 0
        /\ sent' = [sent EXCEPT ![p] = @ + pending[p]]
        /\ room' = [room EXCEPT ![p] = @ - pending[p]]
        /\ pending' = [pending EXCEPT ![p] = 0]
        /\ UNCHANGED <<pc, attempt, age, owed, due, tokens, stale>>
    BY DEF Send, world
  <1>2. /\ sent'[p] = sent[p] + pending[p] /\ room'[p] = room[p] - pending[p] /\ pending'[p] = 0
        /\ \A q \in Parts \ {p} : /\ sent'[q] = sent[q] /\ room'[q] = room[q]
                                  /\ pending'[q] = pending[q]
    BY <1>1 DEF TypeInv, TypeOK
  <1>3. /\ sent[p] \in Nat /\ pending[p] \in Nat /\ room[p] \in Nat /\ LinkSpeed \in Nat
        /\ Size \in Nat /\ ReadSize \in Nat
    BY PaceNumbers DEF TypeInv, TypeOK
  <1>4. \A q \in Parts : Left(q)' <= Left(q)
    <2>1. Left(p)' = Left(p)  BY <1>1, <1>2, <1>3 DEF Left, Granted
    <2>2. \A q \in Parts \ {p} : Left(q)' = Left(q)  BY <1>1, <1>2 DEF Left, Granted
    <2> QED  BY <2>1, <2>2, LeftTyped
  <1>5. Live(p)'  BY <1>1 DEF Live, UsesPooled
  <1>6. ASSUME sent'[p] < Size PROVE \E k \in Nat : LinkSpeed - room'[p] = k * ReadSize
    <2>1. pending[p] = ReadSize
      BY <1>1, <1>2, <1>3, <1>6 DEF Paced, NextRead, Less
    <2>2. PICK k \in Nat : LinkSpeed - room[p] = k * ReadSize
      BY <1>2, <1>3, <1>6 DEF Paced
    <2>3. (k + 1) * ReadSize = k * ReadSize + ReadSize /\ k * ReadSize \in Nat  BY <1>3
    <2>4. LinkSpeed - room'[p] = (LinkSpeed - room[p]) + ReadSize  BY <1>2, <1>3, <2>1
    <2>5. LinkSpeed - room'[p] = (k + 1) * ReadSize  BY <2>2, <2>3, <2>4
    <2> QED  BY <2>5
  <1>7. \E l \in 0..LinkTicks', d \in 0..LimitTicks' : InStep(p, l, d)'
    <2>1. /\ LinkTicks' = LinkTicks /\ LimitTicks' = LimitTicks /\ TickCarries' = TickCarries
      BY DEF LinkTicks, LimitTicks, TickCarries, NumberOfParts
    <2>2. PICK l \in 0..LinkTicks, d \in 0..LimitTicks : InStep(p, l, d)  BY DEF Paced
    <2>3. l \in Nat /\ d \in Nat /\ TickCarries \in Nat  BY PaceNumbers
    <2>4. Refilled(d)'  BY <1>1, <1>4, <2>2, <2>3, RefilledKept DEF InStep
    <2>5. l * TickCarries + (LinkSpeed - room'[p]) <= sent'[p]
      <3> DEFINE A == l * TickCarries
      <3>1. A \in Nat  BY <2>3
      <3>2. A + (LinkSpeed - room[p]) <= sent[p]  BY <2>2 DEF InStep
      <3> HIDE DEF A
      <3>3. A + (LinkSpeed - room'[p]) <= sent'[p]  BY <1>2, <1>3, <3>1, <3>2
      <3> QED  BY <3>3 DEF A
    <2>6. InStep(p, l, d)'  BY <1>1, <2>1, <2>2, <2>4, <2>5 DEF InStep
    <2> QED  BY <2>1, <2>6
  <1>8. due'[p] > 0 => tokens' + Rate * (due'[p] - 1) < 0  BY <1>1
  <1>9. Paced(p)'  BY <1>2, <1>5, <1>6, <1>7, <1>8 DEF Paced
  <1> QED  BY <1>1, <1>2, <1>4, <1>9

LEMMA InitServed == Init => ServedInv
  <1> SUFFICES ASSUME Init PROVE ServedInv  OBVIOUS
  <1>1. TypeInv  BY InitTypeInv
  <1>2. /\ up /\ tokens = Rate
        /\ \A p \in Parts : /\ pc[p] = "allow" /\ attempt[p] = 1 /\ sent[p] = 0 /\ pending[p] = 0
                            /\ owed[p] = 0 /\ due[p] = 0 /\ room[p] = LinkSpeed
    BY DEF Init
  <1>3. \A p \in Parts : Paced(p)
    BY <1>2 DEF Paced, Live
  <1>4. Refilled(0)
    <2> DEFINE g == [i \in 0..NumberOfParts |-> i * Size]
    <2>1. NumberOfParts \in Nat /\ Size \in Nat  BY NthType, PaceNumbers
    <2>2. g \in [0..NumberOfParts -> Nat]
      <3>1. \A i \in 0..NumberOfParts : i * Size \in Nat  BY <2>1
      <3> QED  BY <3>1
    <2>3. ASSUME NEW i \in 0..NumberOfParts, NEW j \in 0..NumberOfParts, i < j
          PROVE  g[j] >= g[i] + AllLeft[Nth[j]]
      <3>1. Nth[j] \in Parts  BY <2>3, NthType
      <3>2. AllLeft[Nth[j]] = Size
        <4>1. Left(Nth[j]) = Size  BY <1>2, <2>1, <3>1 DEF Left, Granted
        <4> QED  BY <3>1, <4>1 DEF AllLeft
      <3>3. (i + 1) * Size <= j * Size
        <4>1. i + 1 \in Nat /\ j \in Nat /\ i + 1 <= j  BY <2>1, <2>3
        <4> QED  BY <2>1, <4>1, ProductsGrow
      <3>4. (i + 1) * Size = i * Size + Size  BY <2>1
      <3>5. j * Size >= i * Size + Size
        <4>1. i * Size \in Nat /\ j * Size \in Nat  BY <2>1
        <4> QED  BY <3>3, <3>4, <4>1
      <3> QED  BY <3>2, <3>5
    <2>4. g[NumberOfParts] = NumberOfParts * Size  BY <2>1
    <2>5. NumberOfParts * Size - Rate * (0 + 1) + tokens = NumberOfParts * Size
      <3> DEFINE N == NumberOfParts * Size
      <3>1. N \in Nat /\ Rate \in Nat /\ Rate * (0 + 1) = Rate  BY PaceNumbers
      <3> HIDE DEF N
      <3>2. N - Rate + tokens = N  BY <1>2, <3>1
      <3> QED  BY <3>1, <3>2 DEF N
    <2>6. g[NumberOfParts] <= NumberOfParts * Size  BY <2>4, PaceNumbers
    <2> HIDE DEF g
    <2> QED  BY <2>2, <2>3, <2>5, <2>6 DEF Refilled, Covers
  <1> QED  BY <1>2, <1>3, <1>4 DEF ServedInv

LEMMA NextServed ==
  ASSUME TimeSuffices, TypeInv, TypeInv', ServedInv, [Next]_vars
  PROVE  ServedInv'
  <1> SUFFICES ASSUME ~faulty' PROVE ServedInv'  BY DEF ServedInv
  <1> DEFINE Good(p) == pc[p] # "failed" /\ attempt[p] <= 2 /\ (attempt[p] = 2 => stale)
             OnPace == Refilled(0) /\ \A q \in Parts : Paced(q)
  <1>1. ~faulty
    BY DEF Next, PartStep, Allow, PauseEnds, ReturnCancelled, StaleConnection, ServerFails, Read,
           WaitN, Send, Answer, AttemptTimesOut, Cancel, Tick, Finished, vars
  <1>2. up /\ (\A q \in Parts : Good(q)) /\ (~cancelled => OnPace)  BY <1>1 DEF ServedInv
  <1>3. Cancelled <=> cancelled  BY <1>2 DEF Cancelled
  <1>4. /\ pc \in [Parts -> {"allow", "pause", "send", "ok", "failed", "cancelled"}]
        /\ attempt \in [Parts -> 1..MaxAttempts] /\ MaxAttempts \in Nat /\ MaxAttempts >= 2
    BY PaceNumbers DEF TypeInv, TypeOK, TimeSuffices
  <1> HIDE DEF Good, OnPace
  \* A step of one part.
  <1>5. ASSUME NEW p \in Parts, UNCHANGED <<up, stale, cancelled>>,
               \A q \in Parts \ {p} : /\ pc'[q] = pc[q] /\ attempt'[q] = attempt[q]
                                      /\ age'[q] = age[q] /\ sent'[q] = sent[q]
                                      /\ pending'[q] = pending[q] /\ due'[q] = due[q]
                                      /\ room'[q] = room[q],
               Good(p)',
               ~cancelled => /\ tokens' <= tokens /\ Paced(p)'
                             /\ \A d \in Nat : Refilled(d) => Refilled(d)'
        PROVE  ServedInv'
    <2>1. \A q \in Parts : Good(q)'  BY <1>2, <1>5 DEF Good
    <2>2. ~cancelled' => OnPace'
      <3> SUFFICES ASSUME ~cancelled PROVE OnPace'  BY <1>5
      <3>1. \A q \in Parts : Paced(q)'  BY <1>2, <1>5, OthersKeepPace DEF OnPace
      <3> QED  BY <1>2, <1>5, <3>1 DEF OnPace
    <2> QED  BY <1>2, <1>5, <2>1, <2>2 DEF ServedInv, Good, OnPace
  <1>6. tokens <= tokens  BY DEF TypeInv, TypeOK
  \* A part that waits for its attempt begins it.
  <1>7. ASSUME NEW p \in Parts, pc[p] \in {"allow", "pause"}, StartAttempt(p),
               UNCHANGED <<up, stale, cancelled, tokens>>
        PROVE  ServedInv'
    <2>1. /\ pc' = [pc EXCEPT ![p] = "send"] /\ age' = [age EXCEPT ![p] = 0]
          /\ sent' = [sent EXCEPT ![p] = 0]
          /\ UNCHANGED <<attempt, pending, owed, due, room>>
      BY <1>7 DEF StartAttempt
    <2>2. /\ pc'[p] = "send"
          /\ \A q \in Parts \ {p} : pc'[q] = pc[q] /\ age'[q] = age[q] /\ sent'[q] = sent[q]
      BY <2>1 DEF TypeInv, TypeOK
    <2>3. Good(p)'  BY <1>2, <1>7, <2>1, <2>2 DEF Good
    <2>4. ~cancelled => Paced(p)' /\ \A d \in Nat : Refilled(d) => Refilled(d)'
      <3> SUFFICES ASSUME ~cancelled PROVE Paced(p)' /\ \A d \in Nat : Refilled(d) => Refilled(d)'
        OBVIOUS
      <3>1. ~Live(p) /\ pc[p] # "ok" /\ Paced(p) /\ Refilled(0)
        BY <1>2, <1>7 DEF Live, OnPace
      <3>2. sent'[p] = sent[p]
        <4>1. sent[p] = 0  BY <3>1 DEF Paced
        <4> QED  BY <2>1, <4>1 DEF TypeInv, TypeOK
      <3>3. \A q \in Parts : Left(q)' <= Left(q)
        <4>1. \A q \in Parts : Left(q)' = Left(q)  BY <2>1, <2>2, <3>2 DEF Left, Granted
        <4> QED  BY <4>1, LeftTyped
      <3>4. \A d \in Nat : Refilled(d) => Refilled(d)'  BY <1>7, <3>3, RefilledKept
      <3>5. Refilled(0)'  BY <3>1, <3>4
      <3> QED  BY <1>7, <3>1, <3>4, <3>5, StartPaced
    <2> QED  BY <1>5, <1>6, <1>7, <2>1, <2>2, <2>3, <2>4
  \* A part that does not send, and one that answers, changes nothing of the pace.
  <1>8. ASSUME NEW p \in Parts, UNCHANGED <<up, stale, cancelled, tokens>>,
               UNCHANGED <<attempt, age, sent, pending, owed, due, room>>,
               \A q \in Parts \ {p} : pc'[q] = pc[q],
               pc'[p] # "failed", Paced(p) => Paced(p)'
        PROVE  ServedInv'
    <2>1. Good(p)'  BY <1>2, <1>8 DEF Good
    <2>2. ~cancelled => Paced(p)' /\ \A d \in Nat : Refilled(d) => Refilled(d)'
      <3>1. \A q \in Parts : Left(q)' <= Left(q)
        <4>1. \A q \in Parts : Left(q)' = Left(q)  BY <1>8 DEF Left, Granted
        <4> QED  BY <4>1, LeftTyped
      <3> QED  BY <1>2, <1>8, <3>1, RefilledKept DEF OnPace
    <2> QED  BY <1>5, <1>6, <1>8, <2>1, <2>2
  <1>9. ASSUME NEW p \in Parts, AttemptFails(p, TRUE, FALSE), pc[p] = "send", ~Live(p), ~cancelled
        PROVE  ServedInv'
    <2>1. stale /\ attempt[p] = 1  BY <1>9 DEF Live, UsesPooled
    <2>2. /\ attempt' = [attempt EXCEPT ![p] = Less(@ + 1, MaxAttempts)]
          /\ pc' = [pc EXCEPT ![p] = IF attempt[p] < MaxAttempts THEN "allow" ELSE "failed"]
          /\ pending' = [pending EXCEPT ![p] = 0]
          /\ due' = [due EXCEPT ![p] = 0]
          /\ UNCHANGED <<age, pause, sent, room, up, stale, cancelled>>
      BY <1>9 DEF AttemptFails, AbandonRead, world
    <2>3. attempt'[p] = 2
      BY <1>4, <2>1, <2>2 DEF Less
    <2>4. \A q \in Parts \ {p} : /\ pc'[q] = pc[q] /\ attempt'[q] = attempt[q]
                                 /\ pending'[q] = pending[q] /\ due'[q] = due[q]
      BY <2>2 DEF TypeInv, TypeOK
    <2>5. /\ Paced(p)' /\ tokens' = tokens /\ pc'[p] = "allow"
          /\ \A q \in Parts : Left(q)' = Left(q)
      <3>1. attempt[p] < MaxAttempts /\ Paced(p)  BY <1>2, <1>4, <1>9, <2>1 DEF OnPace
      <3> QED  BY <1>9, <3>1, StalePaced
    <2>6. Good(p)'  BY <2>1, <2>2, <2>3, <2>5 DEF Good
    <2>7. \A d \in Nat : Refilled(d) => Refilled(d)'  BY <2>5, LeftTyped, RefilledKept
    <2> QED  BY <1>5, <1>6, <2>2, <2>4, <2>5, <2>6, <2>7
  <1>10. ASSUME NEW p \in Parts, Allow(p) PROVE ServedInv'
    <2>1. UNCHANGED <<up, stale, cancelled, tokens>> /\ faulty' = FALSE /\ pc[p] = "allow"
      BY <1>10 DEF Allow, world
    <2>2. CASE StartAttempt(p)  BY <1>7, <2>1, <2>2
    <2>3. CASE ~StartAttempt(p)
      <3>1. /\ pc' = [pc EXCEPT ![p] = "pause"]
            /\ UNCHANGED <<attempt, age, sent, pending, owed, due, room>>
        BY <1>10, <2>1, <2>3 DEF Allow
      <3>2. pc'[p] = "pause" /\ \A q \in Parts \ {p} : pc'[q] = pc[q]  BY <1>4, <3>1
      <3>3. Paced(p) => Paced(p)'  BY <2>1, <3>1, <3>2 DEF Paced, Live
      <3> QED  BY <1>8, <2>1, <3>1, <3>2, <3>3
    <2> QED  BY <2>2, <2>3
  <1>11. ASSUME NEW p \in Parts, PauseEnds(p) PROVE ServedInv'
    BY <1>7, <1>11 DEF PauseEnds, world
  <1>12. ASSUME NEW p \in Parts, ReturnCancelled(p) PROVE ServedInv'
    <2>1. /\ pc' = [pc EXCEPT ![p] = "cancelled"] /\ cancelled
          /\ UNCHANGED <<attempt, up, stale, cancelled>>
      BY <1>3, <1>12 DEF ReturnCancelled, world
    <2>2. \A q \in Parts : Good(q)'
      <3>1. \A q \in Parts : pc'[q] = pc[q] \/ pc'[q] = "cancelled"  BY <1>4, <2>1
      <3> QED  BY <1>2, <2>1, <3>1 DEF Good
    <2> QED  BY <1>2, <2>1, <2>2 DEF ServedInv, Good
  <1>13. ASSUME NEW p \in Parts, StaleConnection(p) PROVE ServedInv'
    BY <1>3, <1>9, <1>13 DEF StaleConnection, Sending, Live
  <1>14. ASSUME NEW p \in Parts, ServerFails(p) PROVE FALSE  BY <1>14 DEF ServerFails
  <1>15. ASSUME NEW p \in Parts, Read(p) PROVE ServedInv'
    <2>1. /\ ~cancelled /\ Paced(p)
          /\ UNCHANGED <<pc, attempt, age, sent, due, room, up, stale, cancelled>>
      BY <1>2, <1>3, <1>15 DEF Read, Sending, world, OnPace
    <2>2. /\ Paced(p)' /\ tokens' = tokens /\ \A q \in Parts : Left(q)' <= Left(q)
          /\ \A q \in Parts \ {p} : pending'[q] = pending[q]
      BY <1>15, <2>1, ReadPaced
    <2>3. Good(p)'  BY <1>2, <2>1 DEF Good
    <2>4. \A d \in Nat : Refilled(d) => Refilled(d)'  BY <2>2, RefilledKept
    <2> QED  BY <1>5, <1>6, <2>1, <2>2, <2>3, <2>4
  <1>16. ASSUME NEW p \in Parts, WaitN(p) PROVE ServedInv'
    <2>1. ~cancelled /\ pc[p] = "send" /\ owed[p] > 0 /\ Paced(p)
      BY <1>2, <1>3, <1>16 DEF WaitN, Sending, OnPace
    <2>2. Live(p)
      <3>1. pending[p] # 0  BY <2>1 DEF TypeInv, TypeOK, Holds
      <3> QED  BY <2>1, <3>1 DEF Paced
    <2>3. age[p] + Delay(Less(owed[p], Rate)) <= AdaptiveTimeout
      BY <2>1, <2>2, GrantIsInTime
    <2>4. /\ owed' = [owed EXCEPT ![p] = @ - Less(owed[p], Rate)]
          /\ UNCHANGED <<pc, attempt, age, pause, sent, pending, room, up, stale, cancelled>>
      <3>1. ~(age[p] + Delay(Less(owed[p], Rate)) > AdaptiveTimeout)
        <4>1. age[p] + Delay(Less(owed[p], Rate)) \in Int
          <5>1. age[p] \in Nat /\ owed[p] \in Nat /\ tokens \in Int /\ Rate \in Nat
            BY PaceNumbers DEF TypeInv, TypeOK
          <5>2. Rate # 0  BY <2>1 DEF TypeInv, Holds
          <5>3. Less(owed[p], Rate) \in Nat  BY <5>1 DEF Less
          <5>4. Delay(Less(owed[p], Rate)) \in Int
            BY <5>1, <5>2, <5>3 DEF Delay, CeilDiv
          <5> QED  BY <5>1, <5>4
        <4> QED  BY <2>3, <4>1, PaceNumbers
      <3> QED  BY <1>16, <3>1 DEF WaitN, world
    <2>5. ~AttemptFails(p, TRUE, FALSE)
      <3>1. pc'[p] = "send"  BY <2>1, <2>4
      <3> QED  BY <1>4, <3>1 DEF AttemptFails
    <2>6. /\ Paced(p)' /\ tokens' <= tokens /\ \A d \in Nat : Refilled(d) => Refilled(d)'
          /\ \A q \in Parts \ {p} : due'[q] = due[q]
      BY <1>16, <2>1, <2>2, <2>5, GrantPaced
    <2>7. Good(p)'  BY <1>2, <2>4 DEF Good
    <2> QED  BY <1>5, <2>4, <2>6, <2>7
  <1>17. ASSUME NEW p \in Parts, Send(p) PROVE ServedInv'
    <2>1. /\ ~cancelled /\ Paced(p) /\ pending[p] > 0
          /\ UNCHANGED <<pc, attempt, age, due, up, stale, cancelled>>
      BY <1>2, <1>3, <1>17 DEF Send, Sending, world, OnPace
    <2>2. Live(p)
      <3>1. pc[p] = "send" /\ pending[p] # 0  BY <1>17, <2>1 DEF Send, Sending
      <3> QED  BY <2>1, <3>1 DEF Paced
    <2>3. /\ Paced(p)' /\ tokens' = tokens /\ \A q \in Parts : Left(q)' <= Left(q)
          /\ \A q \in Parts \ {p} : /\ sent'[q] = sent[q] /\ room'[q] = room[q]
                                    /\ pending'[q] = pending[q]
      BY <1>17, <2>1, <2>2, SendPaced
    <2>4. Good(p)'  BY <1>2, <2>1 DEF Good
    <2>5. \A d \in Nat : Refilled(d) => Refilled(d)'  BY <2>3, RefilledKept
    <2> QED  BY <1>5, <1>6, <2>1, <2>3, <2>4, <2>5
  <1>18. ASSUME NEW p \in Parts, Answer(p) PROVE ServedInv'
    <2>1. /\ pc' = [pc EXCEPT ![p] = "ok"]
          /\ UNCHANGED <<attempt, age, sent, pending, owed, due, room, tokens>>
          /\ UNCHANGED <<up, stale, cancelled>>
      BY <1>18 DEF Answer, world
    <2>2. pc'[p] = "ok" /\ \A q \in Parts \ {p} : pc'[q] = pc[q]  BY <1>4, <2>1
    <2>3. Paced(p) => Paced(p)'  BY <2>1, <2>2 DEF Paced, Live
    <2> QED  BY <1>8, <2>1, <2>2, <2>3
  <1>19. ASSUME NEW p \in Parts, AttemptTimesOut(p) PROVE ServedInv'
    <2>1. /\ pc[p] = "send" /\ age[p] >= Deadline /\ AttemptFails(p, TRUE, FALSE) /\ ~cancelled
          /\ Paced(p)
      BY <1>2, <1>3, <1>19 DEF AttemptTimesOut, OnPace
    <2>2. ~Live(p)
      <3>1. age[p] \in Int  BY PaceNumbers DEF TypeInv, TypeOK
      <3> QED  BY <2>1, <3>1, LiveIsInTime, PaceNumbers
    <2> QED  BY <1>9, <2>1, <2>2
  <1>20. CASE Cancel
    <2>1. cancelled' /\ UNCHANGED <<pc, attempt, up, stale>>  BY <1>20 DEF Cancel, parts
    <2> QED  BY <1>2, <2>1 DEF ServedInv, Good
  <1>21. CASE UNCHANGED vars
    <2>1. /\ UNCHANGED <<pc, attempt, age, sent, pending, owed, due, room>>
          /\ UNCHANGED <<tokens, up, stale, cancelled>>
      BY <1>21 DEF vars, parts, world
    <2>2. \A q \in Parts : Good(q)'  BY <1>2, <2>1 DEF Good
    <2>3. ~cancelled' => OnPace'
      BY <1>2, <2>1 DEF OnPace, Paced, Live, UsesPooled, NextRead, InStep, Refilled, AllLeft,
                        Left, Granted, Covers, LinkTicks, LimitTicks, TickCarries, NumberOfParts
    <2> QED  BY <1>2, <2>1, <2>2, <2>3 DEF ServedInv, Good, OnPace
  <1>22. CASE Tick
    <2>1. ~Cancelled  BY <1>22 DEF Tick, Pauses, Transmits, Sending
    <2>2. OnPace'  BY <1>2, <1>3, <1>22, <2>1, TickPaced DEF OnPace
    <2>3. up' /\ UNCHANGED <<pc, attempt, stale, cancelled>>  BY <1>22 DEF Tick
    <2> QED  BY <1>2, <2>2, <2>3 DEF ServedInv, Good, OnPace
  <1> QED
    BY <1>10, <1>11, <1>12, <1>13, <1>14, <1>15, <1>16, <1>17, <1>18, <1>19, <1>20, <1>21, <1>22
    DEF Next, PartStep, Finished

\* When the deadline of an attempt leaves the time that the link and the limit take, a part
\* fails only for a cause outside the program: however the Reads of all parts share the bucket,
\* the limiter never refuses (ratelimit.go wait), no attempt on a live connection runs out of
\* time, and a dead pooled connection costs one attempt, whose retry is told so and takes a
\* fresh one (retry.go WithRetry, isRetry).
THEOREM FailsForCauseInTime ==
  ASSUME TimeSuffices
  PROVE  Spec => []FailsForCause
  <1>1. ServedInv => FailsForCause  BY DEF ServedInv, FailsForCause
  <1>2. TypeInv /\ TypeInv' /\ ServedInv /\ [Next]_vars => ServedInv'  BY NextServed
  <1> QED  BY InitTypeInv, NextTypeInv, InitServed, <1>1, <1>2, PTL DEF Spec

\* If besides the http.Client does not end an attempt before AdaptiveTimeout, parts are served:
\* they fail for a cause, and time out only after the time for their size.
THEOREM PartsAreServedInTime ==
  ASSUME TimeSuffices, AdaptiveTimeout <= HTTPTimeout
  PROVE  Spec => []PartsAreServed
  <1>1. Spec => []FailsForCause  BY FailsForCauseInTime
  <1>2. Spec => []AdaptiveTimeIsGiven  BY AdaptiveTimeIsGivenUnlessCut
  <1>3. FailsForCause /\ AdaptiveTimeIsGiven => PartsAreServed  BY DEF PartsAreServed
  <1> QED  BY <1>1, <1>2, <1>3, PTL

-----------------------------------------------------------------------------

\* The types, the bound on the time of every WithRetry (s3client/retry.go) and the bandwidth
\* limit (ratelimit.go) hold together, for any parts, sizes, limits, deadlines and policy.
THEOREM BoundsHoldAlways == Spec => []BoundsHold
  <1>1. TypeInv => TypeOK  BY DEF TypeInv
  <1>2. TypeOK /\ RetriesAreBounded /\ LimitHolds => BoundsHold  BY DEF BoundsHold
  <1> QED  BY InitTypeInv, NextTypeInv, RetriesEnd, LimitHoldsAlways, <1>1, <1>2, PTL DEF Spec

=============================================================================
