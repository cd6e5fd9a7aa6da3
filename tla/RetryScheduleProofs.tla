------------------------- MODULE RetryScheduleProofs -------------------------
(***************************************************************************)
(* Retries keep to their schedule, for any number of jobs, any Retry-After *)
(* and any caps.  The thread sleeps no longer than the least of its waits; *)
(* that there is a least one is the well-foundedness of the naturals.      *)
(***************************************************************************)
EXTENDS RetrySchedule, TLAPS, WellFoundedInduction

\* A set of natural numbers has a least element.
LEMMA LeastNatural ==
  ASSUME NEW S \in SUBSET Nat, S # {}
  PROVE  \E x \in S : \A y \in S : x <= y
<1> DEFINE R == OpToRel(<, Nat)
<1>1. \A x \in Nat, y \in Nat : y < x => <<y, x>> \in R
  BY DEF OpToRel
<1>2. IsWellFoundedOn(R, Nat)
  BY NatLessThanWellFounded
<1> HIDE DEF R
<1>3. PICK x \in S : \A y \in S : ~ (<<y, x>> \in R)
  BY <1>2, WFMin
<1>4. \A y \in S : ~ (y < x)
  BY <1>1, <1>3
<1>5. \A y \in S : x <= y
  BY <1>4
<1> QED
  BY <1>5

----------------------------------------------------------------------------
(* The delay *)

LEMMA Constants ==
  /\ BackoffBaseMs \in Nat \ {0} /\ BackoffCapMs \in Nat \ {0} /\ RetryAfterCapMs \in Nat \ {0}
  /\ MaxWaitMs \in Nat \ {0} /\ Second \in Nat \ {0} /\ LongMax \in Nat \ {0}
  /\ TicksPerMs \in Nat \ {0} /\ MaxTime \in Nat /\ MaxRetries \in Nat
  /\ RetryAfters \subseteq Int /\ RetryAfterCapMs <= LongMax
BY RetryScheduleAssumption

LEMMA BackoffType ==
  ASSUME NEW n \in Nat \ {0}
  PROVE  Backoff(n) \in Int
<1>1. 2^(n - 1) \in Int
  <2>1. n - 1 \in Nat
    OBVIOUS
  <2> QED
    BY <2>1
<1>2. BackoffBaseMs * 2^(n - 1) \in Int
  BY <1>1, Constants
<1> QED
  BY <1>2, Constants DEF Backoff, Least

\* A quarter less or more than the backoff at most.
LEMMA BackoffSpread ==
  ASSUME NEW b \in Int, NEW jitter \in -(b \div 4)..(b \div 4)
  PROVE  /\ b \in Nat /\ b + jitter \in Nat
         /\ 4 * (b + jitter) >= 3 * b /\ 4 * (b + jitter) <= 5 * b
OBVIOUS

\* A delay is never negative.
LEMMA DelayType ==
  ASSUME NEW header \in Int, NEW n \in Nat \ {0}, NEW delay \in Delays(header, n)
  PROVE  delay \in Nat
<1>1. ParseRetryAfterMs(header) \in Int
  <2>1. Least(header, LongMax) \in Int
    BY Constants DEF Least
  <2>2. Least(header, LongMax) * Second \in Int
    BY <2>1, Constants
  <2>3. Wrapped(Least(header, LongMax) * Second) \in Int
    BY <2>2, Constants DEF Wrapped
  <2> QED
    BY <2>3, Constants DEF ParseRetryAfterMs, Least
<1>2. CASE ParseRetryAfterMs(header) >= 0
  BY <1>1, <1>2 DEF Delays
<1>3. CASE ~(ParseRetryAfterMs(header) >= 0)
  <2>1. PICK jitter \in -(Backoff(n) \div 4)..(Backoff(n) \div 4) : delay = Backoff(n) + jitter
    BY <1>3 DEF Delays
  <2> QED
    BY <2>1, BackoffType, BackoffSpread
<1> QED
  BY <1>2, <1>3

\* A Retry-After whose milliseconds fit in a long is what the delay is made of.
LEMMA AskedDelay ==
  ASSUME NEW header \in Nat, header * Second <= LongMax, NEW n, NEW delay \in Delays(header, n)
  PROVE  delay = Least(RetryAfterCapMs, header * Second)
<1>1. header * Second \in Nat /\ header <= header * Second
  BY Constants
<1>2. Least(header, LongMax) = header
  BY <1>1, Constants DEF Least
<1>3. Wrapped(header * Second) = header * Second
  <2> DEFINE x == header * Second
             m == 2 * (LongMax + 1)
  <2>1. x \in 0..LongMax
    BY <1>1, Constants
  <2> HIDE DEF x
  <2>2. m \in Nat \ {0} /\ x + LongMax + 1 \in 0..(m - 1)
    BY <2>1, Constants
  <2>3. \A a \in 0..(m - 1) : a % m = a
    <3> HIDE DEF m
    <3> QED
      BY <2>2
  <2>4. (x + LongMax + 1) % m = x + LongMax + 1
    BY <2>2, <2>3
  <2> QED
    BY <2>1, <2>4, Constants DEF Wrapped, x
<1>4. ParseRetryAfterMs(header) = Least(RetryAfterCapMs, header * Second)
  BY <1>2, <1>3 DEF ParseRetryAfterMs
<1>5. ParseRetryAfterMs(header) >= 0
  BY <1>1, <1>4, Constants DEF Least
<1> QED
  BY <1>4, <1>5 DEF Delays

\* Without one it is the backoff, give or take a quarter.
LEMMA BackoffDelay ==
  ASSUME NEW header \in Int, header < 0, NEW n \in Nat \ {0}, NEW delay \in Delays(header, n)
  PROVE  /\ delay \in Nat /\ Backoff(n) \in Nat
         /\ 4 * delay >= 3 * Backoff(n) /\ 4 * delay <= 5 * Backoff(n)
<1>1. ~(ParseRetryAfterMs(header) >= 0)
  BY DEF ParseRetryAfterMs
<1>2. PICK jitter \in -(Backoff(n) \div 4)..(Backoff(n) \div 4) : delay = Backoff(n) + jitter
  BY <1>1 DEF Delays
<1> QED
  BY <1>2, BackoffType, BackoffSpread

----------------------------------------------------------------------------
(* The sleep *)

Remaining(j) == IF retryAt[j] <= now THEN 0 ELSE (retryAt[j] - now) \div TicksPerMs

\* The thread does not sleep beyond the next retry.
LEMMA SleepEndsInTime ==
  ASSUME TypeOK
  PROVE  /\ ComputeWaitMs \in Nat
         /\ \A j \in Jobs : state[j] = "waiting" /\ now <= retryAt[j] =>
              now + ComputeWaitMs * TicksPerMs <= retryAt[j]
<1> DEFINE waits == {MaxWaitMs} \cup {Remaining(j) : j \in {k \in Jobs : state[k] = "waiting"}}
<1>1. \A j \in Jobs : Remaining(j) \in Nat
  <2> SUFFICES ASSUME NEW j \in Jobs PROVE Remaining(j) \in Nat
    OBVIOUS
  <2>1. now \in Nat /\ retryAt[j] \in Nat
    BY DEF TypeOK
  <2>2. \A a \in Nat : a \div TicksPerMs \in Nat
    BY Constants
  <2> QED
    BY <2>1, <2>2 DEF Remaining
<1>2. waits \in SUBSET Nat /\ waits # {}
  BY <1>1, Constants
<1>3. ComputeWaitMs = CHOOSE w \in waits : \A v \in waits : w <= v
  BY DEF ComputeWaitMs, Remaining
<1>4. \A j \in Jobs : state[j] = "waiting" => Remaining(j) \in waits
  OBVIOUS
<1> HIDE DEF waits
<1>5. ComputeWaitMs \in waits /\ \A v \in waits : ComputeWaitMs <= v
  BY <1>2, <1>3, LeastNatural
<1>6. ComputeWaitMs \in Nat
  BY <1>2, <1>5
<1>7. ASSUME NEW j \in Jobs, state[j] = "waiting", now <= retryAt[j]
      PROVE  now + ComputeWaitMs * TicksPerMs <= retryAt[j]
  <2> DEFINE left == retryAt[j] - now
             w    == ComputeWaitMs
  <2>1. left \in Nat /\ now \in Nat /\ retryAt[j] \in Nat
    BY <1>7 DEF TypeOK
  <2>2. w \in Nat /\ w <= Remaining(j)
    BY <1>4, <1>5, <1>6, <1>7
  <2>3. Remaining(j) = (IF left = 0 THEN 0 ELSE left \div TicksPerMs)
    BY <1>7, <2>1 DEF Remaining
  <2> HIDE DEF left, w
  <2>4. Remaining(j) \in Nat /\ Remaining(j) * TicksPerMs <= left
    <3>1. left \div TicksPerMs \in Nat /\ (left \div TicksPerMs) * TicksPerMs <= left
      BY <2>1, Constants
    <3> QED
      BY <2>1, <2>3, <3>1, Constants
  <2>5. w * TicksPerMs <= Remaining(j) * TicksPerMs
    BY <2>2, <2>4, Constants
  <2>6. w * TicksPerMs \in Nat /\ Remaining(j) * TicksPerMs \in Nat
    BY <2>2, <2>4, Constants
  <2>7. w * TicksPerMs <= left
    BY <2>1, <2>4, <2>5, <2>6
  <2> QED
    BY <2>1, <2>6, <2>7 DEF left, w
<1> QED
  BY <1>6, <1>7

----------------------------------------------------------------------------
(* The invariant *)

LEMMA InitSchedule == Init => ScheduleInvariant
BY DEF Init, ScheduleInvariant, TypeOK

LEMMA ScheduleRetrySchedule ==
  ASSUME ScheduleInvariant, NEW j \in Jobs, NEW header \in RetryAfters, ScheduleRetry(j, header)
  PROVE  ScheduleInvariant'
<1>1. PICK delay \in Delays(header, attempt[j]) :
        retryAt' = [retryAt EXCEPT ![j] = now + delay * TicksPerMs]
  BY DEF ScheduleRetry
<1>2. delay \in Nat
  BY <1>1, DelayType, Constants DEF ScheduleInvariant, TypeOK
<1>3. now + delay * TicksPerMs \in Nat /\ now <= now + delay * TicksPerMs /\ now \in Nat
  <2> DEFINE d == delay * TicksPerMs
  <2>1. d \in Nat /\ now \in Nat
    BY <1>2, Constants DEF ScheduleInvariant, TypeOK
  <2> HIDE DEF d
  <2>2. now + d \in Nat /\ now <= now + d /\ now \in Nat
    BY <2>1
  <2> QED
    BY <2>2 DEF d
<1>4. /\ at = "perform" /\ state' = [state EXCEPT ![j] = "waiting"]
      /\ failedAt' = [failedAt EXCEPT ![j] = now] /\ asked' = [asked EXCEPT ![j] = header]
      /\ UNCHANGED <<now, wakeAt, at, attempt>>
  BY DEF ScheduleRetry
<1>5. TypeOK'
  BY <1>1, <1>3, <1>4 DEF ScheduleInvariant, TypeOK
<1>6. ASSUME NEW i \in Jobs, state'[i] = "waiting" PROVE Scheduled(i)'
  <2>1. CASE i = j
    <3>1. /\ retryAt'[j] = now + delay * TicksPerMs /\ failedAt'[j] = now /\ asked'[j] = header
          /\ attempt'[j] = attempt[j]
      BY <1>1, <1>4 DEF ScheduleInvariant, TypeOK
    <3> QED
      BY <1>3, <1>4, <2>1, <3>1 DEF Scheduled
  <2>2. CASE i # j
    <3>1. /\ state[i] = "waiting" /\ retryAt'[i] = retryAt[i] /\ failedAt'[i] = failedAt[i]
          /\ asked'[i] = asked[i] /\ attempt'[i] = attempt[i]
      BY <1>1, <1>4, <1>6, <2>2 DEF ScheduleInvariant, TypeOK
    <3> QED
      BY <1>4, <3>1 DEF ScheduleInvariant, Scheduled
  <2> QED
    BY <2>1, <2>2
<1> QED
  BY <1>5, <1>6 DEF ScheduleInvariant

\* The schedule of the jobs that wait is not touched.
LEMMA KeptSchedule ==
  ASSUME ScheduleInvariant, TypeOK',
         \A j \in Jobs : state'[j] = "waiting" =>
           /\ state[j] = "waiting" /\ retryAt'[j] = retryAt[j] /\ failedAt'[j] = failedAt[j]
           /\ asked'[j] = asked[j] /\ attempt'[j] = attempt[j]
           /\ at' = "perform" => now' <= retryAt[j]
           /\ at' = "poll" => wakeAt' <= retryAt[j]
           /\ at' = "start" => now' <= retryAt[j] + 1
  PROVE  ScheduleInvariant'
<1> SUFFICES ASSUME NEW j \in Jobs, state'[j] = "waiting" PROVE Scheduled(j)'
  BY DEF ScheduleInvariant
<1>1. /\ retryAt'[j] = retryAt[j] /\ failedAt'[j] = failedAt[j]
      /\ asked'[j] = asked[j] /\ attempt'[j] = attempt[j]
      /\ \E delay \in Delays(asked[j], attempt[j]) :
           retryAt[j] = failedAt[j] + delay * TicksPerMs
  BY DEF ScheduleInvariant, Scheduled
<1> QED
  BY <1>1 DEF Scheduled

LEMMA FinishSchedule ==
  ASSUME ScheduleInvariant, NEW j \in Jobs, Finish(j)
  PROVE  ScheduleInvariant'
<1>1. TypeOK'
  BY DEF Finish, ScheduleInvariant, TypeOK
<1>2. \A i \in Jobs : state'[i] = "waiting" => state[i] = "waiting"
  BY DEF Finish, ScheduleInvariant, TypeOK
<1> QED
  BY <1>1, <1>2, KeptSchedule DEF Finish, ScheduleInvariant, Scheduled

LEMMA PollSchedule ==
  ASSUME ScheduleInvariant, Poll
  PROVE  ScheduleInvariant'
<1>1. /\ ComputeWaitMs \in Nat
      /\ \A j \in Jobs : state[j] = "waiting" => now + ComputeWaitMs * TicksPerMs <= retryAt[j]
  BY SleepEndsInTime DEF ScheduleInvariant, Scheduled, Poll
<1>2. /\ at' = "poll" /\ wakeAt' = now + ComputeWaitMs * TicksPerMs
      /\ UNCHANGED <<now, attempt, state, retryAt, failedAt, asked>>
  BY DEF Poll
<1>3. wakeAt' \in Nat
  <2>1. ComputeWaitMs * TicksPerMs \in Nat /\ now \in Nat
    BY <1>1, Constants DEF ScheduleInvariant, TypeOK
  <2> QED
    BY <1>2, <2>1
<1>4. TypeOK'
  BY <1>2, <1>3 DEF ScheduleInvariant, TypeOK
<1> QED
  BY <1>1, <1>2, <1>4, KeptSchedule

LEMMA PollReturnsSchedule ==
  ASSUME ScheduleInvariant, PollReturns
  PROVE  ScheduleInvariant'
<1>1. /\ at = "poll" /\ at' = "start" /\ now' \in now..Least(wakeAt + 1, MaxTime) /\ wakeAt' = 0
      /\ UNCHANGED <<attempt, state, retryAt, failedAt, asked>>
  BY DEF PollReturns
<1>2. now' \in Nat /\ now' <= wakeAt + 1
  <2>1. now \in Nat /\ wakeAt \in Nat
    BY DEF ScheduleInvariant, TypeOK
  <2> QED
    BY <1>1, <2>1, Constants DEF Least
<1>3. TypeOK'
  BY <1>1, <1>2 DEF ScheduleInvariant, TypeOK
<1>4. ASSUME NEW j \in Jobs, state[j] = "waiting" PROVE now' <= retryAt[j] + 1
  <2>1. wakeAt <= retryAt[j] /\ wakeAt \in Nat /\ retryAt[j] \in Nat
    BY <1>1, <1>4 DEF ScheduleInvariant, Scheduled, TypeOK
  <2> QED
    BY <1>2, <2>1
<1> QED
  BY <1>1, <1>3, <1>4, KeptSchedule

LEMMA StartDueRetriesSchedule ==
  ASSUME ScheduleInvariant, StartDueRetries
  PROVE  ScheduleInvariant'
<1>1. TypeOK'
  BY DEF StartDueRetries, ScheduleInvariant, TypeOK
<1>2. ASSUME NEW j \in Jobs, state'[j] = "waiting"
      PROVE  /\ state[j] = "waiting" /\ ~IsRetryDue(j) /\ now <= retryAt[j]
             /\ failedAt'[j] = failedAt[j] /\ asked'[j] = asked[j] /\ attempt'[j] = attempt[j]
  <2>1. now \in Nat /\ retryAt[j] \in Nat
    BY DEF ScheduleInvariant, TypeOK
  <2>2. state[j] = "waiting" /\ ~IsRetryDue(j)
    BY <1>2 DEF StartDueRetries
  <2>3. now <= retryAt[j]
    BY <2>1, <2>2 DEF IsRetryDue
  <2> QED
    BY <2>2, <2>3 DEF StartDueRetries
<1> QED
  BY <1>1, <1>2, KeptSchedule DEF StartDueRetries

LEMMA NextSchedule == ScheduleInvariant /\ [Next]_vars => ScheduleInvariant'
<1> SUFFICES ASSUME ScheduleInvariant, [Next]_vars PROVE ScheduleInvariant'
  OBVIOUS
<1>1. ASSUME UNCHANGED vars PROVE ScheduleInvariant'
  BY <1>1 DEF vars, ScheduleInvariant, TypeOK, Scheduled
<1> QED
  BY <1>1, ScheduleRetrySchedule, FinishSchedule, PollSchedule, PollReturnsSchedule,
     StartDueRetriesSchedule DEF Next

\* A waiting retry is where its failure put it, and the thread has not missed it
\* (RestJob::ScheduleRetry, TransferThread::ComputeWaitMs).
THEOREM ScheduleInvariantHolds == Spec => []ScheduleInvariant
BY InitSchedule, NextSchedule, PTL DEF Spec

----------------------------------------------------------------------------
(* When a retry begins *)

LEMMA RetryBegins ==
  ASSUME ScheduleInvariant, [Next]_vars, NEW j \in Jobs, Begins(j)
  PROVE  at = "start" /\ now >= retryAt[j] /\ state[j] = "waiting" /\ Scheduled(j)
<1>1. StartDueRetries
  <2>1. ~UNCHANGED vars
    BY DEF Begins, vars
  <2>2. ASSUME NEW i \in Jobs, NEW header \in RetryAfters, ScheduleRetry(i, header) PROVE FALSE
    BY <2>2 DEF ScheduleRetry, Begins, ScheduleInvariant, TypeOK
  <2>3. ASSUME NEW i \in Jobs, Finish(i) PROVE FALSE
    BY <2>3 DEF Finish, Begins, ScheduleInvariant, TypeOK
  <2>4. ~Poll /\ ~PollReturns
    BY DEF Poll, PollReturns, Begins
  <2> QED
    BY <2>1, <2>2, <2>3, <2>4 DEF Next
<1> QED
  BY <1>1 DEF StartDueRetries, IsRetryDue, Begins, ScheduleInvariant

LEMMA AskedType ==
  ASSUME ScheduleInvariant, NEW j \in Jobs, asked[j] >= 0
  PROVE  asked[j] \in RetryAfters /\ asked[j] \in Nat
<1>1. asked[j] \in RetryAfters \cup {-1}
  BY DEF ScheduleInvariant, TypeOK
<1>2. asked[j] # -1
  <2>1. ~(-1 >= 0)
    OBVIOUS
  <2> QED
    BY <2>1
<1>3. asked[j] \in RetryAfters
  BY <1>1, <1>2
<1>4. asked[j] \in Int
  BY <1>3, Constants
<1> QED
  BY <1>3, <1>4

\* A retry begins as soon as it is due, one tick late at most
\* (TransferThread::ComputeWaitMs, TransferThread::StartDueRetries).
THEOREM RetriesBeginInTime == Spec => BeginsInTime
<1>1. ScheduleInvariant /\ [Next]_vars => [\A j \in Jobs : Begins(j) => now <= retryAt[j] + 1]_vars
  BY RetryBegins DEF Scheduled
<1> QED
  BY <1>1, ScheduleInvariantHolds, PTL DEF Spec, BeginsInTime

\* No retry begins before the Retry-After of the response is over, or a minute,
\* as long as its milliseconds fit in a long (ParseRetryAfterMs multiplies
\* without a check).
THEOREM RetryAfterHonoured ==
  ASSUME \A header \in RetryAfters : header * Second <= LongMax
  PROVE  Spec => NotBeforeAsked
<1>1. ASSUME ScheduleInvariant, [Next]_vars, NEW j \in Jobs, Begins(j), asked[j] >= 0
      PROVE  now >= failedAt[j] + TicksPerMs * Least(RetryAfterCapMs, asked[j] * Second)
  <2>1. now >= retryAt[j] /\ Scheduled(j)
    BY <1>1, RetryBegins
  <2>2. PICK delay \in Delays(asked[j], attempt[j]) :
          retryAt[j] = failedAt[j] + delay * TicksPerMs
    BY <2>1 DEF Scheduled
  <2>3. asked[j] \in Nat /\ asked[j] * Second <= LongMax
    <3>1. asked[j] \in RetryAfters /\ asked[j] \in Nat
      BY <1>1, AskedType
    <3> QED
      BY <3>1
  <2>4. delay = Least(RetryAfterCapMs, asked[j] * Second)
    BY <2>2, <2>3, AskedDelay
  <2>5. delay \in Nat
    <3>1. asked[j] * Second \in Nat
      BY <2>3, Constants
    <3> QED
      BY <2>4, <3>1, Constants DEF Least
  <2>6. delay * TicksPerMs = TicksPerMs * delay
    BY <2>5, Constants
  <2> QED
    BY <2>1, <2>2, <2>4, <2>6
<1>2. ScheduleInvariant /\ [Next]_vars
        => [\A j \in Jobs : Begins(j) /\ asked[j] >= 0 =>
              now >= failedAt[j] + TicksPerMs * Least(RetryAfterCapMs, asked[j] * Second)]_vars
  BY <1>1
<1> QED
  BY <1>2, ScheduleInvariantHolds, PTL DEF Spec, NotBeforeAsked

\* Without a Retry-After every retry waits twice as long as the one before, up to
\* the cap, a quarter more or less (RestJob::ScheduleRetry).
THEOREM RetriesBackOff == Spec => BacksOff
<1>1. ASSUME ScheduleInvariant, [Next]_vars, NEW j \in Jobs, Begins(j), asked[j] < 0
      PROVE  /\ 4 * (now - failedAt[j]) >= 3 * Backoff(attempt[j]) * TicksPerMs
             /\ 4 * (now - failedAt[j]) <= 5 * Backoff(attempt[j]) * TicksPerMs + 4
  <2>1. now >= retryAt[j] /\ now <= retryAt[j] + 1 /\ Scheduled(j)
    BY <1>1, RetryBegins DEF Scheduled
  <2>2. PICK delay \in Delays(asked[j], attempt[j]) :
          retryAt[j] = failedAt[j] + delay * TicksPerMs
    BY <2>1 DEF Scheduled
  <2> DEFINE b == Backoff(attempt[j])
             t == delay * TicksPerMs
  <2>3. /\ now \in Nat /\ retryAt[j] \in Nat /\ failedAt[j] \in Nat
        /\ asked[j] \in Int /\ attempt[j] \in Nat \ {0}
    <3>1. TypeOK
      BY <1>1 DEF ScheduleInvariant
    <3>2. RetryAfters \cup {-1} \subseteq Int
      BY Constants
    <3> HIDE DEF b, t
    <3> QED
      BY <3>1, <3>2 DEF TypeOK
  <2>4. delay \in Nat /\ b \in Nat /\ 4 * delay >= 3 * b /\ 4 * delay <= 5 * b
    BY <1>1, <2>2, <2>3, BackoffDelay
  <2> HIDE DEF b
  <2>5. /\ t \in Nat /\ (3 * b) * TicksPerMs \in Nat /\ (5 * b) * TicksPerMs \in Nat
        /\ 4 * t >= (3 * b) * TicksPerMs /\ 4 * t <= (5 * b) * TicksPerMs
    <3>1. \A x \in Nat, y \in Nat : x <= y => x * TicksPerMs <= y * TicksPerMs
      BY Constants
    <3>2. 4 * t = (4 * delay) * TicksPerMs /\ t \in Nat
      BY <2>4, Constants
    <3>3. /\ 4 * delay \in Nat /\ 3 * b \in Nat /\ 5 * b \in Nat
          /\ 3 * b <= 4 * delay /\ 4 * delay <= 5 * b
      BY <2>4
    <3>4. (3 * b) * TicksPerMs <= (4 * delay) * TicksPerMs
          /\ (4 * delay) * TicksPerMs <= (5 * b) * TicksPerMs
      <4> DEFINE u == 3 * b
                 v == 4 * delay
                 w == 5 * b
      <4>1. u \in Nat /\ v \in Nat /\ w \in Nat /\ u <= v /\ v <= w
        BY <3>3
      <4> HIDE DEF u, v, w
      <4>2. u * TicksPerMs <= v * TicksPerMs /\ v * TicksPerMs <= w * TicksPerMs
        BY <3>1, <4>1
      <4> QED
        BY <4>2 DEF u, v, w
    <3>5. (3 * b) * TicksPerMs \in Nat /\ (5 * b) * TicksPerMs \in Nat
      BY <3>3, Constants
    <3> QED
      BY <3>2, <3>4, <3>5
  <2> HIDE DEF t
  <2>6. retryAt[j] = failedAt[j] + t
    BY <2>2 DEF t
  <2> DEFINE lower == (3 * b) * TicksPerMs
             upper == (5 * b) * TicksPerMs
  <2>7. lower \in Nat /\ upper \in Nat /\ 4 * t >= lower /\ 4 * t <= upper /\ t \in Nat
    BY <2>5
  <2> HIDE DEF lower, upper
  <2>8. 4 * (now - failedAt[j]) >= lower /\ 4 * (now - failedAt[j]) <= upper + 4
    BY <2>1, <2>3, <2>6, <2>7
  <2> QED
    BY <2>8 DEF lower, upper, b
<1>2. ScheduleInvariant /\ [Next]_vars
        => [\A j \in Jobs : Begins(j) /\ asked[j] < 0 =>
              LET base == Least(BackoffCapMs, BackoffBaseMs * 2^(attempt[j] - 1))
              IN  /\ 4 * (now - failedAt[j]) >= 3 * base * TicksPerMs
                  /\ 4 * (now - failedAt[j]) <= 5 * base * TicksPerMs + 4]_vars
  BY <1>1 DEF Backoff
<1> QED
  BY <1>2, ScheduleInvariantHolds, PTL DEF Spec, BacksOff
=============================================================================
