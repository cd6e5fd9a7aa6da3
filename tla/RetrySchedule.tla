---------------------------- MODULE RetrySchedule ----------------------------
(***************************************************************************)
(* When a failed attempt is tried again: ParseRetryAfterMs and ScheduleRetry *)
(* (src/job.cpp) choose the delay, and the transfer thread's loop has to be   *)
(* awake when it is over although it sleeps in curl_multi_poll                *)
(* (ComputeWaitMs and StartDueRetries in src/transfer_thread.cpp).            *)
(* Time is counted in ticks, so that a millisecond can be cut off; a poll may  *)
(* return at any time, because something happened, and one tick late.         *)
(***************************************************************************)
EXTENDS Integers, FiniteSets

CONSTANTS
  Jobs,          \* the active jobs
  MaxRetries,    \* config.maxRetries
  RetryAfters,   \* values of Retry-After, in seconds; negative: none, or no number (bound)
  Second,        \* milliseconds in a second
  BackoffBaseMs, BackoffCapMs, RetryAfterCapMs, MaxWaitMs, \* the constants of the code
  LongMax,       \* LONG_MAX
  TicksPerMs,    \* ticks of steady_clock in a millisecond
  MaxTime        \* ticks (bound)

ASSUME RetryScheduleAssumption ==
  /\ MaxRetries \in Nat
  /\ RetryAfters \subseteq Int
  /\ {Second, BackoffBaseMs, BackoffCapMs, RetryAfterCapMs, MaxWaitMs, LongMax, TicksPerMs}
       \subseteq Nat \ {0}
  /\ RetryAfterCapMs <= LongMax
  /\ MaxTime \in Nat

VARIABLES
  now,      \* steady_clock::now()
  wakeAt,   \* when curl_multi_poll returns at the latest; 0 if it is not called
  at,       \* where the loop of Run is
  attempt,  \* m_attempt of each job
  state,    \* "running", "waiting" (m_waitingForRetry) or "done"
  retryAt,  \* m_retryAt
  failedAt, \* history: when the attempt failed that a waiting job made last
  asked     \* history: the Retry-After of that failure

vars == <<now, wakeAt, at, attempt, state, retryAt, failedAt, asked>>

Init ==
  /\ now = 0 /\ wakeAt = 0 /\ at = "perform"
  /\ attempt = [j \in Jobs |-> 1]
  /\ state = [j \in Jobs |-> "running"]
  /\ retryAt = [j \in Jobs |-> 0]
  /\ failedAt = [j \in Jobs |-> 0]
  /\ asked = [j \in Jobs |-> -1]

Least(a, b) == IF a < b THEN a ELSE b

----------------------------------------------------------------------------
(* The delay *)

\* Arithmetic on long wraps: signed overflow is undefined, and this is what the
\* multiplication of the build does.
Wrapped(x) == ((x + LongMax + 1) % (2 * (LongMax + 1))) - (LongMax + 1)

\* strtol stops at LONG_MAX.
ParseRetryAfterMs(header) ==
  IF header < 0 THEN -1
  ELSE Least(RetryAfterCapMs, Wrapped(Least(header, LongMax) * Second))

\* Seeded fault: the first retry waits twice as long, the later ones without end.
BackoffUncapped(n) == BackoffBaseMs * 2^n

\* 1000 << (attempt - 1), at most 30000.  The exponent stops at 10, where the
\* cap has long been reached.
Backoff(n) == Least(BackoffCapMs, BackoffBaseMs * 2^(n - 1))

\* The delays ScheduleRetry can choose; a negative Retry-After is none.
Delays(header, n) ==
  LET quarter == Backoff(n) \div 4
  IN  IF ParseRetryAfterMs(header) >= 0 THEN {ParseRetryAfterMs(header)}
      ELSE {Backoff(n) + jitter : jitter \in -quarter..quarter}

----------------------------------------------------------------------------
(* The loop of the transfer thread *)

\* ReapCompleted: an attempt failed in a way that is retried.
ScheduleRetry(j, header) ==
  /\ at = "perform" /\ state[j] = "running"
  /\ attempt[j] <= MaxRetries
  /\ \E delay \in Delays(header, attempt[j]) :
       retryAt' = [retryAt EXCEPT ![j] = now + delay * TicksPerMs]
  /\ state' = [state EXCEPT ![j] = "waiting"]
  /\ failedAt' = [failedAt EXCEPT ![j] = now]
  /\ asked' = [asked EXCEPT ![j] = header]
  /\ UNCHANGED <<now, wakeAt, at, attempt>>

\* ReapCompleted: it ended otherwise, or there is no retry left.
Finish(j) ==
  /\ at = "perform" /\ state[j] = "running"
  /\ state' = [state EXCEPT ![j] = "done"]
  /\ UNCHANGED <<now, wakeAt, at, attempt, retryAt, failedAt, asked>>

\* Seeded fault: retries are not looked at.
ComputeWaitMsOfTraffic == MaxWaitMs

\* What remains until the next retry, in whole milliseconds, at most a second.
ComputeWaitMs ==
  LET remaining(j) == IF retryAt[j] <= now THEN 0 ELSE (retryAt[j] - now) \div TicksPerMs
      waits == {MaxWaitMs} \cup {remaining(j) : j \in {k \in Jobs : state[k] = "waiting"}}
  IN  CHOOSE w \in waits : \A v \in waits : w <= v

Poll ==
  /\ at = "perform"
  /\ at' = "poll"
  /\ wakeAt' = now + ComputeWaitMs * TicksPerMs
  /\ UNCHANGED <<now, attempt, state, retryAt, failedAt, asked>>

PollReturns ==
  /\ at = "poll"
  /\ at' = "start"
  /\ now' \in now..Least(wakeAt + 1, MaxTime)
  /\ wakeAt' = 0
  /\ UNCHANGED <<attempt, state, retryAt, failedAt, asked>>

\* Seeded fault: every waiting job is taken up.
IsWaiting(j) == state[j] = "waiting"

IsRetryDue(j) == state[j] = "waiting" /\ now >= retryAt[j]

StartDueRetries ==
  /\ at = "start"
  /\ at' = "perform"
  /\ attempt' = [j \in Jobs |-> IF IsRetryDue(j) THEN attempt[j] + 1 ELSE attempt[j]]
  /\ state' = [j \in Jobs |-> IF IsRetryDue(j) THEN "running" ELSE state[j]]
  /\ failedAt' = [j \in Jobs |-> IF IsRetryDue(j) THEN 0 ELSE failedAt[j]]
  /\ asked' = [j \in Jobs |-> IF IsRetryDue(j) THEN -1 ELSE asked[j]]
  /\ UNCHANGED <<now, wakeAt, retryAt>>

Next ==
  \/ \E j \in Jobs :
       \/ \E header \in RetryAfters : ScheduleRetry(j, header)
       \/ Finish(j)
  \/ Poll \/ PollReturns \/ StartDueRetries

Spec == Init /\ [][Next]_vars

----------------------------------------------------------------------------
(* Properties *)

TypeOK ==
  /\ now \in Nat /\ wakeAt \in Nat
  /\ at \in {"start", "perform", "poll"}
  /\ attempt \in [Jobs -> Nat \ {0}]
  /\ state \in [Jobs -> {"running", "waiting", "done"}]
  /\ retryAt \in [Jobs -> Nat] /\ failedAt \in [Jobs -> Nat]
  /\ asked \in [Jobs -> RetryAfters \cup {-1}]

\* A retry is due one of the delays after the failure, and the thread has not
\* missed it: while it works it is not late, and its sleep ends by then.
Scheduled(j) ==
  /\ \E delay \in Delays(asked[j], attempt[j]) : retryAt[j] = failedAt[j] + delay * TicksPerMs
  /\ at = "perform" => now <= retryAt[j]
  /\ at = "poll" => wakeAt <= retryAt[j]
  /\ at = "start" => now <= retryAt[j] + 1

\* The inductive invariant behind the properties below.
ScheduleInvariant ==
  TypeOK /\ \A j \in Jobs : state[j] = "waiting" => Scheduled(j)

Begins(j) == state[j] = "waiting" /\ state'[j] = "running"

\* rest.inc on MaxRetries: "Retry-After is honoured." No attempt begins earlier
\* than the server asked for, but for the cap of a minute.
NotBeforeAsked ==
  [][\A j \in Jobs : Begins(j) /\ asked[j] >= 0 =>
       now >= failedAt[j] + TicksPerMs * Least(RetryAfterCapMs, asked[j] * Second)]_vars

\* Without a Retry-After the n-th retry begins when 2^(n-1) seconds are over, or
\* the cap of half a minute, give or take a quarter.
BacksOff ==
  [][\A j \in Jobs : Begins(j) /\ asked[j] < 0 =>
       LET base == Least(BackoffCapMs, BackoffBaseMs * 2^(attempt[j] - 1))
       IN  /\ 4 * (now - failedAt[j]) >= 3 * base * TicksPerMs
           /\ 4 * (now - failedAt[j]) <= 5 * base * TicksPerMs + 4]_vars

\* Whatever else the thread waits for, it takes up a retry as soon as it is due:
\* it never sleeps longer than the next retry, and does not round up.
BeginsInTime ==
  [][\A j \in Jobs : Begins(j) => now <= retryAt[j] + 1]_vars
=============================================================================
