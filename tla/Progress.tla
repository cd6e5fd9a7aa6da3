------------------------------ MODULE Progress ------------------------------
(***************************************************************************)
(* What a plugin hears of a transfer: libcurl calls ProgressCallback again  *)
(* and again on the transfer thread, and PostProgress decides which calls    *)
(* become Progress events (src/job.cpp).  libcurl is external: its counters   *)
(* never fall in an attempt, a total is 0 as long as it is unknown, and the   *)
(* callback is called at any time and once more when the transfer ends.       *)
(***************************************************************************)
EXTENDS Integers, FiniteSets

CONSTANTS
  ProgressInterval, \* config.progressInterval, in ticks of the clock
  Uptime,           \* the steady clock's time at the start
  UploadSizes,      \* lengths of the body that is sent (bound)
  DownloadSize,     \* length of the body that is received (bound)
  Lengths,          \* is the Content-Length of that known: a set of Booleans
  MaxTime,          \* ticks (bound)
  MaxAttempts       \* attempts (bound)

ASSUME ProgressAssumption ==
  /\ ProgressInterval \in Nat \ {0}
  /\ Uptime \in Nat /\ Uptime >= ProgressInterval
  /\ UploadSizes \subseteq Nat /\ DownloadSize \in Nat \ {0}
  /\ Lengths \subseteq BOOLEAN
  /\ MaxTime \in Nat /\ MaxAttempts \in Nat \ {0}

VARIABLES
  now,              \* steady_clock::now()
  lastProgressPost, \* m_lastProgressPost
  ulnow, ultotal, dlnow, dltotal, \* the callback's arguments
  known,            \* does the response have a Content-Length
  attempt,          \* m_attempt
  over,             \* has the last callback of the attempt returned
  began,            \* history: when the attempt began
  posts             \* history: the events of this attempt, as [at, uploaded, downloaded]

vars == <<now, lastProgressPost, ulnow, ultotal, dlnow, dltotal, known, attempt, over,
          began, posts>>

transfer == <<ulnow, ultotal, dlnow, dltotal, known, attempt, over, began>>

UploadComplete == ultotal > 0 /\ ulnow >= ultotal

DownloadComplete == dltotal > 0 /\ dlnow >= dltotal

Init ==
  /\ now = Uptime /\ began = Uptime
  /\ lastProgressPost = 0
  /\ ulnow = 0 /\ ultotal \in UploadSizes
  /\ dlnow = 0 /\ dltotal = 0
  /\ known \in Lengths
  /\ attempt = 1 /\ over = FALSE
  /\ posts = {}

Tick ==
  /\ now < Uptime + MaxTime
  /\ now' = now + 1
  /\ UNCHANGED <<lastProgressPost, transfer, posts>>

Send ==
  /\ ~over /\ ulnow < ultotal
  /\ ulnow' = ulnow + 1
  /\ UNCHANGED <<now, lastProgressPost, ultotal, dlnow, dltotal, known, attempt, over, began,
                 posts>>

\* Body bytes follow the headers, which have the length if it is known.
Receive ==
  /\ ~over /\ ulnow = ultotal /\ dlnow < DownloadSize
  /\ dlnow' = dlnow + 1
  /\ dltotal' = IF known THEN DownloadSize ELSE 0
  /\ UNCHANGED <<now, lastProgressPost, ulnow, ultotal, known, attempt, over, began, posts>>

\* Seeded fault: a completed download waits for the interval like everything else.
DueIgnoringDownload ==
  /\ dlnow > 0 \/ ulnow > 0
  /\ UploadComplete \/ now - lastProgressPost >= ProgressInterval

\* Seeded fault: the time of the last event is not looked at.
DueAlways == dlnow > 0 \/ ulnow > 0

\* PostProgress does not return early.
Due ==
  /\ dlnow > 0 \/ ulnow > 0
  /\ DownloadComplete \/ UploadComplete \/ now - lastProgressPost >= ProgressInterval

PostProgress ==
  IF Due
  THEN /\ lastProgressPost' = now
       /\ posts' = posts \cup {[at |-> now, uploaded |-> ulnow, downloaded |-> dlnow]}
  ELSE UNCHANGED <<lastProgressPost, posts>>

ProgressCallback ==
  /\ ~over
  /\ PostProgress
  /\ UNCHANGED <<now, transfer>>

\* libcurl's last callback, when the transfer is done or has failed.
LastCallback ==
  /\ ~over
  /\ PostProgress
  /\ over' = TRUE
  /\ UNCHANGED <<now, ulnow, ultotal, dlnow, dltotal, known, attempt, began>>

\* ScheduleRetry and BeginAttempt: ResetAttemptState, and libcurl starts again.
\* A Retry-After of 0 lets no time pass.
BeginAttempt ==
  /\ over /\ attempt < MaxAttempts
  /\ attempt' = attempt + 1 /\ over' = FALSE
  /\ lastProgressPost' = 0
  /\ began' = now /\ posts' = {}
  /\ ulnow' = 0 /\ dlnow' = 0 /\ dltotal' = 0
  /\ known' \in Lengths
  /\ UNCHANGED <<now, ultotal>>

Next ==
  \/ Tick \/ Send \/ Receive
  \/ ProgressCallback \/ LastCallback
  \/ BeginAttempt

Spec == Init /\ [][Next]_vars

----------------------------------------------------------------------------
(* Properties *)

\* The event reports all of a direction that has a length.
Complete(p) ==
  \/ ultotal > 0 /\ p.uploaded = ultotal
  \/ known /\ p.downloaded = DownloadSize

\* An attempt posts one event when it starts and then at most one for every
\* interval that has passed, however often libcurl calls; only what reports that a
\* direction is complete does not wait.
PostsBounded ==
  \A p, q \in posts :
    p # q /\ p.at <= q.at /\ ~Complete(p) /\ ~Complete(q) => q.at - p.at >= ProgressInterval

\* The last thing that a plugin hears of an attempt in which a direction with a
\* length was completed is all that was sent and received, even when the interval
\* has not passed.
LastHeard ==
  over /\ (UploadComplete \/ DownloadComplete) => \E p \in posts :
    /\ p.downloaded = dlnow /\ p.uploaded = ulnow
    /\ \A q \in posts : q.at <= p.at

TypeOK ==
  /\ now \in Nat /\ lastProgressPost \in Nat
  /\ ulnow \in Nat /\ ultotal \in Nat /\ dlnow \in Nat
  /\ known \in BOOLEAN /\ over \in BOOLEAN
  /\ posts \subseteq [at : Nat, uploaded : Nat, downloaded : Nat]

\* The inductive invariant behind the two: the last post is the latest one, and a
\* total that libcurl reports is the length of the direction.
ProgressInvariant ==
  /\ TypeOK /\ PostsBounded /\ LastHeard
  /\ lastProgressPost <= now
  /\ \A p \in posts : p.at <= lastProgressPost
  /\ ulnow <= ultotal /\ dlnow <= DownloadSize
  /\ dltotal = IF known /\ dlnow > 0 THEN DownloadSize ELSE 0

\* p was posted before q: libcurl's counters and the clock never fall.
Precedes(p, q) ==
  p # q /\ p.at <= q.at /\ p.uploaded <= q.uploaded /\ p.downloaded <= q.downloaded

\* README: "posted to the main thread at most once per ProgressInterval
\* milliseconds (default 100), plus once when either direction completes".
OncePerInterval ==
  Cardinality({q \in posts : \E p \in posts :
                 Precedes(p, q) /\ q.at - p.at < ProgressInterval})
    <= Cardinality({d \in {"upload", "download"} :
                      IF d = "upload" THEN UploadComplete ELSE DownloadComplete})

\* rest.inc: "Completion of either direction is always reported."
CompletionReported ==
  over /\ dlnow = DownloadSize => \E p \in posts : p.downloaded = DownloadSize
=============================================================================
