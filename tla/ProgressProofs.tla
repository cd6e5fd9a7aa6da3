--------------------------- MODULE ProgressProofs ---------------------------
(****************************************************************************)
(* What a plugin hears of the progress of a transfer, for any interval, any *)
(* sizes and any number of callbacks and attempts.                          *)
(****************************************************************************)
EXTENDS Progress, TLAPS

LEMMA Constants ==
  /\ ProgressInterval \in Nat \ {0} /\ Uptime \in Nat /\ DownloadSize \in Nat \ {0}
  /\ UploadSizes \subseteq Nat /\ Lengths \subseteq BOOLEAN
BY ProgressAssumption

LEMMA InitProgress == Init => ProgressInvariant
<1> SUFFICES ASSUME Init PROVE ProgressInvariant
  OBVIOUS
<1>1. lastProgressPost = 0 /\ posts = {} /\ now = Uptime /\ ulnow = 0 /\ dlnow = 0 /\ dltotal = 0
  BY DEF Init
<1>2. now \in Nat /\ ultotal \in Nat /\ known \in BOOLEAN /\ over \in BOOLEAN
  BY Constants DEF Init
<1>3. TypeOK
  BY <1>1, <1>2 DEF TypeOK
<1>4. lastProgressPost <= now /\ ulnow <= ultotal /\ dlnow <= DownloadSize
  BY <1>1, <1>2, Constants
<1>5. PostsBounded
  BY <1>1 DEF PostsBounded
<1>6. LastHeard
  BY DEF Init, LastHeard
<1> QED
  BY <1>1, <1>3, <1>4, <1>5, <1>6 DEF ProgressInvariant

\* No event is posted, and the attempt goes on as far as its events tell.
LEMMA QuietStep ==
  ASSUME ProgressInvariant, TypeOK', lastProgressPost' <= now', ulnow' <= ultotal',
         dlnow' <= DownloadSize,
         dltotal' = IF known' /\ dlnow' > 0 THEN DownloadSize ELSE 0,
         UNCHANGED <<lastProgressPost, posts, ultotal, known>>, LastHeard'
  PROVE  ProgressInvariant'
<1>1. PostsBounded'
  BY DEF ProgressInvariant, PostsBounded, Complete
<1> QED
  BY <1>1 DEF ProgressInvariant

LEMMA TickProgress ==
  ASSUME ProgressInvariant, Tick
  PROVE  ProgressInvariant'
<1>1. /\ now' = now + 1 /\ now \in Nat /\ lastProgressPost \in Nat
      /\ lastProgressPost' <= now' /\ UNCHANGED <<lastProgressPost, transfer, posts>>
  BY DEF Tick, ProgressInvariant, TypeOK
<1>2. TypeOK'
  BY <1>1 DEF transfer, ProgressInvariant, TypeOK
<1>3. LastHeard'
  BY <1>1 DEF transfer, ProgressInvariant, LastHeard, UploadComplete, DownloadComplete
<1> QED
  BY <1>1, <1>2, <1>3, QuietStep DEF transfer, ProgressInvariant

LEMMA SendProgress ==
  ASSUME ProgressInvariant, Send
  PROVE  ProgressInvariant'
<1>1. /\ ulnow' = ulnow + 1 /\ ulnow \in Nat /\ ultotal \in Nat /\ ulnow' <= ultotal'
      /\ UNCHANGED <<now, lastProgressPost, ultotal, dlnow, dltotal, known, over, posts>>
  BY DEF Send, ProgressInvariant, TypeOK
<1>2. TypeOK'
  BY <1>1 DEF ProgressInvariant, TypeOK
<1>3. LastHeard'
  BY <1>1 DEF Send, LastHeard
<1> QED
  BY <1>1, <1>2, <1>3, QuietStep DEF ProgressInvariant

LEMMA ReceiveProgress ==
  ASSUME ProgressInvariant, Receive
  PROVE  ProgressInvariant'
<1>1. /\ dlnow' = dlnow + 1 /\ dlnow \in Nat /\ dlnow' <= DownloadSize /\ dlnow' > 0
      /\ dltotal' = IF known THEN DownloadSize ELSE 0
      /\ UNCHANGED <<now, lastProgressPost, ulnow, ultotal, known, over, posts>>
  BY Constants DEF Receive, ProgressInvariant, TypeOK
<1>2. TypeOK'
  BY <1>1 DEF ProgressInvariant, TypeOK
<1>3. LastHeard'
  BY <1>1 DEF Receive, LastHeard
<1> QED
  BY <1>1, <1>2, <1>3, QuietStep DEF ProgressInvariant

\* An event that does not report a completion comes an interval after the last.
LEMMA NewPostWaits ==
  ASSUME ProgressInvariant, Due,
         NEW q, q = [at |-> now, uploaded |-> ulnow, downloaded |-> dlnow], ~Complete(q)
  PROVE  \A p \in posts : p.at \in Nat /\ now - p.at >= ProgressInterval
<1>1. /\ now \in Nat /\ lastProgressPost \in Nat /\ ulnow \in Nat /\ ultotal \in Nat
      /\ dlnow \in Nat /\ ulnow <= ultotal /\ dlnow <= DownloadSize
      /\ dltotal = IF known /\ dlnow > 0 THEN DownloadSize ELSE 0
      /\ \A p \in posts : p.at \in Nat /\ p.at <= lastProgressPost
  BY DEF ProgressInvariant, TypeOK
<1>2. ~UploadComplete
  BY <1>1 DEF UploadComplete, Complete
<1>3. ~DownloadComplete
  <2>1. CASE known /\ dlnow > 0
    BY <1>1, <2>1, Constants DEF DownloadComplete, Complete
  <2>2. CASE ~(known /\ dlnow > 0)
    BY <1>1, <2>2 DEF DownloadComplete
  <2> QED
    BY <2>1, <2>2
<1>4. now - lastProgressPost >= ProgressInterval
  BY <1>2, <1>3 DEF Due
<1> QED
  BY <1>1, <1>4, Constants

LEMMA PostProgressEffect ==
  ASSUME ProgressInvariant, PostProgress,
         UNCHANGED <<now, ulnow, ultotal, dlnow, dltotal, known>>
  PROVE  /\ lastProgressPost' \in Nat /\ lastProgressPost' <= now'
         /\ posts' \subseteq [at : Nat, uploaded : Nat, downloaded : Nat]
         /\ \A p \in posts' : p.at <= lastProgressPost'
         /\ PostsBounded'
         /\ Due => [at |-> now, uploaded |-> ulnow, downloaded |-> dlnow] \in posts'
<1> DEFINE new == [at |-> now, uploaded |-> ulnow, downloaded |-> dlnow]
<1>1. /\ now \in Nat /\ lastProgressPost \in Nat /\ lastProgressPost <= now
      /\ ulnow \in Nat /\ dlnow \in Nat
      /\ posts \subseteq [at : Nat, uploaded : Nat, downloaded : Nat]
      /\ \A p \in posts : p.at \in Nat /\ p.at <= lastProgressPost
  BY DEF ProgressInvariant, TypeOK
<1>2. \A p : Complete(p)' <=> Complete(p)
  BY DEF Complete
<1>3. CASE Due
  <2>1. lastProgressPost' = now /\ posts' = posts \cup {new}
    BY <1>3 DEF PostProgress
  <2>2. new.at = now /\ new \in [at : Nat, uploaded : Nat, downloaded : Nat]
    BY <1>1
  <2>3. ~Complete(new) => \A p \in posts : now - p.at >= ProgressInterval
    BY <1>3, NewPostWaits
  <2> HIDE DEF new
  <2>4. ASSUME NEW p \in posts', NEW q \in posts', p # q, p.at <= q.at, ~Complete(p), ~Complete(q)
        PROVE  q.at - p.at >= ProgressInterval
    <3>1. CASE p \in posts /\ q \in posts
      BY <2>4, <3>1 DEF ProgressInvariant, PostsBounded
    <3>2. CASE p \in posts /\ q = new
      BY <2>2, <2>3, <2>4, <3>2
    <3>3. CASE p = new /\ q \in posts
      <4>1. now - q.at >= ProgressInterval /\ now <= q.at /\ q.at \in Nat
        BY <1>1, <2>2, <2>3, <2>4, <3>3
      <4> QED
        BY <1>1, <4>1, Constants
    <3> QED
      BY <2>1, <2>4, <3>1, <3>2, <3>3
  <2>5. PostsBounded'
    BY <1>2, <2>4 DEF PostsBounded
  <2>6. /\ posts' \subseteq [at : Nat, uploaded : Nat, downloaded : Nat]
        /\ \A p \in posts' : p.at <= now
    BY <1>1, <2>1, <2>2
  <2> QED
    BY <1>1, <2>1, <2>5, <2>6 DEF new
<1>4. CASE ~Due
  <2>1. UNCHANGED <<lastProgressPost, posts>>
    BY <1>4 DEF PostProgress
  <2>2. PostsBounded'
    BY <1>2, <2>1 DEF ProgressInvariant, PostsBounded
  <2> QED
    BY <1>1, <1>4, <2>1, <2>2
<1> QED
  BY <1>3, <1>4

LEMMA CallbackProgress ==
  ASSUME ProgressInvariant, ProgressCallback \/ LastCallback
  PROVE  ProgressInvariant'
<1>1. /\ PostProgress /\ over' \in BOOLEAN /\ (over' => LastCallback)
      /\ UNCHANGED <<now, ulnow, ultotal, dlnow, dltotal, known>>
  BY DEF ProgressCallback, LastCallback, transfer, ProgressInvariant, TypeOK
<1>2. /\ lastProgressPost' \in Nat /\ lastProgressPost' <= now'
      /\ posts' \subseteq [at : Nat, uploaded : Nat, downloaded : Nat]
      /\ \A p \in posts' : p.at <= lastProgressPost'
      /\ PostsBounded'
      /\ Due => [at |-> now, uploaded |-> ulnow, downloaded |-> dlnow] \in posts'
  BY <1>1, PostProgressEffect
<1>3. TypeOK'
  BY <1>1, <1>2 DEF ProgressInvariant, TypeOK
<1>4. LastHeard'
  <2> SUFFICES ASSUME (UploadComplete \/ DownloadComplete)'
               PROVE  \E p \in posts' : /\ p.downloaded = dlnow' /\ p.uploaded = ulnow'
                                        /\ \A q \in posts' : q.at <= p.at
    BY DEF LastHeard
  <2>1. /\ UploadComplete \/ DownloadComplete
        /\ ulnow \in Nat /\ ultotal \in Nat /\ dlnow \in Nat /\ now \in Nat
        /\ lastProgressPost \in Nat
        /\ dltotal = IF known /\ dlnow > 0 THEN DownloadSize ELSE 0
    BY <1>1 DEF UploadComplete, DownloadComplete, ProgressInvariant, TypeOK
  <2>2. dlnow > 0 \/ ulnow > 0
    BY <2>1, Constants DEF UploadComplete, DownloadComplete
  <2>3. Due
    BY <2>1, <2>2 DEF Due
  <2> DEFINE new == [at |-> now, uploaded |-> ulnow, downloaded |-> dlnow]
  <2>4. new \in posts' /\ new.downloaded = dlnow' /\ new.uploaded = ulnow' /\ new.at = now
    BY <1>1, <1>2, <2>3
  <2>5. \A q \in posts' : q.at <= now
    <3>1. \A q \in posts' : q.at \in Nat
      BY <1>2
    <3> QED
      BY <1>1, <1>2, <2>1, <3>1
  <2> HIDE DEF new
  <2> QED
    BY <2>4, <2>5
<1> QED
  BY <1>1, <1>2, <1>3, <1>4 DEF ProgressInvariant

LEMMA BeginAttemptProgress ==
  ASSUME ProgressInvariant, BeginAttempt
  PROVE  ProgressInvariant'
<1>1. /\ over' = FALSE /\ lastProgressPost' = 0 /\ posts' = {} /\ now' = now /\ now \in Nat
      /\ ulnow' = 0 /\ dlnow' = 0 /\ dltotal' = 0 /\ known' \in BOOLEAN
      /\ ultotal' = ultotal /\ ultotal \in Nat
  BY Constants DEF BeginAttempt, ProgressInvariant, TypeOK
<1>2. TypeOK'
  BY <1>1 DEF TypeOK
<1>3. PostsBounded' /\ LastHeard'
  BY <1>1 DEF PostsBounded, LastHeard
<1> QED
  BY <1>1, <1>2, <1>3, Constants DEF ProgressInvariant

LEMMA NextProgress == ProgressInvariant /\ [Next]_vars => ProgressInvariant'
<1> SUFFICES ASSUME ProgressInvariant, [Next]_vars PROVE ProgressInvariant'
  OBVIOUS
<1>1. ASSUME UNCHANGED vars PROVE ProgressInvariant'
  <2>1. TypeOK' /\ LastHeard'
    BY <1>1 DEF vars, ProgressInvariant, TypeOK, LastHeard, UploadComplete, DownloadComplete
  <2> QED
    BY <1>1, <2>1, QuietStep DEF vars, ProgressInvariant
<1> QED
  BY <1>1, TickProgress, SendProgress, ReceiveProgress, CallbackProgress, BeginAttemptProgress
     DEF Next

LEMMA ProgressInvariantHolds == Spec => []ProgressInvariant
BY InitProgress, NextProgress, PTL DEF Spec

\* Between two events of an attempt that report no completion an interval passes,
\* for any number of callbacks (RestJob::PostProgress).
THEOREM PostsAlwaysBounded == Spec => []PostsBounded
BY ProgressInvariantHolds, PTL DEF ProgressInvariant

\* A plugin hears of all that was transferred once a direction is complete
\* (RestJob::PostProgress, the last callback of libcurl).
THEOREM AlwaysLastHeard == Spec => []LastHeard
BY ProgressInvariantHolds, PTL DEF ProgressInvariant
=============================================================================
