-------------------------- MODULE RestDeliveryProofs --------------------------
(***************************************************************************)
(* What a plugin is told, and in which order: a request that is over has   *)
(* its Complete event on the way and nothing of it follows that event, no  *)
(* data comes before the headers of its response, and no result is larger  *)
(* than its cap, whatever the queue loses, the plugins drop and the worker *)
(* still does, and whatever redirects, retries and pauses come between.    *)
(*                                                                         *)
(* Then flow control of streamed bodies, and what a plugin is given in     *)
(* all: the bytes that are buffered, posted, handled and acknowledged add  *)
(* up.                                                                     *)
(***************************************************************************)
EXTENDS RestExtensionProofs, SequenceTheorems, FiniteSetTheorems

----------------------------------------------------------------------------
(* What a method of an unfinished job posts *)

\* Nothing that ends the request was posted.
Quiet(job, id) ==
  /\ job \in RestJobs /\ job.id = id /\ ~job.finished
  /\ \A i \in DOMAIN job.out : job.out[i].id = id /\ job.out[i].kind # "Complete"

\* A Complete event was posted, and last, if the job is over, and only then.
Announces(job, id) ==
  /\ job \in RestJobs /\ job.id = id
  /\ \A i \in DOMAIN job.out : job.out[i].id = id
  /\ \A i \in DOMAIN job.out : job.out[i].kind = "Complete" => i = Len(job.out) /\ job.finished
  /\ job.finished => \E i \in DOMAIN job.out : job.out[i].kind = "Complete"

LEMMA QuietAnnounces ==
  ASSUME NEW job, NEW id, Quiet(job, id)
  PROVE  Announces(job, id)
BY DEF Quiet, Announces

\* The same job with other data.
LEMMA SilentIsQuiet ==
  ASSUME NEW job, NEW id, Quiet(job, id), NEW new \in RestJobs,
         new.id = job.id, new.finished = job.finished, new.out = job.out
  PROVE  Quiet(new, id)
BY DEF Quiet

LEMMA PostIsQuiet ==
  ASSUME NEW job, NEW id \in Jobs, Quiet(job, id), NEW event \in TransferEvent,
         event.id = id, event.kind # "Complete"
  PROVE  Quiet(Post(job, event), id)
<1>1. job.out \in Seq(TransferEvent)
  BY DEF Quiet, RestJobs
<1>2. Post(job, event) \in RestJobs /\ SameControl(Post(job, event), job)
  BY PostType DEF Quiet
<1>3. Post(job, event).out = Append(job.out, event)
  BY DEF Post, Quiet, RestJobs
<1>4. ASSUME NEW i \in DOMAIN Append(job.out, event)
      PROVE  Append(job.out, event)[i].id = id /\ Append(job.out, event)[i].kind # "Complete"
  <2>1. CASE i = Len(job.out) + 1
    BY <1>1, <2>1
  <2>2. CASE i # Len(job.out) + 1
    <3>1. i \in DOMAIN job.out /\ Append(job.out, event)[i] = job.out[i]
      BY <1>1, <2>2
    <3> QED
      BY <3>1 DEF Quiet
  <2> QED
    BY <2>1, <2>2
<1> QED
  BY <1>2, <1>3, <1>4 DEF Quiet, SameControl

LEMMA FinishAnnounces ==
  ASSUME NEW job, NEW id \in Jobs, Quiet(job, id), NEW status \in RestStatus
  PROVE  Announces(Finish(job, status), id)
<1> DEFINE ended == [job EXCEPT !.finished = TRUE, !.waitingForRetry = FALSE,
                                !.responseBody = 0]
           event == Event("Complete", job.id, job.bodyLength, status)
           new   == Finish(job, status)
<1>1. job.out \in Seq(TransferEvent) /\ ended.out = job.out
  BY DEF Quiet, RestJobs
<1>2. event.id = id /\ event.kind = "Complete"
  BY DEF Event, Quiet
<1>3. new = Post(ended, event)
  BY DEF Finish, Quiet
<1>4. new \in RestJobs /\ new.finished /\ new.id = id
  BY FinishEffect DEF Quiet
<1>5. new.out = Append(job.out, event)
  <2>1. ended \in RestJobs
    BY DEF Quiet, RestJobs
  <2> HIDE DEF ended, event, new
  <2> QED
    BY <1>1, <1>3, <2>1 DEF Post, RestJobs
<1> HIDE DEF ended, event, new
<1>6. /\ DOMAIN new.out = 1..(Len(job.out) + 1) /\ Len(new.out) = Len(job.out) + 1
      /\ new.out[Len(job.out) + 1] = event
      /\ \A i \in 1..Len(job.out) : new.out[i] = job.out[i]
  BY <1>1, <1>5
<1>7. ASSUME NEW i \in DOMAIN new.out
      PROVE  new.out[i].id = id /\ (new.out[i].kind = "Complete" => i = Len(new.out))
  <2>1. CASE i = Len(job.out) + 1
    BY <1>2, <1>6, <2>1
  <2>2. CASE i # Len(job.out) + 1
    <3>1. i \in DOMAIN job.out /\ new.out[i] = job.out[i]
      BY <1>1, <1>6, <2>2
    <3> QED
      BY <3>1 DEF Quiet
  <2> QED
    BY <2>1, <2>2
<1>8. \E i \in DOMAIN new.out : new.out[i].kind = "Complete"
  <2>1. Len(job.out) + 1 \in DOMAIN new.out
    BY <1>1, <1>6
  <2> QED
    BY <1>2, <1>6, <2>1
<1> QED
  BY <1>4, <1>7, <1>8 DEF Announces, new

LEMMA FlushIsQuiet ==
  ASSUME NEW job, NEW id \in Jobs, Quiet(job, id)
  PROVE  Quiet(FlushStream(job), id)
<1>1. CASE job.streamBuffer = 0
  BY <1>1 DEF FlushStream
<1>2. CASE job.streamBuffer # 0
  <2> DEFINE flushed == [job EXCEPT !.pendingStreamBytes = @ + job.streamBuffer,
                                    !.streamBuffer = 0]
             event == Event("Data", job.id, job.streamBuffer, "Ok")
  <2>1. Quiet(flushed, id)
    <3>1. job.pendingStreamBytes + job.streamBuffer \in Nat
      BY DEF Quiet, RestJobs
    <3> QED
      BY <3>1 DEF Quiet, RestJobs
  <2>2. event \in TransferEvent /\ event.id = id /\ event.kind # "Complete"
    BY EventType DEF Quiet, RestJobs, EventKind, RestStatus, Event
  <2>3. FlushStream(job) = Post(flushed, event)
    BY <1>2 DEF FlushStream
  <2> HIDE DEF flushed, event
  <2> QED
    BY <2>1, <2>2, <2>3, PostIsQuiet
<1> QED
  BY <1>1, <1>2

LEMMA BeginAttemptAnnounces ==
  ASSUME NEW job, NEW id \in Jobs, Quiet(job, id), NEW outcome \in BeginOutcomes(job)
  PROVE  Announces(BeginAttempt(job, outcome), id)
<1> DEFINE fresh == ResetAttemptState([job EXCEPT !.attempt = @ + 1])
<1>1. Quiet(fresh, id)
  <2> DEFINE counted == [job EXCEPT !.attempt = @ + 1]
  <2>1. Quiet(counted, id)
    <3>1. job.attempt + 1 \in Nat
      BY DEF Quiet, RestJobs
    <3> QED
      BY <3>1 DEF Quiet, RestJobs
  <2>2. fresh = ResetAttemptState(counted)
    OBVIOUS
  <2> HIDE DEF counted, fresh
  <2>3. /\ fresh \in RestJobs /\ fresh.id = counted.id /\ fresh.finished = counted.finished
    BY <2>1, <2>2, ResetAttemptStateEffect DEF Quiet
  <2>4. fresh.out = counted.out
    BY <2>1, <2>2 DEF Quiet, ResetAttemptState, RestJobs
  <2> QED
    BY <2>1, <2>3, <2>4, SilentIsQuiet
<1>2. \/ \E status \in RestStatus : BeginAttempt(job, outcome) = Finish(fresh, status)
      \/ BeginAttempt(job, outcome) = [fresh EXCEPT !.attached = TRUE]
  BY DEF BeginAttempt, RestStatus
<1> HIDE DEF fresh
<1>3. Quiet([fresh EXCEPT !.attached = TRUE], id)
  BY <1>1 DEF Quiet, RestJobs
<1> QED
  BY <1>1, <1>2, <1>3, FinishAnnounces, QuietAnnounces

LEMMA CancelAnnounces ==
  ASSUME NEW job, NEW id \in Jobs, Quiet(job, id)
  PROVE  Announces(Cancel(job), id)
<1> DEFINE released == [job EXCEPT !.cancelRequested = TRUE, !.attached = FALSE]
<1>1. Quiet(released, id)
  BY DEF Quiet, RestJobs
<1>2. Cancel(job) = Finish(released, "Cancelled")
  BY DEF Cancel
<1> HIDE DEF released
<1> QED
  BY <1>1, <1>2, FinishAnnounces DEF RestStatus

LEMMA OnAttemptDoneAnnounces ==
  ASSUME NEW job, NEW id \in Jobs, Quiet(job, id),
         NEW code \in CurlCode, NEW status \in Nat, NEW renamed \in BOOLEAN
  PROVE  Announces(OnAttemptDone(job, code, status, renamed), id)
<1> DEFINE released == [job EXCEPT !.attached = FALSE]
           new      == OnAttemptDone(job, code, status, renamed)
<1>1. Quiet(released, id)
  BY DEF Quiet, RestJobs
<1>2. \/ new = ScheduleRetry(released)
      \/ \E s \in RestStatus : new = Finish(released, s)
      \/ new = Finish(FlushStream(released), "Ok")
  <2>1. \/ new = HandleTransportFailure(released, code)
        \/ new = HandleHttpSuccess(released, renamed)
        \/ new = HandleHttpFailure(released, status)
        \/ new = Finish(released, "Cancelled")
    BY DEF OnAttemptDone
  <2> HIDE DEF new, released
  <2> QED
    BY <2>1 DEF HandleTransportFailure, HandleHttpSuccess, HandleHttpFailure, RestStatus
<1> HIDE DEF released
<1>3. Quiet(ScheduleRetry(released), id)
  BY <1>1 DEF Quiet, ScheduleRetry, RestJobs
<1>4. Quiet(FlushStream(released), id)
  BY <1>1, FlushIsQuiet
<1> QED
  BY <1>1, <1>2, <1>3, <1>4, FinishAnnounces, QuietAnnounces DEF RestStatus

LEMMA HeadersAreQuiet ==
  ASSUME NEW job, NEW id \in Jobs, Quiet(job, id), NEW status \in Nat,
         NEW redirected \in BOOLEAN
  PROVE  /\ Quiet(OnHeadersComplete(job, status, redirected), id)
         /\ Quiet(OnHeaderBlock(job, status, redirected), id)
<1>1. ASSUME NEW old, Quiet(old, id)
      PROVE  Quiet(OnHeadersComplete(old, status, redirected), id)
  <2> DEFINE posted == [old EXCEPT !.headersPosted = TRUE]
             event  == Event("Headers", old.id, 0, "Ok")
  <2>1. Quiet(posted, id)
    BY <1>1 DEF Quiet, RestJobs
  <2>2. event \in TransferEvent /\ event.id = id /\ event.kind # "Complete"
    BY <1>1, EventType DEF Quiet, RestJobs, EventKind, RestStatus, Event
  <2>3. OnHeadersComplete(old, status, redirected) \in {old, Post(posted, event)}
    BY DEF OnHeadersComplete
  <2> HIDE DEF posted, event
  <2> QED
    BY <1>1, <2>1, <2>2, <2>3, PostIsQuiet
<1>2. Quiet([job EXCEPT !.headersPosted = FALSE], id)
  BY DEF Quiet, RestJobs
<1> QED
  BY <1>1, <1>2 DEF OnHeaderBlock

LEMMA WritesAreQuiet ==
  ASSUME NEW job, NEW id \in Jobs, Quiet(job, id), NEW total \in Nat
  PROVE  /\ Quiet(WriteMemory(job, total), id)
         /\ Quiet(WriteFile(job, total), id)
         /\ Quiet(WriteStream(job, total), id)
<1>1. job \in RestJobs
  BY DEF Quiet
<1>2. Quiet(WriteMemory(job, total), id)
  <2>1. WriteMemory(job, total) \in RestJobs /\ SameControl(WriteMemory(job, total), job)
    BY <1>1, WriteMemoryEffect
  <2>2. WriteMemory(job, total).out = job.out
    BY <1>1 DEF WriteMemory, RestJobs
  <2> QED
    BY <2>1, <2>2, SilentIsQuiet DEF SameControl
<1>3. Quiet(WriteFile(job, total), id)
  <2>1. WriteFile(job, total) \in RestJobs /\ SameControl(WriteFile(job, total), job)
    BY <1>1, WriteFileEffect
  <2>2. WriteFile(job, total).out = job.out
    BY <1>1 DEF WriteFile, RestJobs
  <2> QED
    BY <2>1, <2>2, SilentIsQuiet DEF SameControl
<1>4. Quiet(WriteStream(job, total), id)
  <2> DEFINE held     == [job EXCEPT !.paused = TRUE]
             buffered == [job EXCEPT !.streamBuffer = @ + total, !.bodyLength = @ + total]
  <2>1. Quiet(held, id)
    BY DEF Quiet, RestJobs
  <2>2. Quiet(buffered, id)
    <3>1. job.streamBuffer + total \in Nat /\ job.bodyLength + total \in Nat
      BY <1>1 DEF RestJobs
    <3> QED
      BY <3>1 DEF Quiet, RestJobs
  <2>3. WriteStream(job, total) \in {held, buffered, FlushStream(buffered)}
    BY DEF WriteStream
  <2> HIDE DEF held, buffered
  <2> QED
    BY <2>1, <2>2, <2>3, FlushIsQuiet
<1> QED
  BY <1>2, <1>3, <1>4

LEMMA ProgressIsQuiet ==
  ASSUME NEW job, NEW id \in Jobs, Quiet(job, id)
  PROVE  Quiet(PostProgress(job), id)
<1>1. /\ Event("Progress", job.id, 0, "Ok") \in TransferEvent
      /\ Event("Progress", job.id, 0, "Ok").id = id
      /\ Event("Progress", job.id, 0, "Ok").kind # "Complete"
  BY EventType DEF Quiet, RestJobs, EventKind, RestStatus, Event
<1> QED
  BY <1>1, PostIsQuiet DEF PostProgress

LEMMA ConsumedIsQuiet ==
  ASSUME NEW job, NEW id \in Jobs, Quiet(job, id), NEW bytes \in Nat
  PROVE  Quiet(OnStreamConsumed(job, bytes), id)
<1>1. /\ OnStreamConsumed(job, bytes) \in RestJobs
      /\ SameControl(OnStreamConsumed(job, bytes), job)
  BY OnStreamConsumedEffect DEF Quiet
<1>2. OnStreamConsumed(job, bytes).out = job.out
  <2>1. Acknowledged(job, bytes) \in RestJobs /\ Acknowledged(job, bytes).out = job.out
    BY DEF Acknowledged, Quiet, RestJobs
  <2> QED
    BY <2>1 DEF OnStreamConsumed, RestJobs
<1> QED
  BY <1>1, <1>2, SilentIsQuiet DEF SameControl

----------------------------------------------------------------------------
(* Sequences of events, whatever is in them *)

\* Nothing happens to the events.
LEMMA OrderKept ==
  ASSUME NEW E, NEW calling, NEW over, NEW finished, NEW waiting,
         Ordered(E, calling, over, finished, waiting),
         NEW calling2, NEW over2, NEW finished2, NEW waiting2,
         over2 \subseteq finished2, finished \subseteq finished2,
         waiting2 \cap finished2 \subseteq waiting \cap finished,
         \A i \in DOMAIN E : (calling2 => i > 1) => (calling => i > 1) /\ E[i].id \notin over2 \ over
  PROVE  Ordered(E, calling2, over2, finished2, waiting2)
BY DEF Ordered

\* The oldest event is handled.
LEMMA OrderOfTail ==
  ASSUME NEW E \in Seq(TransferEvent), E # <<>>,
         NEW calling, NEW over, NEW finished, NEW waiting,
         Ordered(E, calling, over, finished, waiting),
         NEW over2, NEW waiting2, over2 \subseteq finished, waiting2 \subseteq waiting,
         \/ over2 \subseteq over
         \/ over2 \subseteq over \cup {E[1].id} /\ E[1].kind = "Complete",
         E[1].kind = "Complete" => E[1].id \notin waiting2
  PROVE  Ordered(Tail(E), FALSE, over2, finished, waiting2)
<1>1. /\ Len(E) \in Nat /\ DOMAIN E = 1..Len(E) /\ DOMAIN Tail(E) = 1..(Len(E) - 1)
      /\ \A i \in DOMAIN Tail(E) : Tail(E)[i] = E[i + 1]
  BY HeadTailProperties, LenProperties
<1>2. /\ 1 \in DOMAIN E
      /\ \A i \in DOMAIN Tail(E) : i + 1 \in DOMAIN E /\ i + 1 > 1
      /\ \A k \in DOMAIN E : k # 1 => k - 1 \in DOMAIN Tail(E) /\ Tail(E)[k - 1] = E[k]
  <2>1. Len(E) # 0
    BY EmptySeq
  <2> QED
    BY <1>1, <2>1
<1>3. ASSUME NEW i \in DOMAIN Tail(E), Tail(E)[i].kind = "Complete"
      PROVE  Tail(E)[i].id \in finished
  BY <1>1, <1>2, <1>3 DEF Ordered
<1>4. ASSUME NEW j \in waiting2 \cap finished
      PROVE  \E i \in DOMAIN Tail(E) : Tail(E)[i].id = j /\ Tail(E)[i].kind = "Complete"
  <2>1. PICK k \in DOMAIN E : E[k].id = j /\ E[k].kind = "Complete"
    BY <1>4 DEF Ordered
  <2>2. k # 1
    BY <1>4, <2>1
  <2> QED
    BY <1>2, <2>1, <2>2
<1>5. ASSUME NEW i \in DOMAIN Tail(E), NEW k \in DOMAIN Tail(E), i < k,
             Tail(E)[i].id = Tail(E)[k].id
      PROVE  Tail(E)[i].kind # "Complete"
  <2>1. i + 1 < k + 1
    BY <1>1, <1>5
  <2> QED
    BY <1>1, <1>2, <1>5, <2>1 DEF Ordered
<1>6. ASSUME NEW i \in DOMAIN Tail(E)
      PROVE  Tail(E)[i].id \notin over2
  <2>1. E[i + 1].id \notin over
    BY <1>2 DEF Ordered
  <2>2. E[1].kind = "Complete" => E[i + 1].id # E[1].id
    BY <1>1, <1>2 DEF Ordered
  <2> QED
    BY <1>1, <2>1, <2>2
<1> QED
  BY <1>3, <1>4, <1>5, <1>6 DEF Ordered

\* A job that was not finished posts, and may be finished then.
LEMMA OrderOfPosts ==
  ASSUME NEW E \in Seq(TransferEvent),
         NEW calling, NEW over, NEW finished, NEW waiting,
         Ordered(E, calling, over, finished, waiting),
         calling => E # <<>>,
         NEW job, NEW id \in Jobs, Announces(job, id), id \notin finished,
         NEW finished2, finished2 = IF job.finished THEN finished \cup {id} ELSE finished
  PROVE  Ordered(E \o job.out, calling, over, finished2, waiting)
<1> DEFINE n == Len(E)
           F == E \o job.out
<1>1. job.out \in Seq(TransferEvent)
  BY DEF Announces, RestJobs
<1>2. /\ n \in Nat /\ Len(job.out) \in Nat /\ DOMAIN E = 1..n
      /\ DOMAIN job.out = 1..Len(job.out) /\ DOMAIN F = 1..(n + Len(job.out))
      /\ \A i \in 1..(n + Len(job.out)) : F[i] = IF i <= n THEN E[i] ELSE job.out[i - n]
  BY <1>1, ConcatProperties, LenProperties
<1> HIDE DEF n, F
<1>3. ASSUME NEW i \in DOMAIN F
      PROVE  \/ i \in DOMAIN E /\ i <= n /\ F[i] = E[i]
             \/ i - n \in DOMAIN job.out /\ i > n /\ F[i] = job.out[i - n]
  BY <1>2
<1>4. /\ \A i \in DOMAIN E : i \in DOMAIN F /\ F[i] = E[i]
      /\ \A i \in DOMAIN job.out : i + n \in DOMAIN F /\ F[i + n] = job.out[i]
  BY <1>2
<1>5. id \notin over
  BY DEF Ordered
<1>6. ASSUME NEW i \in DOMAIN F, F[i].kind = "Complete"
      PROVE  F[i].id \in finished2
  BY <1>3, <1>6 DEF Ordered, Announces
<1>7. ASSUME NEW j \in waiting \cap finished2
      PROVE  \E i \in DOMAIN F : F[i].id = j /\ F[i].kind = "Complete"
  <2>1. CASE j \in finished
    <3>1. PICK i \in DOMAIN E : E[i].id = j /\ E[i].kind = "Complete"
      BY <1>7, <2>1 DEF Ordered
    <3> QED
      BY <1>4, <3>1
  <2>2. CASE j \notin finished
    <3>1. j = id /\ job.finished
      BY <1>7, <2>2
    <3>2. PICK i \in DOMAIN job.out : job.out[i].id = id /\ job.out[i].kind = "Complete"
      BY <3>1 DEF Announces
    <3> QED
      BY <1>4, <3>1, <3>2
  <2> QED
    BY <2>1, <2>2
<1>8. ASSUME NEW i \in DOMAIN F, NEW k \in DOMAIN F, i < k, F[i].id = F[k].id
      PROVE  F[i].kind # "Complete"
  <2>0. i \in Int /\ k \in Int /\ n \in Int
    BY <1>2
  <2>1. CASE i \in DOMAIN E /\ F[i] = E[i] /\ k \in DOMAIN E /\ F[k] = E[k]
    BY <1>8, <2>1 DEF Ordered
  <2>2. CASE i \in DOMAIN E /\ F[i] = E[i] /\ k - n \in DOMAIN job.out /\ F[k] = job.out[k - n]
    BY <1>8, <2>2 DEF Ordered, Announces
  <2>3. CASE i > n /\ i - n \in DOMAIN job.out /\ F[i] = job.out[i - n]
    <3>1. k <= n + Len(job.out) /\ i - n < Len(job.out)
      BY <1>2, <1>8
    <3> QED
      BY <1>2, <2>0, <2>3, <3>1 DEF Announces
  <2> QED
    BY <1>2, <1>3, <1>8, <2>0, <2>1, <2>2, <2>3
<1>9. ASSUME NEW i \in DOMAIN F, calling => i > 1
      PROVE  F[i].id \notin over
  BY <1>3, <1>5, <1>9 DEF Ordered, Announces
<1> QED
  BY <1>6, <1>7, <1>8, <1>9 DEF Ordered, F

\* Nobody waits for an event any more, and some are thrown away: f tells where
\* the others were.
LEMMA OrderOfSome ==
  ASSUME NEW E, NEW calling, NEW over, NEW finished, NEW waiting,
         Ordered(E, calling, over, finished, waiting),
         NEW F, NEW f \in [DOMAIN F -> DOMAIN E],
         \A i \in DOMAIN F : F[i] = E[f[i]] /\ ((calling => i > 1) => (calling => f[i] > 1)),
         \A i, k \in DOMAIN F : i < k => f[i] < f[k]
  PROVE  Ordered(F, calling, over, finished, {})
<1>1. ASSUME NEW i \in DOMAIN F, NEW k \in DOMAIN F, i < k, F[i].id = F[k].id
      PROVE  F[i].kind # "Complete"
  BY <1>1 DEF Ordered
<1>2. \A i \in DOMAIN F : f[i] \in DOMAIN E
  OBVIOUS
<1> QED
  BY <1>1, <1>2 DEF Ordered

\* A sequence is its first element and the others.
LEMMA FirstAndRest ==
  ASSUME NEW S, NEW s \in Seq(S), s # <<>>
  PROVE  s = <<Head(s)>> \o Tail(s)
<1>1. /\ Len(s) \in Nat \ {0} /\ Head(s) \in S /\ Head(s) = s[1]
      /\ Tail(s) \in Seq(S) /\ Len(Tail(s)) = Len(s) - 1
      /\ \A i \in 1..Len(Tail(s)) : Tail(s)[i] = s[i + 1]
  BY EmptySeq, HeadTailProperties
<1> DEFINE first == <<Head(s)>>
           rest  == Tail(s)
<1>2. first \in Seq(S) /\ Len(first) = 1 /\ first[1] = s[1]
  BY <1>1
<1>3. rest \in Seq(S) /\ Len(s) = 1 + Len(rest)
        /\ \A i \in 1..Len(rest) : rest[i] = s[i + 1]
  BY <1>1
<1> HIDE DEF first, rest
<1>4. /\ first \o rest \in Seq(S) /\ Len(first \o rest) = Len(s)
      /\ \A i \in 1..Len(s) : (first \o rest)[i] =
           IF i <= 1 THEN first[i] ELSE rest[i - 1]
  <2>1. /\ first \o rest \in Seq(S)
        /\ Len(first \o rest) = Len(first) + Len(rest)
        /\ \A i \in 1..(Len(first) + Len(rest)) : (first \o rest)[i] =
             IF i <= Len(first) THEN first[i] ELSE rest[i - Len(first)]
    BY <1>2, <1>3, ConcatProperties
  <2> QED
    BY <1>2, <1>3, <2>1
<1>5. ASSUME NEW i \in 1..Len(s)
      PROVE  s[i] = (first \o rest)[i]
  <2>1. CASE i = 1
    BY <1>2, <1>4, <2>1
  <2>2. CASE i # 1
    <3>1. i - 1 \in 1..Len(rest) /\ (i - 1) + 1 = i /\ ~(i <= 1)
      BY <1>3, <2>2
    <3> QED
      BY <1>3, <1>4, <3>1
  <2> QED
    BY <2>1, <2>2
<1>6. s = first \o rest
  BY <1>4, <1>5, SeqEqual
<1> QED
  BY <1>6 DEF first, rest

----------------------------------------------------------------------------
(* The events in flight *)

LEMMA InFlightType ==
  ASSUME InductiveInvariant
  PROVE  /\ batch \in Seq(TransferEvent) /\ events \in Seq(TransferEvent)
         /\ outbox \in Seq(TransferEvent)
         /\ InFlight \in Seq(TransferEvent)
BY ConcatProperties DEF InductiveInvariant, TypeOK, RecordTypeOK, QueueTypeOK, InFlight

\* While there is a batch its head is the oldest event in flight.
LEMMA OldestInFlight ==
  ASSUME InductiveInvariant, batch # <<>>
  PROVE  /\ InFlight # <<>> /\ InFlight[1] = NextEvent
         /\ NextEvent \in TransferEvent
         /\ Tail(batch) \o events \o outbox = Tail(InFlight)
<1>1. /\ batch \in Seq(TransferEvent) /\ events \in Seq(TransferEvent)
      /\ outbox \in Seq(TransferEvent) /\ InFlight \in Seq(TransferEvent)
  BY InFlightType
<1> DEFINE rest == events \o outbox
<1>2. /\ rest \in Seq(TransferEvent) /\ InFlight = batch \o rest
      /\ Tail(batch) \in Seq(TransferEvent)
      /\ Tail(batch) \o events \o outbox = Tail(batch) \o rest
  <2>1. rest \in Seq(TransferEvent)
    BY <1>1, ConcatProperties
  <2>2. Tail(batch) \in Seq(TransferEvent)
    BY <1>1, HeadTailProperties
  <2>3. (batch \o events) \o outbox = batch \o rest
    BY <1>1, ConcatAssociative
  <2>4. (Tail(batch) \o events) \o outbox = Tail(batch) \o rest
    BY <1>1, <2>2, ConcatAssociative
  <2> QED
    BY <2>1, <2>2, <2>3, <2>4 DEF InFlight
<1> HIDE DEF rest
<1>3. /\ Len(batch) \in Nat \ {0} /\ Len(rest) \in Nat
      /\ Len(InFlight) = Len(batch) + Len(rest)
      /\ \A i \in 1..Len(InFlight) :
           InFlight[i] = IF i <= Len(batch) THEN batch[i] ELSE rest[i - Len(batch)]
  BY <1>1, <1>2, EmptySeq, LenProperties, ConcatProperties
<1>4. InFlight # <<>> /\ InFlight[1] = batch[1]
  <2>1. Len(InFlight) # 0 /\ 1 \in 1..Len(InFlight) /\ 1 <= Len(batch)
    BY <1>3
  <2> QED
    BY <1>3, <2>1, EmptySeq
<1>5. NextEvent = batch[1] /\ NextEvent \in TransferEvent
  BY <1>1, HeadTailProperties DEF NextEvent
<1>6. Tail(batch) \o rest = Tail(InFlight)
  <2>1. /\ Tail(InFlight) \in Seq(TransferEvent) /\ Len(Tail(InFlight)) = Len(InFlight) - 1
        /\ \A i \in 1..Len(Tail(InFlight)) : Tail(InFlight)[i] = InFlight[i + 1]
    BY <1>1, <1>4, HeadTailProperties
  <2>2. /\ Len(Tail(batch)) = Len(batch) - 1
        /\ \A i \in 1..Len(Tail(batch)) : Tail(batch)[i] = batch[i + 1]
    BY <1>1, HeadTailProperties
  <2>3. /\ Tail(batch) \o rest \in Seq(TransferEvent)
        /\ Len(Tail(batch) \o rest) = Len(Tail(batch)) + Len(rest)
        /\ \A i \in 1..(Len(Tail(batch)) + Len(rest)) : (Tail(batch) \o rest)[i] =
             IF i <= Len(Tail(batch)) THEN Tail(batch)[i] ELSE rest[i - Len(Tail(batch))]
    BY <1>2, ConcatProperties
  <2>4. ASSUME NEW i \in 1..Len(Tail(batch) \o rest)
        PROVE  (Tail(batch) \o rest)[i] = Tail(InFlight)[i]
    <3>1. i + 1 \in 1..Len(InFlight) /\ i \in 1..Len(Tail(InFlight))
      BY <1>3, <2>1, <2>2, <2>3
    <3>2. Tail(InFlight)[i] =
            IF i + 1 <= Len(batch) THEN batch[i + 1] ELSE rest[i + 1 - Len(batch)]
      BY <1>3, <2>1, <3>1
    <3>3. CASE i + 1 <= Len(batch)
      BY <1>3, <2>2, <2>3, <3>2, <3>3
    <3>4. CASE ~(i + 1 <= Len(batch))
      <4>1. i - Len(Tail(batch)) = i + 1 - Len(batch)
        BY <1>3, <2>2
      <4> QED
        BY <1>3, <2>2, <2>3, <3>2, <3>4, <4>1
    <3> QED
      BY <3>3, <3>4
  <2>5. Len(Tail(batch) \o rest) = Len(Tail(InFlight))
    BY <1>3, <2>1, <2>2, <2>3
  <2> QED
    BY <2>1, <2>3, <2>4, <2>5, SeqEqual
<1> QED
  BY <1>2, <1>4, <1>5, <1>6

\* What a method of a job posted goes to the end.
LEMMA InFlightPosted ==
  ASSUME InductiveInvariant, outbox = <<>>, UNCHANGED <<batch, events>>
  PROVE  InFlight' = InFlight \o outbox'
<1>1. batch \o events \in Seq(TransferEvent) /\ InFlight = batch \o events
  BY InFlightType, ConcatProperties, ConcatEmptySeq DEF InFlight
<1> QED
  BY <1>1 DEF InFlight

\* An event moves from the worker's hands into the queue.
LEMMA InFlightPushed ==
  ASSUME InductiveInvariant, PostPush, UNCHANGED mainVars
  PROVE  InFlight' = InFlight
<1>1. outbox # <<>> /\ events' = Append(events, Head(outbox)) /\ outbox' = Tail(outbox)
  BY DEF PostPush, InductiveInvariant, WorkerInvariant, Posted
<1>2. /\ batch \in Seq(TransferEvent) /\ events \in Seq(TransferEvent)
      /\ Head(outbox) \in TransferEvent /\ Tail(outbox) \in Seq(TransferEvent)
      /\ outbox \in Seq(TransferEvent)
  BY <1>1, InFlightType, HeadTailProperties
<1> DEFINE first == <<Head(outbox)>>
           rest  == Tail(outbox)
<1>3. outbox = first \o rest /\ first \in Seq(TransferEvent)
  <2>1. first \in Seq(TransferEvent)
    BY <1>2
  <2> QED
    BY <1>1, <1>2, <2>1, FirstAndRest
<1>4. events' = events \o first
  BY <1>1, <1>2, AppendIsConcat
<1>5. InFlight' = batch \o (events \o first) \o rest
  BY <1>1, <1>4 DEF InFlight, mainVars
<1> HIDE DEF first, rest
<1>6. rest \in Seq(TransferEvent) /\ batch \o events \in Seq(TransferEvent)
  BY <1>2, ConcatProperties DEF rest
<1>7. batch \o (events \o first) = (batch \o events) \o first
  <2>1. first \in Seq(TransferEvent)
    BY <1>3
  <2>2. batch \in Seq(TransferEvent) /\ events \in Seq(TransferEvent)
    BY <1>2
  <2> QED
    BY <2>1, <2>2, ConcatAssociative
<1>8. ((batch \o events) \o first) \o rest = (batch \o events) \o (first \o rest)
  <2> DEFINE before == batch \o events
  <2>1. /\ before \in Seq(TransferEvent) /\ first \in Seq(TransferEvent)
        /\ rest \in Seq(TransferEvent)
    BY <1>3, <1>6
  <2> HIDE DEF before
  <2>2. (before \o first) \o rest = before \o (first \o rest)
    BY <2>1, ConcatAssociative
  <2> QED
    BY <2>2 DEF before
<1> QED
  BY <1>3, <1>5, <1>7, <1>8 DEF InFlight

\* The game frame takes over the queue.
LEMMA InFlightDrained ==
  ASSUME InductiveInvariant, OnGameFrame
  PROVE  InFlight' = InFlight
<1>1. /\ batch = <<>> /\ batch' = events /\ events' = <<>> /\ UNCHANGED outbox
  BY DEF OnGameFrame, Drain, InductiveInvariant, MainInvariant
<1>2. InFlight = (<<>> \o events) \o outbox /\ InFlight' = (events \o <<>>) \o outbox
  BY <1>1 DEF InFlight
<1>3. <<>> \o events = events /\ events \o <<>> = events
  BY InFlightType, ConcatEmptySeq
<1> QED
  BY <1>2, <1>3

\* What the order of events depends on.
orderVars == <<jobs, log, records, mpc, batch, events, outbox, enabled>>

LEMMA UnaffectedOrder ==
  ASSUME OrderInvariant, UNCHANGED orderVars
  PROVE  OrderInvariant'
BY DEF OrderInvariant, orderVars, Over, Finished, Waiting, Found, InFlight, Ordered

\* A step that only moves events from one place to the next.
LEMMA UnmovedOrder ==
  ASSUME OrderInvariant, InFlight' = InFlight, UNCHANGED <<jobs, log, records, mpc, enabled>>
  PROVE  OrderInvariant'
BY DEF OrderInvariant, Over, Finished, Waiting, Found, Ordered

\* A step that leaves the sequence of events alone.
LEMMA KeptOrder ==
  ASSUME OrderInvariant, InFlight' = InFlight,
         \A j \in Jobs : jobs'[j].out = <<>>,
         Over' \subseteq Finished', Finished \subseteq Finished',
         Waiting' \cap Finished' \subseteq Waiting \cap Finished,
         \A i \in DOMAIN InFlight :
           (mpc' = "callback" => i > 1) =>
             (mpc = "callback" => i > 1) /\ InFlight[i].id \notin Over' \ Over
  PROVE  OrderInvariant'
<1> DEFINE calling == mpc = "callback"
           calling2 == mpc' = "callback"
<1>1. /\ Ordered(InFlight, calling, Over, Finished, Waiting)
      /\ \A i \in DOMAIN InFlight :
           (calling2 => i > 1) => (calling => i > 1) /\ InFlight[i].id \notin Over' \ Over
  BY DEF OrderInvariant
<1>2. OrderInvariant' <=> /\ \A j \in Jobs : jobs'[j].out = <<>>
                          /\ Ordered(InFlight', calling2, Over', Finished', Waiting')
  BY DEF OrderInvariant
<1> HIDE DEF calling, calling2
<1>3. Ordered(InFlight, calling2, Over', Finished', Waiting')
  BY <1>1, OrderKept
<1> QED
  BY <1>2, <1>3

\* A step that takes the oldest event out.
LEMMA TailOrder ==
  ASSUME InductiveInvariant, OrderInvariant, batch # <<>>,
         batch' = Tail(batch), mpc' = "batch", UNCHANGED <<jobs, queueVars>>,
         Waiting' \subseteq Waiting,
         \/ Over' \subseteq Over
         \/ Over' \subseteq Over \cup {NextEvent.id} /\ NextEvent.kind = "Complete",
         NextEvent.kind = "Complete" => NextEvent.id \notin Waiting'
  PROVE  OrderInvariant'
<1>1. /\ InFlight \in Seq(TransferEvent) /\ InFlight # <<>> /\ InFlight[1] = NextEvent
      /\ InFlight' = Tail(InFlight)
  BY InFlightType, OldestInFlight DEF InFlight, queueVars
<1>2. Ordered(InFlight, mpc = "callback", Over, Finished, Waiting)
      /\ Finished' = Finished /\ \A j \in Jobs : jobs'[j].out = <<>>
  BY DEF OrderInvariant, Finished
<1>3. Over' \subseteq Finished
  <2>1. Over \subseteq Finished
    BY <1>2 DEF Ordered
  <2>2. NextEvent.kind = "Complete" => NextEvent.id \in Finished
    <3>1. 1 \in DOMAIN InFlight
      <4>1. Len(InFlight) \in Nat \ {0} /\ DOMAIN InFlight = 1..Len(InFlight)
        BY <1>1, EmptySeq, LenProperties
      <4> QED
        BY <4>1
    <3> QED
      BY <1>1, <1>2, <3>1 DEF Ordered
  <2> QED
    BY <2>1, <2>2
<1>4. Ordered(Tail(InFlight), FALSE, Over', Finished, Waiting')
  <2> DEFINE calling == mpc = "callback"
  <2>1. Ordered(InFlight, calling, Over, Finished, Waiting)
    BY <1>2
  <2> HIDE DEF calling
  <2>2. \/ Over' \subseteq Over
        \/ Over' \subseteq Over \cup {InFlight[1].id} /\ InFlight[1].kind = "Complete"
    BY <1>1
  <2>3. InFlight[1].kind = "Complete" => InFlight[1].id \notin Waiting'
    BY <1>1
  <2> QED
    BY <1>1, <1>3, <2>1, <2>2, <2>3, OrderOfTail
<1>5. (mpc = "callback")' = FALSE
  OBVIOUS
<1> QED
  BY <1>1, <1>2, <1>4, <1>5 DEF OrderInvariant

\* A step in which the worker runs a method of job j, which was not over.
LEMMA JobStepOrder ==
  ASSUME InductiveInvariant, OrderInvariant,
         NEW j \in Jobs, NEW job, Announces(job, j), ~jobs[j].finished,
         Posted, Apply(j, job), UNCHANGED mainVars
  PROVE  OrderInvariant'
<1>1. /\ jobs \in [Jobs -> RestJobs] /\ job \in RestJobs
      /\ outbox = <<>> /\ outbox' = job.out /\ job.out \in Seq(TransferEvent)
      /\ jobs' = [jobs EXCEPT ![j] = [job EXCEPT !.out = <<>>]]
      /\ UNCHANGED <<events, enabled, log, records, mpc, batch>>
  BY DEF InductiveInvariant, TypeOK, WorkerTypeOK, Announces, RestJobs, Posted, Apply, mainVars
<1>2. InFlight' = InFlight \o job.out
  BY <1>1, InFlightPosted
<1>3. Finished' = (IF job.finished THEN Finished \cup {j} ELSE Finished) /\ j \notin Finished
  <2>1. jobs'[j].finished = job.finished /\ \A i \in Jobs \ {j} : jobs'[i] = jobs[i]
    BY <1>1 DEF RestJobs
  <2> QED
    BY <2>1 DEF Finished
<1>4. \A i \in Jobs : jobs'[i].out = <<>>
  <2>1. jobs'[j].out = <<>> /\ \A i \in Jobs \ {j} : jobs'[i] = jobs[i]
    BY <1>1 DEF RestJobs
  <2> QED
    BY <2>1 DEF OrderInvariant
<1>5. Over' = Over /\ Waiting' = Waiting /\ (mpc = "callback")' = (mpc = "callback")
  BY <1>1 DEF Over, Waiting, Found
<1>6. mpc = "callback" => InFlight # <<>>
  BY OldestInFlight DEF InductiveInvariant, MainInvariant
<1>7. Ordered(InFlight \o job.out, mpc = "callback", Over, Finished', Waiting)
  BY <1>3, <1>6, InFlightType, OrderOfPosts DEF OrderInvariant
<1> QED
  BY <1>2, <1>4, <1>5, <1>7 DEF OrderInvariant

LEMMA CurrentIsQuiet ==
  ASSUME InductiveInvariant, OrderInvariant, NEW j \in Jobs, ~jobs[j].finished
  PROVE  Quiet(jobs[j], j)
BY DEF InductiveInvariant, TypeOK, WorkerTypeOK, JobsInvariant, JobPlaced, OrderInvariant, Quiet

\* The job of an easy handle is not over.
LEMMA TransferIsQuiet ==
  ASSUME InductiveInvariant, OrderInvariant, NEW j \in Jobs, xfer[j].state # "none"
  PROVE  Quiet(jobs[j], j)
<1>1. ~jobs[j].finished
  BY DEF InductiveInvariant, JobsInvariant, JobPlaced, JobInvariant
<1> QED
  BY <1>1, CurrentIsQuiet

----------------------------------------------------------------------------
(* The steps of the worker *)

LEMMA WorkerLeavesOrder ==
  ASSUME OrderInvariant, UNCHANGED <<jobs, queueVars, mainVars>>
  PROVE  OrderInvariant'
BY UnaffectedOrder DEF queueVars, mainVars, orderVars

LEMMA AdmitIncomingOrder ==
  ASSUME InductiveInvariant, OrderInvariant, NEW j \in Jobs, WorkerStep(AdmitIncoming(j))
  PROVE  OrderInvariant'
<1>1. PICK outcome \in BeginOutcomes(jobs[j]) :
        Apply(j, BeginAttempt(jobs[j], outcome)) /\ Posted /\ UNCHANGED mainVars
  BY DEF WorkerStep, AdmitIncoming
<1>2. ~jobs[j].finished
  BY DEF WorkerStep, AdmitIncoming, InductiveInvariant, JobsInvariant, JobPlaced
<1>3. Announces(BeginAttempt(jobs[j], outcome), j)
  BY <1>2, CurrentIsQuiet, BeginAttemptAnnounces
<1> QED
  BY <1>1, <1>2, <1>3, JobStepOrder

LEMMA StartDueRetryOrder ==
  ASSUME InductiveInvariant, OrderInvariant, NEW j \in Jobs, WorkerStep(StartDueRetry(j))
  PROVE  OrderInvariant'
<1>1. PICK outcome \in BeginOutcomes(jobs[j]) :
        Apply(j, BeginAttempt(jobs[j], outcome)) /\ Posted /\ UNCHANGED mainVars
  BY DEF WorkerStep, StartDueRetry
<1>2. ~jobs[j].finished
  BY DEF WorkerStep, StartDueRetry, InductiveInvariant, JobsInvariant, JobPlaced, JobInvariant
<1>3. Announces(BeginAttempt(jobs[j], outcome), j)
  BY <1>2, CurrentIsQuiet, BeginAttemptAnnounces
<1> QED
  BY <1>1, <1>2, <1>3, JobStepOrder

LEMMA ApplyCancellationOrder ==
  ASSUME InductiveInvariant, OrderInvariant, NEW j \in Jobs, WorkerStep(ApplyCancellation(j))
  PROVE  OrderInvariant'
<1>1. CASE FindActive(j)
  <2>1. Apply(j, Cancel(jobs[j])) /\ Posted /\ UNCHANGED mainVars /\ ~jobs[j].finished
    BY <1>1 DEF WorkerStep, ApplyCancellation, FindActive
  <2>2. Announces(Cancel(jobs[j]), j)
    BY <2>1, CurrentIsQuiet, CancelAnnounces
  <2> QED
    BY <2>1, <2>2, JobStepOrder
<1>2. CASE ~FindActive(j)
  <2>1. UNCHANGED <<jobs, queueVars, mainVars>>
    BY <1>2 DEF WorkerStep, ApplyCancellation
  <2> QED
    BY <2>1, WorkerLeavesOrder
<1> QED
  BY <1>1, <1>2

LEMMA ApplyConsumedOrder ==
  ASSUME InductiveInvariant, OrderInvariant, WorkerStep(ApplyConsumed)
  PROVE  OrderInvariant'
<1> DEFINE j == Head(taken.consumes)[1]
           bytes == Head(taken.consumes)[2]
<1>1. j \in Jobs /\ bytes \in Nat
  BY DEF WorkerStep, ApplyConsumed, InductiveInvariant, TypeOK, WorkerTypeOK
<1>2. CASE FindActive(j)
  <2>1. /\ Apply(j, OnStreamConsumed(jobs[j], bytes)) /\ Posted /\ UNCHANGED mainVars
        /\ ~jobs[j].finished
    BY <1>2 DEF WorkerStep, ApplyConsumed, FindActive
  <2> HIDE DEF j, bytes
  <2>2. Announces(OnStreamConsumed(jobs[j], bytes), j)
    BY <1>1, <2>1, CurrentIsQuiet, ConsumedIsQuiet, QuietAnnounces
  <2> QED
    BY <1>1, <2>1, <2>2, JobStepOrder
<1>3. CASE ~FindActive(j)
  <2>1. UNCHANGED <<jobs, queueVars, mainVars>>
    BY <1>3 DEF WorkerStep, ApplyConsumed
  <2> QED
    BY <2>1, WorkerLeavesOrder
<1> QED
  BY <1>2, <1>3

\* What curl reports about a transfer is of the right kind.
LEMMA TransferFields ==
  ASSUME InductiveInvariant, NEW j \in Jobs
  PROVE  xfer[j].code \in CurlCode /\ xfer[j].status \in Nat
<1>1. xfer[j] \in Transfers
  BY DEF InductiveInvariant, TypeOK, WorkerTypeOK
<1>2. xfer[j].code \in CurlCode /\ xfer[j].status \in Statuses \cup {0}
  BY <1>1 DEF Transfers
<1>3. Statuses \cup {0} \subseteq Nat
  BY TransferThreadAssumption
<1> QED
  BY <1>2, <1>3

LEMMA ReapCompletedOrder ==
  ASSUME InductiveInvariant, OrderInvariant, NEW j \in Jobs, WorkerStep(ReapCompleted(j))
  PROVE  OrderInvariant'
<1>1. PICK renamed \in BOOLEAN :
        Apply(j, OnAttemptDone(jobs[j], xfer[j].code, xfer[j].status, renamed))
  BY DEF WorkerStep, ReapCompleted
<1>2. /\ Posted /\ UNCHANGED mainVars
      /\ xfer[j].state # "none" /\ xfer[j].code \in CurlCode /\ xfer[j].status \in Nat
  BY TransferFields DEF WorkerStep, ReapCompleted
<1>3. Quiet(jobs[j], j) /\ ~jobs[j].finished
  BY <1>2, TransferIsQuiet DEF Quiet
<1>4. Announces(OnAttemptDone(jobs[j], xfer[j].code, xfer[j].status, renamed), j)
  BY <1>2, <1>3, OnAttemptDoneAnnounces
<1> QED
  BY <1>1, <1>2, <1>3, <1>4, JobStepOrder

\* A callback of curl leaves an unfinished job behind.
LEMMA CurlStepOrder ==
  ASSUME InductiveInvariant, OrderInvariant, NEW j \in Jobs, xfer[j].state # "none",
         NEW job, Quiet(jobs[j], j) => Quiet(job, j),
         Posted, Apply(j, job), UNCHANGED mainVars
  PROVE  OrderInvariant'
<1>1. Quiet(jobs[j], j)
  BY TransferIsQuiet
<1>2. ~jobs[j].finished /\ Announces(job, j)
  BY <1>1, QuietAnnounces DEF Quiet
<1> QED
  BY <1>2, JobStepOrder

LEMMA CurlHeadersOrder ==
  ASSUME InductiveInvariant, OrderInvariant, NEW j \in Jobs, NEW status \in Statuses,
         WorkerStep(CurlHeaders(j, status))
  PROVE  OrderInvariant'
<1>1. PICK redirected \in BOOLEAN : Apply(j, OnHeaderBlock(jobs[j], status, redirected))
  BY DEF WorkerStep, CurlHeaders
<1>2. Posted /\ UNCHANGED mainVars /\ xfer[j].state # "none" /\ status \in Nat
  BY TransferThreadAssumption DEF WorkerStep, CurlHeaders, Receiving
<1>3. Quiet(jobs[j], j) => Quiet(OnHeaderBlock(jobs[j], status, redirected), j)
  BY <1>2, HeadersAreQuiet
<1> QED
  BY <1>1, <1>2, <1>3, CurlStepOrder

LEMMA CurlTrailersOrder ==
  ASSUME InductiveInvariant, OrderInvariant, NEW j \in Jobs, WorkerStep(CurlTrailers(j))
  PROVE  OrderInvariant'
<1>1. /\ Apply(j, OnHeadersComplete(jobs[j], xfer[j].status, FALSE))
      /\ Posted /\ UNCHANGED mainVars /\ xfer[j].state # "none"
  BY DEF WorkerStep, CurlTrailers, Receiving
<1>2. xfer[j].status \in Nat
  BY TransferFields
<1>3. Quiet(jobs[j], j) => Quiet(OnHeadersComplete(jobs[j], xfer[j].status, FALSE), j)
  BY <1>2, HeadersAreQuiet
<1> QED
  BY <1>1, <1>3, CurlStepOrder

LEMMA CurlWritesOrder ==
  ASSUME InductiveInvariant, OrderInvariant, NEW j \in Jobs, NEW total \in 1..MaxWrite,
         WorkerStep(CurlWrite(j, total)) \/ WorkerStep(CurlWriteStream(j, total))
  PROVE  OrderInvariant'
<1>1. Posted /\ UNCHANGED mainVars /\ xfer[j].state # "none" /\ total \in Nat
  BY DEF WorkerStep, CurlWrite, CurlWriteStream, Receiving
<1>2. PICK n \in Nat : \/ Apply(j, WriteMemory(jobs[j], n)) \/ Apply(j, WriteFile(jobs[j], n))
                      \/ Apply(j, WriteStream(jobs[j], n))
  BY <1>1 DEF WorkerStep, CurlWrite, CurlWriteStream
<1>3. Quiet(jobs[j], j) => /\ Quiet(WriteMemory(jobs[j], n), j)
                           /\ Quiet(WriteFile(jobs[j], n), j)
                           /\ Quiet(WriteStream(jobs[j], n), j)
  BY WritesAreQuiet
<1> QED
  BY <1>1, <1>2, <1>3, CurlStepOrder

LEMMA CurlProgressOrder ==
  ASSUME InductiveInvariant, OrderInvariant, NEW j \in Jobs, WorkerStep(CurlProgress(j))
  PROVE  OrderInvariant'
<1>1. CASE jobs[j].cancelRequested
  <2>1. UNCHANGED <<jobs, queueVars, mainVars>>
    BY <1>1 DEF WorkerStep, CurlProgress
  <2> QED
    BY <2>1, WorkerLeavesOrder
<1>2. CASE ~jobs[j].cancelRequested
  <2>1. /\ Apply(j, PostProgress(jobs[j]))
        /\ Posted /\ UNCHANGED mainVars /\ xfer[j].state # "none"
    BY <1>2 DEF WorkerStep, CurlProgress
  <2> QED
    BY <2>1, ProgressIsQuiet, CurlStepOrder
<1> QED
  BY <1>1, <1>2

\* Finished jobs are destroyed.
LEMMA RemoveFinishedOrder ==
  ASSUME InductiveInvariant, OrderInvariant, WorkerStep(RemoveFinished)
  PROVE  OrderInvariant'
<1>1. /\ jobs' = [j \in Jobs |-> IF j \in active \ active' THEN DestroyedJob(j) ELSE jobs[j]]
      /\ \A j \in active \ active' : jobs[j].finished
      /\ UNCHANGED <<queueVars, mainVars>>
  BY DEF WorkerStep, RemoveFinished
<1>2. \A j \in Jobs : jobs'[j].finished = jobs[j].finished /\ jobs'[j].out = <<>>
  <2>1. \A j \in Jobs : DestroyedJob(j).finished = TRUE /\ DestroyedJob(j).out = <<>>
    BY DEF DestroyedJob, FreshJob
  <2>2. \A j \in Jobs : jobs[j].finished \in BOOLEAN
    BY DEF InductiveInvariant, TypeOK, WorkerTypeOK, RestJobs
  <2> QED
    BY <1>1, <2>1, <2>2 DEF OrderInvariant
<1>3. Finished' = Finished
  BY <1>2 DEF Finished
<1>4. /\ UNCHANGED <<events, enabled, outbox, records, log, mpc, batch>>
      /\ InFlight' = InFlight /\ Over' = Over /\ Waiting' = Waiting
  BY <1>1 DEF queueVars, mainVars, InFlight, Over, Waiting, Found
<1>5. Over \subseteq Finished
  BY DEF OrderInvariant, Ordered
<1> QED
  BY <1>2, <1>3, <1>4, <1>5, KeptOrder

\* The steps that neither run a method of a job nor touch the queue.
LEMMA SilentWorkerOrder ==
  ASSUME OrderInvariant,
         \/ WorkerStep(TakePending) \/ WorkerStep(ExitLoop)
         \/ WorkerStep(BeginPerform) \/ WorkerStep(EndPerform)
         \/ \E j \in Jobs : WorkerStep(CurlDone(j))
  PROVE  OrderInvariant'
<1>1. UNCHANGED <<jobs, queueVars, mainVars>>
  BY DEF WorkerStep, TakePending, ExitLoop, BeginPerform, EndPerform, CurlDone
<1> QED
  BY <1>1, WorkerLeavesOrder

LEMMA PostPushOrder ==
  ASSUME InductiveInvariant, OrderInvariant, PostPush, UNCHANGED workerVars, UNCHANGED mainVars
  PROVE  OrderInvariant'
BY InFlightPushed, UnmovedOrder DEF PostPush, workerVars, mainVars

\* The queue is disabled: the event is thrown away.
LEMMA LostEventOrder ==
  ASSUME InductiveInvariant, OrderInvariant, ~enabled, outbox # <<>>, outbox' = Tail(outbox),
         UNCHANGED <<events, enabled>>, UNCHANGED workerVars, UNCHANGED mainVars
  PROVE  OrderInvariant'
<1> DEFINE before  == batch \o events
           rest    == Tail(outbox)
           kept    == before \o rest
           calling == mpc = "callback"
<1>1. /\ batch \in Seq(TransferEvent) /\ events \in Seq(TransferEvent)
      /\ outbox \in Seq(TransferEvent) /\ before \in Seq(TransferEvent)
      /\ rest \in Seq(TransferEvent) /\ Len(rest) = Len(outbox) - 1
      /\ \A i \in 1..Len(rest) : rest[i] = outbox[i + 1]
  BY InFlightType, ConcatProperties, HeadTailProperties
<1>2. InFlight = before \o outbox /\ InFlight' = kept
  BY DEF InFlight, mainVars
<1>3. calling => Len(before) >= 1
  <2>1. calling => batch # <<>>
    BY DEF InductiveInvariant, MainInvariant
  <2>2. Len(before) = Len(batch) + Len(events) /\ Len(events) \in Nat
    BY <1>1, ConcatProperties, LenProperties
  <2>3. batch # <<>> => Len(batch) >= 1
    BY <1>1, EmptySeq
  <2>4. Len(batch) \in Nat
    BY <1>1, LenProperties
  <2> QED
    BY <2>1, <2>2, <2>3, <2>4
<1>4. Ordered(InFlight, calling, Over, Finished, Waiting)
  BY DEF OrderInvariant
<1>5. /\ Over' = Over /\ Finished' = Finished /\ Waiting' = {}
      /\ calling' = calling /\ \A j \in Jobs : jobs'[j].out = <<>>
  BY DEF Over, Finished, Waiting, OrderInvariant, workerVars, mainVars
<1>6. OrderInvariant' <=> Ordered(kept, calling, Over, Finished, {})
  BY <1>2, <1>5 DEF OrderInvariant
<1> HIDE DEF before, rest, calling
<1> DEFINE n == Len(before)
           f == [i \in DOMAIN kept |-> IF i <= n THEN i ELSE i + 1]
<1>7. n \in Nat /\ Len(outbox) \in Nat /\ Len(rest) \in Nat
  BY <1>1, LenProperties
<1>8. /\ DOMAIN kept = 1..(n + Len(rest))
      /\ \A i \in 1..(n + Len(rest)) : kept[i] = IF i <= n THEN before[i] ELSE rest[i - n]
  <2>1. /\ kept \in Seq(TransferEvent) /\ Len(kept) = n + Len(rest)
        /\ \A i \in 1..(n + Len(rest)) : kept[i] = IF i <= n THEN before[i] ELSE rest[i - n]
    BY <1>1, ConcatProperties
  <2> QED
    BY <2>1, LenProperties
<1>9. /\ DOMAIN InFlight = 1..(n + Len(outbox))
      /\ \A i \in 1..(n + Len(outbox)) :
           InFlight[i] = IF i <= n THEN before[i] ELSE outbox[i - n]
  <2>1. /\ InFlight \in Seq(TransferEvent) /\ Len(InFlight) = n + Len(outbox)
        /\ \A i \in 1..(n + Len(outbox)) :
             InFlight[i] = IF i <= n THEN before[i] ELSE outbox[i - n]
    BY <1>1, <1>2, ConcatProperties
  <2> QED
    BY <2>1, LenProperties
<1> HIDE DEF kept, n
<1>10. f \in [DOMAIN kept -> DOMAIN InFlight]
  BY <1>1, <1>7, <1>8, <1>9
<1>11. \A i, k \in DOMAIN kept : i < k => f[i] < f[k]
  BY <1>7, <1>8
<1>12. ASSUME NEW i \in DOMAIN kept
       PROVE  /\ kept[i] = InFlight[f[i]]
              /\ (calling => i > 1) => (calling => f[i] > 1)
  <2>1. CASE i <= n
    <3>1. f[i] = i /\ i \in 1..(n + Len(outbox))
      BY <1>7, <1>8, <2>1
    <3> QED
      BY <1>8, <1>9, <2>1, <3>1
  <2>2. CASE ~(i <= n)
    <3>1. /\ f[i] = i + 1 /\ i + 1 \in 1..(n + Len(outbox)) /\ ~(i + 1 <= n)
          /\ i - n \in 1..Len(rest) /\ (i - n) + 1 = (i + 1) - n /\ i + 1 > 1
      BY <1>1, <1>7, <1>8, <2>2
    <3> HIDE DEF f
    <3>2. kept[i] = rest[i - n] /\ rest[i - n] = outbox[(i + 1) - n]
      BY <1>1, <1>8, <2>2, <3>1
    <3>3. InFlight[i + 1] = outbox[(i + 1) - n]
      BY <1>9, <3>1
    <3> QED
      BY <3>1, <3>2, <3>3
  <2> QED
    BY <2>1, <2>2
<1> HIDE DEF f
<1>13. Ordered(kept, calling, Over, Finished, {})
  BY <1>4, <1>10, <1>11, <1>12, OrderOfSome
<1> QED
  BY <1>6, <1>13

LEMMA PostOrder ==
  ASSUME InductiveInvariant, OrderInvariant,
         WorkerStep((PostCheck \/ PostPush) /\ UNCHANGED workerVars)
  PROVE  OrderInvariant'
<1>1. (PostCheck \/ PostPush) /\ UNCHANGED workerVars /\ UNCHANGED mainVars
  BY DEF WorkerStep
<1>2. CASE PostCheck /\ enabled
  BY <1>1, <1>2, UnmovedOrder DEF PostCheck, workerVars, mainVars, InFlight
<1>3. CASE PostCheck /\ ~enabled
  BY <1>1, <1>3, LostEventOrder DEF PostCheck, Posted
<1> QED
  BY <1>1, <1>2, <1>3, PostPushOrder

----------------------------------------------------------------------------
(* The steps of the main thread *)

\* A step of the main thread between two events.
LEMMA MainStepOrder ==
  ASSUME OrderInvariant, UNCHANGED jobs, InFlight' = InFlight,
         mpc' = mpc \/ mpc # "callback",
         \A j \in Jobs : log'[j].outcome \in Told => log[j].outcome \in Told,
         Waiting' \cap Finished \subseteq Waiting
  PROVE  OrderInvariant'
<1>1. Over' \subseteq Over /\ Over \subseteq Finished /\ Finished' = Finished
  BY DEF Over, Finished, OrderInvariant, Ordered
<1>2. \A j \in Jobs : jobs'[j].out = <<>>
  BY DEF OrderInvariant
<1>3. \A i \in DOMAIN InFlight :
        (mpc' = "callback" => i > 1) =>
          (mpc = "callback" => i > 1) /\ InFlight[i].id \notin Over' \ Over
  BY <1>1
<1> QED
  BY <1>1, <1>2, <1>3, KeptOrder

LEMMA SubmitJobOrder ==
  ASSUME InductiveInvariant, OrderInvariant, SubmitJob
  PROVE  OrderInvariant'
<1>1. nextJobId \in Jobs /\ ~jobs[nextJobId].finished
  BY DEF SubmitJob, InductiveInvariant, TypeOK, RecordTypeOK, JobsInvariant, JobPlaced, Jobs
<1>2. /\ UNCHANGED <<jobs, log, mpc, batch, events, outbox, enabled>>
      /\ records' = [records EXCEPT ![nextJobId] = "idle"]
  BY DEF SubmitJob, unchangedByNatives, queueVars
<1>3. Waiting' \cap Finished \subseteq Waiting
  BY <1>1, <1>2 DEF Waiting, Finished, Found, InductiveInvariant, TypeOK, RecordTypeOK
<1> QED
  BY <1>2, <1>3, MainStepOrder DEF InFlight

\* A native only makes requests of the worker, and drops records.
LEMMA NativeOrder ==
  ASSUME InductiveInvariant, OrderInvariant, UNCHANGED unchangedByNatives,
         \A j \in Jobs : log'[j].outcome \in Told => log[j].outcome \in Told,
         \A j \in Jobs : Found(j)' => Found(j)
  PROVE  OrderInvariant'
<1>1. UNCHANGED <<jobs, mpc, batch, events, outbox, enabled>>
  BY DEF unchangedByNatives, queueVars
<1>2. Waiting' \cap Finished \subseteq Waiting
  BY <1>1 DEF Waiting
<1> QED
  BY <1>1, <1>2, MainStepOrder DEF InFlight

LEMMA CancelledKeepsOutcomes ==
  ASSUME TypeOK, NEW S, Cancelled(S)
  PROVE  \A j \in Jobs : log'[j].outcome = log[j].outcome
BY DEF TypeOK, RecordTypeOK, Cancelled, Log

LEMMA DropJobsEffect ==
  ASSUME TypeOK, NEW S, DropJobs(S)
  PROVE  \A j \in Jobs : /\ log'[j].outcome \in Told => log[j].outcome \in Told
                         /\ j \notin S => Found(j)' = Found(j)
<1>1. "dropped" \notin Told
  BY DEF Told, RestStatus
<1>2. log \in [Jobs -> Log]
  BY DEF TypeOK, RecordTypeOK
<1>3. ASSUME NEW j \in Jobs
      PROVE  log'[j].outcome \in Told => log[j].outcome \in Told
  <2>1. CASE j \in S
    <3>1. log'[j].outcome = "dropped"
      BY <1>2, <2>1 DEF DropJobs, Log
    <3> QED
      BY <1>1, <3>1
  <2>2. CASE j \notin S
    BY <2>2 DEF DropJobs
  <2> QED
    BY <2>1, <2>2
<1>4. \A j \in Jobs : j \notin S => Found(j)' = Found(j)
  BY DEF DropJobs, Found
<1> QED
  BY <1>3, <1>4

LEMMA NativesOrder ==
  ASSUME InductiveInvariant, OrderInvariant, Natives
  PROVE  OrderInvariant'
<1> USE DEF InductiveInvariant
<1>1. ASSUME NEW S, Cancelled(S), UNCHANGED records, UNCHANGED unchangedByNatives
      PROVE  OrderInvariant'
  BY <1>1, CancelledKeepsOutcomes, NativeOrder DEF Found
<1>2. ASSUME NEW S, \A j \in S : Found(j), DropJobs(S), UNCHANGED unchangedByNatives
      PROVE  OrderInvariant'
  BY <1>2, DropJobsEffect, NativeOrder
<1>3. ASSUME NEW j \in Jobs, CancelJob(j) PROVE OrderInvariant'
  BY <1>1, <1>3 DEF CancelJob
<1>4. ASSUME NEW c \in Clients, NEW p \in Plugins, CancelJobsForClient(c, p)
      PROVE  OrderInvariant'
  BY <1>1, <1>4 DEF CancelJobsForClient
<1>5. ASSUME NEW c \in Clients, OnHandleDestroy(c) PROVE OrderInvariant'
  BY <1>2, <1>5 DEF OnHandleDestroy, FoundForClient
<1>6. ASSUME NEW p \in Plugins, OnPluginUnloaded(p) PROVE OrderInvariant'
  BY <1>2, <1>6 DEF OnPluginUnloaded
<1> QED
  BY <1>3, <1>4, <1>5, <1>6, SubmitJobOrder DEF Natives


LEMMA OnGameFrameOrder ==
  ASSUME InductiveInvariant, OrderInvariant, OnGameFrame
  PROVE  OrderInvariant'
<1>1. batch = <<>> /\ mpc # "callback"
  BY DEF OnGameFrame, InductiveInvariant, MainInvariant
<1>2. batch' = events /\ events' = <<>> /\ UNCHANGED <<outbox, jobs, log, records, enabled>>
  BY DEF OnGameFrame, Drain, workerVars
<1>3. InFlight' = InFlight
  BY InFlightDrained
<1>4. Waiting' = Waiting
  BY <1>2 DEF Waiting, Found
<1> QED
  BY <1>1, <1>2, <1>3, <1>4, MainStepOrder

\* Nothing was queued or taken out of the queue.
LEMMA StillOrder ==
  ASSUME OrderInvariant,
         EndFrame \/ BeginUnload \/ StopWorker
  PROVE  OrderInvariant'
<1>1. /\ UNCHANGED <<jobs, log, records, batch, events, outbox>> /\ mpc # "callback"
      /\ enabled' => enabled
  BY DEF EndFrame, BeginUnload, StopWorker, SetEnabled, workerVars, queueVars
<1>2. InFlight' = InFlight /\ Waiting' \cap Finished \subseteq Waiting
  BY <1>1 DEF InFlight, Waiting, Found
<1> QED
  BY <1>1, <1>2, MainStepOrder

LEMMA SkipEventOrder ==
  ASSUME InductiveInvariant, OrderInvariant, SkipEvent
  PROVE  OrderInvariant'
<1>1. /\ batch # <<>> /\ batch' = Tail(batch) /\ mpc' = "batch"
      /\ UNCHANGED <<jobs, queueVars>> /\ UNCHANGED <<log, records>> /\ UNCHANGED enabled
      /\ ~Found(NextEvent.id)
  BY DEF SkipEvent, workerVars, queueVars
<1>2. Over' = Over /\ Waiting' = Waiting /\ NextEvent.id \notin Waiting
  BY <1>1 DEF Over, Waiting, Found
<1> QED
  BY <1>1, <1>2, TailOrder

LEMMA HandleIntermediateOrder ==
  ASSUME InductiveInvariant, OrderInvariant, HandleIntermediate
  PROVE  OrderInvariant'
<1>1. /\ batch # <<>> /\ mpc = "batch" /\ Found(NextEvent.id)
      /\ UNCHANGED <<jobs, batch, events, outbox, enabled>>
      /\ records' = [records EXCEPT ![NextEvent.id] = "dispatching"]
      /\ LogIntermediate(NextEvent, TRUE)
  BY DEF HandleIntermediate, workerVars, queueVars
<1>2. \A j \in Jobs : log'[j].outcome = log[j].outcome
  BY <1>1, LogIntermediateEffect DEF InductiveInvariant
<1>3. InFlight' = InFlight /\ Waiting' \cap Finished \subseteq Waiting
  BY <1>1 DEF InFlight, Waiting, Found, InductiveInvariant, TypeOK, RecordTypeOK
<1> QED
  BY <1>1, <1>2, <1>3, MainStepOrder

LEMMA HandleIntermediateUnheardOrder ==
  ASSUME InductiveInvariant, OrderInvariant, HandleIntermediateUnheard
  PROVE  OrderInvariant'
<1>1. /\ batch # <<>> /\ batch' = Tail(batch) /\ mpc' = "batch"
      /\ UNCHANGED <<jobs, queueVars>> /\ UNCHANGED records /\ UNCHANGED enabled
      /\ NextEvent.kind # "Complete" /\ LogIntermediate(NextEvent, FALSE)
  BY DEF HandleIntermediateUnheard, queueVars
<1>2. \A j \in Jobs : log'[j].outcome = log[j].outcome
  BY <1>1, LogIntermediateEffect DEF InductiveInvariant
<1>3. Over' = Over /\ Waiting' = Waiting
  BY <1>1, <1>2 DEF Over, Waiting, Found
<1> QED
  BY <1>1, <1>3, TailOrder

\* What handling a Complete event does to the record and the log of its request.
LEMMA CompleteEffect ==
  ASSUME InductiveInvariant, batch # <<>>, NEW entry,
         records' = [records EXCEPT ![NextEvent.id] = "absent"],
         log' = [log EXCEPT ![NextEvent.id] = entry], UNCHANGED enabled
  PROVE  /\ Over' \subseteq Over \cup {NextEvent.id}
         /\ Waiting' \subseteq Waiting /\ NextEvent.id \notin Waiting'
BY NextEventType DEF InductiveInvariant, TypeOK, RecordTypeOK, Over, Waiting, Found

LEMMA DispatchCompleteOrder ==
  ASSUME InductiveInvariant, OrderInvariant, DispatchComplete
  PROVE  OrderInvariant'
<1> DEFINE j == NextEvent.id
           entry == [log[j] EXCEPT !.outcome = NextEvent.status, !.length = NextEvent.n]
<1>1. /\ batch # <<>> /\ mpc = "batch" /\ NextEvent.kind = "Complete"
      /\ UNCHANGED <<jobs, batch, events, outbox>> /\ UNCHANGED enabled
      /\ records' = [records EXCEPT ![j] = "absent"]
      /\ mpc' = "callback"
  BY DEF DispatchComplete, workerVars, queueVars
<1>2. log' = [log EXCEPT ![j] = entry]
  BY DEF DispatchComplete
<1>3. Over' \subseteq Over \cup {j} /\ Waiting' \subseteq Waiting
  BY <1>1, <1>2, CompleteEffect
<1>4. InFlight' = InFlight /\ Finished' = Finished
  BY <1>1 DEF InFlight, Finished
<1>5. /\ InFlight \in Seq(TransferEvent) /\ InFlight # <<>> /\ InFlight[1] = NextEvent
  BY <1>1, InFlightType, OldestInFlight
<1>6. 1 \in DOMAIN InFlight /\ DOMAIN InFlight = 1..Len(InFlight)
  <2>1. Len(InFlight) \in Nat \ {0} /\ DOMAIN InFlight = 1..Len(InFlight)
    BY <1>5, EmptySeq, LenProperties
  <2> QED
    BY <2>1
<1>7. /\ Over \subseteq Finished /\ j \in Finished
      /\ \A i \in DOMAIN InFlight : i > 1 => InFlight[i].id # j
  <2>1. \A i, k \in DOMAIN InFlight :
          i < k /\ InFlight[i].id = InFlight[k].id => InFlight[i].kind # "Complete"
    BY DEF OrderInvariant, Ordered
  <2>2. \A i \in DOMAIN InFlight : i > 1 => 1 < i
    BY <1>6
  <2>3. Over \subseteq Finished /\ j \in Finished
    BY <1>1, <1>5, <1>6 DEF OrderInvariant, Ordered
  <2> QED
    BY <1>1, <1>5, <1>6, <2>1, <2>2, <2>3
<1>8. \A i \in Jobs : jobs'[i].out = <<>>
  BY <1>1 DEF OrderInvariant
<1>9. \A i \in DOMAIN InFlight :
        (mpc' = "callback" => i > 1) =>
          (mpc = "callback" => i > 1) /\ InFlight[i].id \notin Over' \ Over
  BY <1>1, <1>3, <1>7
<1> HIDE DEF j
<1> QED
  BY <1>3, <1>4, <1>7, <1>8, <1>9, KeptOrder

LEMMA DispatchCompleteUnheardOrder ==
  ASSUME InductiveInvariant, OrderInvariant, DispatchCompleteUnheard
  PROVE  OrderInvariant'
<1> DEFINE j == NextEvent.id
           entry == [log[j] EXCEPT !.outcome = "lost"]
<1>1. /\ batch # <<>> /\ batch' = Tail(batch) /\ mpc' = "batch"
      /\ UNCHANGED <<jobs, queueVars>> /\ UNCHANGED enabled
      /\ NextEvent.kind = "Complete"
      /\ records' = [records EXCEPT ![j] = "absent"]
  BY DEF DispatchCompleteUnheard, workerVars, queueVars
<1>2. log' = [log EXCEPT ![j] = entry]
  BY DEF DispatchCompleteUnheard
<1>3. Over' \subseteq Over \cup {j} /\ Waiting' \subseteq Waiting /\ j \notin Waiting'
  BY <1>1, <1>2, CompleteEffect
<1> QED
  BY <1>1, <1>3, TailOrder

LEMMA ReturnFromCallbackOrder ==
  ASSUME InductiveInvariant, OrderInvariant, NEW handled \in BOOLEAN,
         ReturnFromCallback(handled)
  PROVE  OrderInvariant'
<1> DEFINE j == NextEvent.id
<1>1. /\ batch # <<>> /\ mpc = "callback" /\ batch' = Tail(batch) /\ mpc' = "batch"
      /\ UNCHANGED <<jobs, queueVars>> /\ UNCHANGED enabled
      /\ records' = [records EXCEPT ![j] = AfterDispatch(@)]
      /\ log' = IF handled THEN [log EXCEPT ![j].cancelled = TRUE] ELSE log
  BY DEF ReturnFromCallback, queueVars, InductiveInvariant, MainInvariant
<1>2. /\ j \in Jobs /\ records \in [Jobs -> RecordState] /\ log \in [Jobs -> Log]
  BY <1>1, NextEventType DEF InductiveInvariant, TypeOK, RecordTypeOK
<1>3. \A i \in Jobs : log'[i].outcome = log[i].outcome
  BY <1>1, <1>2 DEF Log
<1>4. Over' = Over
  BY <1>3 DEF Over
<1>5. records'[j] # "absent" => records[j] = "dispatching"
  BY <1>1, <1>2 DEF AfterDispatch
<1>6. Waiting' \subseteq Waiting
  BY <1>1, <1>2, <1>5 DEF Waiting, Found
<1>7. NextEvent.kind = "Complete" => j \notin Waiting'
  <2>1. NextEvent.kind = "Complete" => records[j] # "dispatching"
    BY <1>1, <1>2 DEF InductiveInvariant, MainInvariant, RecordPlaced
  <2> QED
    BY <1>5, <2>1 DEF Waiting, Found
<1> QED
  BY <1>1, <1>4, <1>6, <1>7, TailOrder

LEMMA FinishUnloadOrder ==
  ASSUME InductiveInvariant, OrderInvariant, FinishUnload
  PROVE  OrderInvariant'
<1>1. batch' = <<>> /\ events' = <<>> /\ outbox' = <<>>
  BY DEF FinishUnload, Drain, ThreadJoined, InductiveInvariant, MainInvariant,
         WorkerInvariant, Posted
<1>2. InFlight' = <<>> /\ DOMAIN InFlight' = {}
  <2>1. InFlight' = <<>>
    <3>1. <<>> \o <<>> = <<>>
      BY InFlightType, ConcatEmptySeq, EmptySeq
    <3> QED
      BY <1>1, <3>1 DEF InFlight
  <2> QED
    BY <2>1
<1>3. \A j \in Jobs : jobs'[j].out = <<>> /\ (jobs[j].finished => jobs'[j].finished)
  <2>1. \A j \in Jobs : DestroyedJob(j).finished /\ DestroyedJob(j).out = <<>>
    BY DEF DestroyedJob, FreshJob
  <2>2. \A j \in Jobs : jobs'[j] = DestroyedJob(j) \/ jobs'[j] = jobs[j]
    BY DEF FinishUnload
  <2> QED
    BY <2>1, <2>2 DEF OrderInvariant
<1>4. "dropped" \notin Told
  BY DEF Told, RestStatus
<1>5. Over' \subseteq Over
  <2>1. \A j \in Jobs : log'[j].outcome \in Told => log[j].outcome \in Told
    BY <1>4 DEF FinishUnload, InductiveInvariant, TypeOK, RecordTypeOK, Log
  <2> QED
    BY <2>1 DEF Over
<1>6. Over' \subseteq Finished'
  BY <1>3, <1>5 DEF Finished, OrderInvariant, Ordered
<1>7. Waiting' = {}
  BY DEF FinishUnload, Waiting, Found
<1> QED
  BY <1>2, <1>3, <1>6, <1>7 DEF OrderInvariant, Ordered

----------------------------------------------------------------------------
(* Every step *)

LEMMA InitOrder == Init => OrderInvariant
<1> SUFFICES ASSUME Init PROVE OrderInvariant
  OBVIOUS
<1>1. /\ batch = <<>> /\ events = <<>> /\ outbox = <<>>
      /\ \A j \in Jobs : log[j].outcome = "none" /\ ~Found(j)
      /\ \A j \in Jobs : jobs[j].out = <<>>
  BY DEF Init, QueueInit, WorkerInit, FreshJob, Found
<1>2. InFlight = <<>> /\ DOMAIN InFlight = {}
  <2>1. <<>> \o <<>> = <<>>
    BY ConcatEmptySeq, EmptySeq
  <2> QED
    BY <1>1, <2>1 DEF InFlight
<1>3. Over = {} /\ Waiting = {}
  BY <1>1 DEF Over, Waiting, Told, RestStatus
<1> QED
  BY <1>1, <1>2, <1>3 DEF OrderInvariant, Ordered

LEMMA MainControlOrder ==
  ASSUME InductiveInvariant, OrderInvariant, MainControl
  PROVE  OrderInvariant'
<1>1. ASSUME NEW handled \in BOOLEAN, ReturnFromCallback(handled) PROVE OrderInvariant'
  BY <1>1, ReturnFromCallbackOrder
<1> QED
  BY <1>1, OnGameFrameOrder, SkipEventOrder, HandleIntermediateOrder,
     HandleIntermediateUnheardOrder, DispatchCompleteOrder, DispatchCompleteUnheardOrder,
     StillOrder, FinishUnloadOrder
     DEF MainControl

LEMMA WorkerNextOrder ==
  ASSUME InductiveInvariant, OrderInvariant, WorkerNext
  PROVE  OrderInvariant'
<1>1. ASSUME NEW j \in Jobs,
             \/ WorkerStep(AdmitIncoming(j)) \/ WorkerStep(ApplyCancellation(j))
             \/ WorkerStep(StartDueRetry(j)) \/ WorkerStep(ReapCompleted(j))
      PROVE  OrderInvariant'
  BY <1>1, AdmitIncomingOrder, ApplyCancellationOrder, StartDueRetryOrder, ReapCompletedOrder
<1>2. ASSUME NEW j \in Jobs,
             \/ \E status \in Statuses : WorkerStep(CurlHeaders(j, status))
             \/ WorkerStep(CurlTrailers(j))
             \/ WorkerStep(CurlProgress(j)) \/ WorkerStep(CurlDone(j))
      PROVE  OrderInvariant'
  BY <1>2, CurlHeadersOrder, CurlTrailersOrder, CurlProgressOrder, SilentWorkerOrder
<1>3. ASSUME NEW j \in Jobs, NEW total \in 1..MaxWrite,
             WorkerStep(CurlWrite(j, total)) \/ WorkerStep(CurlWriteStream(j, total))
      PROVE  OrderInvariant'
  BY <1>3, CurlWritesOrder
<1> QED
  BY <1>1, <1>2, <1>3, PostOrder, SilentWorkerOrder, ApplyConsumedOrder, RemoveFinishedOrder
     DEF WorkerNext

LEMMA NextOrder ==
  InductiveInvariant /\ OrderInvariant /\ [Next]_vars => OrderInvariant'
<1> SUFFICES ASSUME InductiveInvariant, OrderInvariant, [Next]_vars PROVE OrderInvariant'
  OBVIOUS
<1>1. ASSUME UNCHANGED vars PROVE OrderInvariant'
  BY <1>1, UnaffectedOrder DEF vars, workerVars, queueVars, mainVars, orderVars
<1> QED
  BY <1>1, NativesOrder, MainControlOrder, StillOrder, WorkerNextOrder DEF Next, Unloaded

----------------------------------------------------------------------------
(* The theorems *)

\* The events on their way are in order, whatever the number of requests: the
\* Complete event of a job is posted once, last and by no job that goes on, and
\* is there while a plugin waits for it (RestJob::Finish, MainThreadQueue).
THEOREM EventsInOrder == Spec => []OrderInvariant
BY InitOrder, NextOrder, InductiveInvariantHolds, PTL DEF Spec

\* A plugin that waits for a request that is over has its Complete event coming,
\* as long as the queue is enabled (RestJob::Finish, MainThreadQueue::Post).
THEOREM CompletionsArrive == Spec => []CompletionOwed
<1>1. OrderInvariant => CompletionOwed
  BY DEF OrderInvariant, Ordered, CompletionOwed, Waiting, Finished
<1> QED
  BY <1>1, EventsInOrder, PTL

\* No event follows the Complete event of its request, in the queue or at the
\* plugin (RestJob::ReleaseEasy before Finish, FlushStream before Finish).
THEOREM CompletionsComeLast == Spec => []CompleteIsLast
<1>1. InductiveInvariant /\ OrderInvariant => CompleteIsLast
  <2> SUFFICES ASSUME InductiveInvariant, OrderInvariant PROVE CompleteIsLast
    OBVIOUS
  <2>1. \A i, k \in DOMAIN InFlight :
          i < k /\ InFlight[i].id = InFlight[k].id => InFlight[i].kind # "Complete"
    BY DEF OrderInvariant, Ordered
  <2>2. \A i \in DOMAIN InFlight :
          (mpc = "callback" => i > 1) => InFlight[i].id \notin Over
    BY DEF OrderInvariant, Ordered
  <2>3. ASSUME NEW i \in DOMAIN Undelivered
        PROVE  Undelivered[i].id \in Jobs /\ Undelivered[i].id \notin Over
    <3>1. \A k \in DOMAIN InFlight : InFlight[k].id \in Jobs
      <4>1. \A k \in DOMAIN InFlight : InFlight[k] \in TransferEvent
        BY InFlightType
      <4>2. \A e \in TransferEvent : e.id \in Jobs
        BY DEF TransferEvent
      <4> QED
        BY <4>1, <4>2
    <3>2. CASE mpc # "callback"
      BY <2>2, <3>1, <3>2 DEF Undelivered
    <3>3. CASE mpc = "callback"
      <4>1. InFlight \in Seq(TransferEvent) /\ InFlight # <<>> /\ Undelivered = Tail(InFlight)
        BY <3>3, InFlightType, OldestInFlight
           DEF Undelivered, InductiveInvariant, MainInvariant
      <4>2. /\ Len(InFlight) \in Nat /\ DOMAIN InFlight = 1..Len(InFlight)
            /\ Tail(InFlight) \in Seq(TransferEvent) /\ Len(Tail(InFlight)) = Len(InFlight) - 1
            /\ DOMAIN Tail(InFlight) = 1..Len(Tail(InFlight))
            /\ \A k \in 1..Len(Tail(InFlight)) : Tail(InFlight)[k] = InFlight[k + 1]
        BY <4>1, HeadTailProperties, LenProperties
      <4>3. i + 1 \in DOMAIN InFlight /\ i + 1 > 1 /\ Undelivered[i] = InFlight[i + 1]
        BY <4>1, <4>2
      <4> QED
        BY <2>2, <3>1, <4>3
    <3> QED
      BY <3>2, <3>3
  <2> QED
    BY <2>1, <2>3 DEF CompleteIsLast, Over
<1> QED
  BY <1>1, EventsInOrder, InductiveInvariantHolds, PTL

----------------------------------------------------------------------------
(* What a method of a job posts and keeps *)

\* What a call on a job that was old has made of it so far: data is posted only
\* if the headers were before, and what is kept and posted is within its cap.
Carries(job, old, id) ==
  /\ job \in RestJobs /\ job.id = id
  /\ job.out \in Seq(PlainEvent)
  /\ \A i \in DOMAIN job.out : job.out[i].id = id
  /\ BodyKept(job)
  /\ id \in HeaderJobs =>
       /\ \A i \in DOMAIN job.out : job.out[i].kind = "Data" => old.headersPosted
       /\ job.headersPosted =>
            old.headersPosted \/ \E i \in DOMAIN job.out : job.out[i].kind = "Headers"
       /\ job.streamBuffer > 0 => job.headersPosted

LEMMA EventIsPlain ==
  ASSUME NEW kind \in EventKind, NEW id \in Jobs, NEW n \in Nat, NEW status \in RestStatus,
         kind \in {"Headers", "Progress"} => n = 0,
         kind = "Complete" /\ status = "Ok" /\ id \notin FileJobs \cup StreamJobs =>
           n <= MaxBodySize
  PROVE  /\ Event(kind, id, n, status) \in PlainEvent
         /\ Event(kind, id, n, status).id = id /\ Event(kind, id, n, status).kind = kind
BY EventType DEF Event, PlainEvent

\* Other members change.
LEMMA ChangeCarries ==
  ASSUME NEW job, NEW old, NEW id, Carries(job, old, id),
         NEW new \in RestJobs, new.id = job.id, new.out = job.out, BodyKept(new),
         id \in HeaderJobs =>
           /\ new.headersPosted =>
                job.headersPosted \/ \E i \in DOMAIN job.out : job.out[i].kind = "Headers"
           /\ new.streamBuffer > 0 => new.headersPosted
  PROVE  Carries(new, old, id)
BY DEF Carries

LEMMA PostCarries ==
  ASSUME NEW job, NEW old, NEW id \in Jobs, Carries(job, old, id), NEW event \in PlainEvent,
         event.id = id, id \in HeaderJobs /\ event.kind = "Data" => old.headersPosted
  PROVE  /\ Carries(Post(job, event), old, id)
         /\ \E i \in DOMAIN Post(job, event).out : Post(job, event).out[i] = event
<1> DEFINE new == Post(job, event)
<1>1. /\ job \in RestJobs /\ job.out \in Seq(PlainEvent) /\ event \in TransferEvent
  BY DEF Carries, PlainEvent
<1>2. /\ new \in RestJobs /\ new.id = id /\ new.finished = job.finished
      /\ new.headersPosted = job.headersPosted /\ new.streamBuffer = job.streamBuffer
      /\ new.responseBody = job.responseBody /\ new.bodyLength = job.bodyLength
  <2>1. new \in RestJobs
    BY <1>1, PostType
  <2> QED
    BY <1>1, <2>1 DEF Post, RestJobs, Carries
<1>3. new.out = Append(job.out, event)
  BY <1>1 DEF Post, RestJobs
<1> HIDE DEF new
<1>4. /\ new.out \in Seq(PlainEvent) /\ DOMAIN new.out = 1..(Len(job.out) + 1)
      /\ new.out[Len(job.out) + 1] = event /\ DOMAIN job.out = 1..Len(job.out)
      /\ \A i \in 1..Len(job.out) : new.out[i] = job.out[i]
  BY <1>1, <1>3
<1>5. Len(job.out) + 1 \in DOMAIN new.out
  BY <1>1, <1>4
<1>6. ASSUME NEW i \in DOMAIN new.out
      PROVE  /\ new.out[i].id = id
             /\ id \in HeaderJobs /\ new.out[i].kind = "Data" => old.headersPosted
  <2>1. CASE i = Len(job.out) + 1
    BY <1>4, <2>1
  <2>2. CASE i # Len(job.out) + 1
    <3>1. i \in DOMAIN job.out /\ new.out[i] = job.out[i]
      BY <1>1, <1>4, <2>2
    <3> QED
      BY <3>1 DEF Carries
  <2> QED
    BY <2>1, <2>2
<1>7. BodyKept(new)
  BY <1>2 DEF Carries, BodyKept, IsPrimary
<1>8. id \in HeaderJobs =>
        /\ new.headersPosted =>
             old.headersPosted \/ \E i \in DOMAIN new.out : new.out[i].kind = "Headers"
        /\ new.streamBuffer > 0 => new.headersPosted
  <2>1. \A i \in DOMAIN job.out : i \in DOMAIN new.out /\ new.out[i] = job.out[i]
    BY <1>1, <1>4
  <2> QED
    BY <1>2, <2>1 DEF Carries
<1>9. Carries(new, old, id)
  BY <1>2, <1>4, <1>6, <1>7, <1>8 DEF Carries
<1> QED
  BY <1>4, <1>5, <1>9 DEF new

LEMMA FinishCarries ==
  ASSUME NEW job, NEW old, NEW id \in Jobs, Carries(job, old, id), ~job.finished,
         NEW status \in RestStatus
  PROVE  Carries(Finish(job, status), old, id)
<1> DEFINE ended == [job EXCEPT !.finished = TRUE, !.waitingForRetry = FALSE,
                                !.responseBody = 0]
           event == Event("Complete", job.id, job.bodyLength, status)
<1>1. /\ ended \in RestJobs /\ ended.id = job.id /\ ended.out = job.out
      /\ ended.headersPosted = job.headersPosted /\ ended.streamBuffer = job.streamBuffer
      /\ ended.finished /\ ended.responseBody = 0
  BY DEF Carries, RestJobs
<1>2. BodyKept(ended)
  BY <1>1, RestJobAssumption DEF BodyKept
<1>3. event \in PlainEvent /\ event.id = id /\ event.kind = "Complete"
  <2>1. id \notin FileJobs \cup StreamJobs => job.bodyLength <= MaxBodySize
    BY DEF Carries, BodyKept, IsPrimary
  <2>2. job.id = id /\ job.bodyLength \in Nat
    BY DEF Carries, RestJobs
  <2> QED
    BY <2>1, <2>2, EventIsPlain DEF EventKind
<1>4. Finish(job, status) = Post(ended, event)
  BY DEF Finish
<1> HIDE DEF ended, event
<1>5. Carries(ended, old, id)
  BY <1>1, <1>2, ChangeCarries DEF Carries
<1> QED
  BY <1>3, <1>4, <1>5, PostCarries

LEMMA FlushCarries ==
  ASSUME NEW job, NEW old, NEW id \in Jobs, Carries(job, old, id),
         id \in HeaderJobs => old.headersPosted \/ job.streamBuffer = 0
  PROVE  Carries(FlushStream(job), old, id)
<1>1. CASE job.streamBuffer = 0
  BY <1>1 DEF FlushStream
<1>2. CASE job.streamBuffer # 0
  <2> DEFINE flushed == [job EXCEPT !.pendingStreamBytes = @ + job.streamBuffer,
                                    !.streamBuffer = 0]
             event == Event("Data", job.id, job.streamBuffer, "Ok")
  <2>1. /\ flushed \in RestJobs /\ flushed.id = job.id /\ flushed.out = job.out
        /\ flushed.headersPosted = job.headersPosted /\ flushed.streamBuffer = 0
        /\ flushed.finished = job.finished /\ flushed.responseBody = job.responseBody
        /\ flushed.bodyLength = job.bodyLength
    <3>1. job.pendingStreamBytes + job.streamBuffer \in Nat
      BY DEF Carries, RestJobs
    <3> QED
      BY <3>1 DEF Carries, RestJobs
  <2>2. event \in PlainEvent /\ event.id = id /\ event.kind = "Data"
    BY EventIsPlain DEF Carries, RestJobs, EventKind, RestStatus
  <2>3. FlushStream(job) = Post(flushed, event)
    BY <1>2 DEF FlushStream
  <2>4. BodyKept(flushed)
    BY <2>1 DEF Carries, BodyKept, IsPrimary
  <2> HIDE DEF flushed, event
  <2>5. Carries(flushed, old, id)
    BY <2>1, <2>4, ChangeCarries
  <2> QED
    BY <1>2, <2>2, <2>3, <2>5, PostCarries
<1> QED
  BY <1>1, <1>2

LEMMA BeginAttemptCarries ==
  ASSUME NEW job, NEW id \in Jobs, Carries(job, job, id), ~job.finished,
         NEW outcome \in BeginOutcomes(job)
  PROVE  /\ Carries(BeginAttempt(job, outcome), job, id)
         /\ BeginAttempt(job, outcome).streamBuffer = 0
<1> DEFINE fresh == ResetAttemptState([job EXCEPT !.attempt = @ + 1])
           added == [fresh EXCEPT !.attached = TRUE]
<1>1. /\ fresh \in RestJobs /\ fresh.id = job.id /\ fresh.out = job.out
      /\ ~fresh.headersPosted /\ fresh.streamBuffer = 0 /\ ~fresh.finished
      /\ fresh.responseBody = 0 /\ fresh.bodyLength = 0
  <2>1. job \in RestJobs /\ job.attempt + 1 \in Nat
    BY DEF Carries, RestJobs
  <2> QED
    BY <2>1 DEF ResetAttemptState, RestJobs
<1>2. /\ added \in RestJobs /\ added.id = job.id /\ added.out = job.out
      /\ ~added.headersPosted /\ added.streamBuffer = 0
      /\ added.responseBody = 0 /\ added.bodyLength = 0
  <2> HIDE DEF fresh
  <2> QED
    BY <1>1 DEF RestJobs
<1>3. \/ \E status \in RestStatus : BeginAttempt(job, outcome) = Finish(fresh, status)
      \/ BeginAttempt(job, outcome) = added
  BY DEF BeginAttempt, RestStatus
<1> HIDE DEF fresh, added
<1>4. BodyKept(fresh) /\ BodyKept(added)
  BY <1>1, <1>2, RestJobAssumption DEF BodyKept
<1>5. Carries(fresh, job, id)
  BY <1>1, <1>4, ChangeCarries
<1>6. Carries(added, job, id)
  BY <1>2, <1>4, ChangeCarries
<1>7. \A status \in RestStatus : Finish(fresh, status).streamBuffer = 0
  BY <1>1 DEF Finish, Post, RestJobs
<1> QED
  BY <1>1, <1>2, <1>3, <1>5, <1>6, <1>7, FinishCarries

LEMMA CancelCarries ==
  ASSUME NEW job, NEW id \in Jobs, Carries(job, job, id), ~job.finished
  PROVE  Carries(Cancel(job), job, id)
<1> DEFINE released == [job EXCEPT !.cancelRequested = TRUE, !.attached = FALSE]
<1>1. /\ released \in RestJobs /\ released.id = job.id /\ released.out = job.out
      /\ released.headersPosted = job.headersPosted
      /\ released.streamBuffer = job.streamBuffer /\ released.finished = job.finished
      /\ released.responseBody = job.responseBody /\ released.bodyLength = job.bodyLength
  BY DEF Carries, RestJobs
<1>2. Cancel(job) = Finish(released, "Cancelled")
  BY DEF Cancel
<1> HIDE DEF released
<1>3. Carries(released, job, id)
  BY <1>1, ChangeCarries DEF Carries, BodyKept, IsPrimary
<1> QED
  BY <1>1, <1>2, <1>3, FinishCarries DEF RestStatus

LEMMA OnAttemptDoneCarries ==
  ASSUME NEW job, NEW id \in Jobs, Carries(job, job, id), ~job.finished,
         id \in HeaderJobs => job.headersPosted \/ job.streamBuffer = 0,
         NEW code \in CurlCode, NEW status \in Nat, NEW renamed \in BOOLEAN
  PROVE  Carries(OnAttemptDone(job, code, status, renamed), job, id)
<1> DEFINE released == [job EXCEPT !.attached = FALSE]
           new      == OnAttemptDone(job, code, status, renamed)
<1>1. /\ released \in RestJobs /\ released.id = job.id /\ released.out = job.out
      /\ released.headersPosted = job.headersPosted
      /\ released.streamBuffer = job.streamBuffer /\ released.finished = job.finished
      /\ released.responseBody = job.responseBody /\ released.bodyLength = job.bodyLength
  BY DEF Carries, RestJobs
<1>2. \/ new = ScheduleRetry(released)
      \/ \E s \in RestStatus : new = Finish(released, s)
      \/ new = Finish(FlushStream(released), "Ok")
  <2>1. \/ new = HandleTransportFailure(released, code)
        \/ new = HandleHttpSuccess(released, renamed)
        \/ new = HandleHttpFailure(released, status)
        \/ new = Finish(released, "Cancelled")
    BY DEF OnAttemptDone
  <2> HIDE DEF new, released
  <2> QED
    BY <2>1 DEF HandleTransportFailure, HandleHttpSuccess, HandleHttpFailure, RestStatus
<1> HIDE DEF released
<1>3. Carries(released, job, id)
  BY <1>1, ChangeCarries DEF Carries, BodyKept, IsPrimary
<1>4. Carries(ScheduleRetry(released), job, id)
  <2> DEFINE waiting == ScheduleRetry(released)
  <2>1. /\ waiting \in RestJobs /\ waiting.id = released.id /\ waiting.out = released.out
        /\ waiting.headersPosted = released.headersPosted
        /\ waiting.streamBuffer = released.streamBuffer
        /\ waiting.finished = released.finished
        /\ waiting.responseBody = released.responseBody
        /\ waiting.bodyLength = released.bodyLength
    BY <1>1 DEF ScheduleRetry, RestJobs
  <2> HIDE DEF waiting
  <2> QED
    BY <1>3, <2>1, ChangeCarries DEF Carries, BodyKept, IsPrimary, waiting
<1>5. Carries(FlushStream(released), job, id) /\ ~FlushStream(released).finished
  <2>1. SameControl(FlushStream(released), released)
    BY <1>1, FlushStreamEffect
  <2> QED
    BY <1>1, <1>3, <2>1, FlushCarries DEF SameControl
<1> QED
  BY <1>1, <1>2, <1>3, <1>4, <1>5, FinishCarries DEF RestStatus

LEMMA OnHeadersCompleteCarries ==
  ASSUME NEW job, NEW old, NEW id \in Jobs, Carries(job, old, id), NEW status \in Nat,
         NEW redirected \in BOOLEAN
  PROVE  /\ Carries(OnHeadersComplete(job, status, redirected), old, id)
         /\ id \in HeaderJobs /\ status >= 200 /\ ~redirected =>
              OnHeadersComplete(job, status, redirected).headersPosted
         /\ OnHeadersComplete(job, status, redirected).streamBuffer = job.streamBuffer
<1> DEFINE new    == OnHeadersComplete(job, status, redirected)
           posted == [job EXCEPT !.headersPosted = TRUE]
           event  == Event("Headers", job.id, 0, "Ok")
<1>1. job \in RestJobs /\ job.id = id
  BY DEF Carries
<1>2. CASE id \in HeaderJobs /\ ~job.headersPosted /\ status >= 200 /\ ~redirected
  <2>1. new = Post(posted, event)
    BY <1>1, <1>2 DEF OnHeadersComplete
  <2>2. event \in PlainEvent /\ event.id = id /\ event.kind = "Headers"
    BY <1>1, EventIsPlain DEF EventKind, RestStatus
  <2>3. /\ posted \in RestJobs /\ posted.out = job.out /\ posted.id = id
        /\ posted.finished = job.finished /\ posted.bodyLength = job.bodyLength
        /\ posted.responseBody = job.responseBody /\ posted.headersPosted
        /\ posted.streamBuffer = job.streamBuffer
    BY <1>1 DEF RestJobs
  <2> HIDE DEF event, posted
  <2> DEFINE sent == Post(job, event)
  <2>4. Carries(sent, old, id) /\ \E i \in DOMAIN sent.out : sent.out[i] = event
    BY <2>2, PostCarries
  <2>5. /\ new \in RestJobs /\ new.id = id /\ new.out = sent.out
        /\ new.finished = sent.finished /\ new.bodyLength = sent.bodyLength
        /\ new.responseBody = sent.responseBody /\ new.headersPosted
        /\ new.streamBuffer = job.streamBuffer
    <3>1. event \in TransferEvent
      BY <2>2 DEF PlainEvent
    <3>2. new \in RestJobs
      BY <2>1, <2>3, <3>1, PostType
    <3> QED
      BY <1>1, <2>1, <2>3, <3>2 DEF Post, RestJobs
  <2> HIDE DEF new, sent
  <2>6. BodyKept(new)
    BY <2>4, <2>5 DEF Carries, BodyKept, IsPrimary
  <2>7. Carries(new, old, id)
    BY <2>2, <2>4, <2>5, <2>6, ChangeCarries DEF Carries
  <2> QED
    BY <2>5, <2>7 DEF new
<1>3. CASE ~(id \in HeaderJobs /\ ~job.headersPosted /\ status >= 200 /\ ~redirected)
  <2>1. new = job
    BY <1>1, <1>3 DEF OnHeadersComplete
  <2> QED
    BY <1>3, <2>1 DEF Carries
<1> QED
  BY <1>2, <1>3

\* Only a job without streamed data in hand sees the beginning of a block.
LEMMA OnHeaderBlockCarries ==
  ASSUME NEW job, NEW id \in Jobs, Carries(job, job, id), NEW status \in Nat,
         NEW redirected \in BOOLEAN, id \in HeaderJobs => job.streamBuffer = 0
  PROVE  /\ Carries(OnHeaderBlock(job, status, redirected), job, id)
         /\ id \in HeaderJobs /\ status >= 200 /\ ~redirected =>
              OnHeaderBlock(job, status, redirected).headersPosted
         /\ OnHeaderBlock(job, status, redirected).streamBuffer = job.streamBuffer
<1> DEFINE started == [job EXCEPT !.headersPosted = FALSE]
<1>1. /\ started \in RestJobs /\ started.out = job.out /\ started.id = job.id
      /\ started.finished = job.finished /\ started.bodyLength = job.bodyLength
      /\ started.responseBody = job.responseBody /\ ~started.headersPosted
      /\ started.streamBuffer = job.streamBuffer
  BY DEF Carries, RestJobs
<1>2. OnHeaderBlock(job, status, redirected) = OnHeadersComplete(started, status, redirected)
  BY DEF OnHeaderBlock
<1> HIDE DEF started
<1>3. Carries(started, job, id)
  BY <1>1, ChangeCarries DEF Carries, BodyKept, IsPrimary
<1> QED
  BY <1>1, <1>2, <1>3, OnHeadersCompleteCarries

LEMMA WriteMemoryCarries ==
  ASSUME NEW job, NEW id \in Jobs, Carries(job, job, id), ~job.finished, NEW total \in Nat
  PROVE  /\ Carries(WriteMemory(job, total), job, id)
         /\ WriteMemory(job, total).headersPosted = job.headersPosted
         /\ WriteMemory(job, total).streamBuffer = job.streamBuffer
<1> DEFINE new == WriteMemory(job, total)
           cap == IF IsPrimary(job) THEN MaxBodySize ELSE MaxErrorBody
<1>1. job \in RestJobs /\ BodyKept(job) /\ cap \in Nat
  BY RestJobAssumption DEF Carries
<1>2. /\ new \in RestJobs /\ new.id = job.id /\ new.finished = job.finished
      /\ new.headersPosted = job.headersPosted /\ new.streamBuffer = job.streamBuffer
      /\ new.out = job.out
  <2>1. new \in RestJobs
    BY <1>1, WriteMemoryEffect
  <2> QED
    BY <1>1, <2>1 DEF WriteMemory, RestJobs
<1>3. job.responseBody \in Nat /\ job.bodyLength \in Nat /\ job.responseBody <= cap
  BY <1>1 DEF BodyKept, RestJobs
<1>4. Room(job) = cap - job.responseBody
  <2>1. Room(job) = IF cap > job.responseBody THEN cap - job.responseBody ELSE 0
    BY DEF Room
  <2> HIDE DEF cap
  <2> QED
    BY <1>1, <1>3, <2>1
<1>5. CASE total > Room(job) /\ IsPrimary(job)
  <2>1. new.responseBody = job.responseBody /\ new.bodyLength = job.bodyLength
    BY <1>1, <1>5 DEF WriteMemory, RestJobs
  <2>2. BodyKept(new)
    BY <1>1, <1>2, <2>1 DEF BodyKept, IsPrimary
  <2> QED
    BY <1>2, <2>2, ChangeCarries DEF Carries
<1>6. CASE ~(total > Room(job) /\ IsPrimary(job))
  <2> DEFINE kept == IF total <= Room(job) THEN total ELSE Room(job)
  <2>1. /\ new.responseBody = job.responseBody + kept
        /\ new.bodyLength = job.bodyLength + total
    BY <1>1, <1>6 DEF WriteMemory, RestJobs
  <2>2. job.responseBody + kept <= cap /\ (IsPrimary(job) => kept = total)
    <3> HIDE DEF cap
    <3> DEFINE room == cap - job.responseBody
    <3>1. room \in Int /\ job.responseBody + room = cap /\ Room(job) = room
      BY <1>1, <1>3, <1>4
    <3> HIDE DEF room
    <3>2. CASE total <= room
      BY <1>1, <1>3, <3>1, <3>2
    <3>3. CASE ~(total <= room)
      BY <1>1, <1>3, <1>6, <3>1, <3>3
    <3> QED
      BY <3>2, <3>3
  <2>3. IsPrimary(job) /\ ~job.finished => job.bodyLength = job.responseBody
    BY <1>1 DEF BodyKept
  <2>4. IsPrimary(new) = IsPrimary(job)
    BY <1>2 DEF IsPrimary
  <2> HIDE DEF new, kept
  <2>5. BodyKept(new)
    BY <1>2, <2>1, <2>2, <2>3, <2>4 DEF BodyKept
  <2> QED
    BY <1>2, <2>5, ChangeCarries DEF Carries, new
<1> QED
  BY <1>2, <1>5, <1>6

LEMMA WriteFileCarries ==
  ASSUME NEW job, NEW id \in FileJobs, Carries(job, job, id), NEW written \in Nat
  PROVE  /\ Carries(WriteFile(job, written), job, id)
         /\ WriteFile(job, written).headersPosted = job.headersPosted
         /\ WriteFile(job, written).streamBuffer = job.streamBuffer
<1> DEFINE new == WriteFile(job, written)
<1>1. /\ new \in RestJobs /\ new.id = job.id /\ new.finished = job.finished
      /\ new.headersPosted = job.headersPosted /\ new.streamBuffer = job.streamBuffer
      /\ new.out = job.out /\ new.responseBody = job.responseBody
  <2>1. job.bodyLength + written \in Nat
    BY DEF Carries, RestJobs
  <2> QED
    BY <2>1 DEF Carries, WriteFile, RestJobs
<1>2. BodyKept(new)
  BY <1>1 DEF Carries, BodyKept, IsPrimary
<1> QED
  BY <1>1, <1>2, ChangeCarries DEF Carries

\* Only a job that has posted the headers sees the body.
LEMMA WriteStreamCarries ==
  ASSUME NEW job, NEW id \in Jobs, Carries(job, job, id), NEW total \in Nat,
         id \in StreamJobs, id \in HeaderJobs => job.headersPosted
  PROVE  /\ Carries(WriteStream(job, total), job, id)
         /\ WriteStream(job, total).headersPosted = job.headersPosted
<1> DEFINE held     == [job EXCEPT !.paused = TRUE]
           buffered == [job EXCEPT !.streamBuffer = @ + total, !.bodyLength = @ + total]
<1>1. /\ held \in RestJobs /\ held.id = job.id /\ held.out = job.out
      /\ held.headersPosted = job.headersPosted /\ held.streamBuffer = job.streamBuffer
      /\ held.finished = job.finished /\ held.responseBody = job.responseBody
      /\ held.bodyLength = job.bodyLength
  BY DEF Carries, RestJobs
<1>2. /\ buffered \in RestJobs /\ buffered.id = job.id /\ buffered.out = job.out
      /\ buffered.headersPosted = job.headersPosted
      /\ buffered.responseBody = job.responseBody
  <2>1. job.streamBuffer + total \in Nat /\ job.bodyLength + total \in Nat
    BY DEF Carries, RestJobs
  <2> QED
    BY <2>1 DEF Carries, RestJobs
<1>3. WriteStream(job, total) \in {held, buffered, FlushStream(buffered)}
  BY DEF WriteStream
<1> HIDE DEF held, buffered
<1>4. Carries(held, job, id)
  BY <1>1, ChangeCarries DEF Carries, BodyKept, IsPrimary
<1>5. Carries(buffered, job, id)
  <2>1. BodyKept(buffered)
    BY <1>2 DEF Carries, BodyKept, IsPrimary
  <2> QED
    BY <1>2, <2>1, ChangeCarries
<1>6. Carries(FlushStream(buffered), job, id)
  BY <1>5, FlushCarries
<1>7. FlushStream(buffered).headersPosted = buffered.headersPosted
  BY <1>2 DEF FlushStream, Post, RestJobs
<1> QED
  BY <1>1, <1>2, <1>3, <1>4, <1>5, <1>6, <1>7

LEMMA ProgressCarries ==
  ASSUME NEW job, NEW id \in Jobs, Carries(job, job, id)
  PROVE  /\ Carries(PostProgress(job), job, id)
         /\ PostProgress(job).headersPosted = job.headersPosted
         /\ PostProgress(job).streamBuffer = job.streamBuffer
<1> DEFINE event == Event("Progress", job.id, 0, "Ok")
<1>1. job \in RestJobs /\ job.id = id
  BY DEF Carries
<1>2. event \in PlainEvent /\ event.id = id /\ event.kind = "Progress"
  BY <1>1, EventIsPlain DEF EventKind, RestStatus
<1> HIDE DEF event
<1>3. Carries(Post(job, event), job, id)
  BY <1>2, PostCarries
<1>4. PostProgress(job) = Post(job, event)
  BY DEF PostProgress, event
<1> QED
  BY <1>1, <1>3, <1>4 DEF Post, RestJobs

LEMMA ConsumedCarries ==
  ASSUME NEW job, NEW id \in Jobs, Carries(job, job, id), NEW bytes \in Nat
  PROVE  /\ Carries(OnStreamConsumed(job, bytes), job, id)
         /\ OnStreamConsumed(job, bytes).headersPosted = job.headersPosted
         /\ OnStreamConsumed(job, bytes).streamBuffer = job.streamBuffer
<1> DEFINE new == OnStreamConsumed(job, bytes)
           counted == Acknowledged(job, bytes)
<1>1. /\ counted \in RestJobs /\ counted.id = job.id /\ counted.out = job.out
      /\ counted.headersPosted = job.headersPosted
      /\ counted.streamBuffer = job.streamBuffer /\ counted.finished = job.finished
      /\ counted.responseBody = job.responseBody /\ counted.bodyLength = job.bodyLength
  BY DEF Carries, Acknowledged, RestJobs
<1>2. /\ new \in RestJobs /\ new.id = job.id /\ new.out = job.out
      /\ new.headersPosted = job.headersPosted /\ new.streamBuffer = job.streamBuffer
      /\ new.finished = job.finished /\ new.responseBody = job.responseBody
      /\ new.bodyLength = job.bodyLength
  <2>1. new \in RestJobs
    BY OnStreamConsumedEffect DEF Carries
  <2>2. new = [counted EXCEPT !.paused = job.paused /\ ~Resumes(job, bytes)]
    BY DEF OnStreamConsumed
  <2> HIDE DEF new, counted
  <2> QED
    BY <1>1, <2>1, <2>2 DEF RestJobs
<1> HIDE DEF new, counted
<1>3. Carries(new, job, id)
  BY <1>2, ChangeCarries DEF Carries, BodyKept, IsPrimary
<1> QED
  BY <1>2, <1>3 DEF new

----------------------------------------------------------------------------
(* What has not been told yet *)

\* The oldest event is told, or nobody is there to hear it.
LEMMA HeadedTail ==
  ASSUME NEW U \in Seq(TransferEvent), U # <<>>, NEW j, NEW told, NEW posted,
         Headed(U, j, told, posted),
         NEW told2, told => told2, IsOf(U[1], j, "Headers") => told2
  PROVE  Headed(Tail(U), j, told2, posted)
<1>1. /\ Len(U) \in Nat /\ DOMAIN U = 1..Len(U) /\ DOMAIN Tail(U) = 1..(Len(U) - 1)
      /\ \A i \in DOMAIN Tail(U) : Tail(U)[i] = U[i + 1]
  BY HeadTailProperties, LenProperties
<1>2. /\ \A i \in DOMAIN Tail(U) : i + 1 \in DOMAIN U
      /\ \A k \in DOMAIN U : k # 1 => k - 1 \in DOMAIN Tail(U) /\ Tail(U)[k - 1] = U[k]
  BY <1>1
<1>3. SUFFICES ASSUME ~told2 PROVE Headed(Tail(U), j, told2, posted)
  BY DEF Headed
<1>4. ~told /\ \A k \in DOMAIN U : IsOf(U[k], j, "Headers") => k # 1
  BY <1>3
<1>5. ASSUME posted PROVE \E i \in DOMAIN Tail(U) : IsOf(Tail(U)[i], j, "Headers")
  <2>1. PICK k \in DOMAIN U : IsOf(U[k], j, "Headers")
    BY <1>4, <1>5 DEF Headed
  <2> QED
    BY <1>2, <1>4, <2>1
<1>6. ASSUME NEW i \in DOMAIN Tail(U), IsOf(Tail(U)[i], j, "Data")
      PROVE  \E k \in DOMAIN Tail(U) : k < i /\ IsOf(Tail(U)[k], j, "Headers")
  <2>1. PICK k \in DOMAIN U : k < i + 1 /\ IsOf(U[k], j, "Headers")
    BY <1>1, <1>2, <1>4, <1>6 DEF Headed
  <2>2. k - 1 < i /\ k - 1 \in DOMAIN Tail(U) /\ Tail(U)[k - 1] = U[k]
    BY <1>1, <1>2, <1>4, <2>1
  <2> QED
    BY <2>1, <2>2
<1> QED
  BY <1>5, <1>6 DEF Headed

\* A job posts.
LEMMA HeadedPosts ==
  ASSUME NEW U \in Seq(TransferEvent), NEW j, NEW told, NEW old, NEW id \in Jobs, NEW job,
         Carries(job, old, id), j = id => id \in HeaderJobs,
         NEW posted, Headed(U, j, told, posted), j = id => posted = old.headersPosted,
         NEW posted2, posted2 = IF j = id THEN job.headersPosted ELSE posted
  PROVE  Headed(U \o job.out, j, told, posted2)
<1> DEFINE n   == Len(U)
           F   == U \o job.out
           out == job.out
<1>1. out \in Seq(TransferEvent)
  BY DEF Carries, RestJobs
<1> HIDE DEF out
<1>2. /\ n \in Nat /\ Len(out) \in Nat /\ DOMAIN U = 1..n
      /\ DOMAIN out = 1..Len(out) /\ DOMAIN F = 1..(n + Len(out))
      /\ \A i \in 1..(n + Len(out)) : F[i] = IF i <= n THEN U[i] ELSE out[i - n]
  BY <1>1, ConcatProperties, LenProperties DEF out
<1> HIDE DEF n, F
<1>3. ASSUME NEW i \in DOMAIN F
      PROVE  \/ i \in DOMAIN U /\ F[i] = U[i]
             \/ i - n \in DOMAIN out /\ i > n /\ F[i] = out[i - n]
  BY <1>2
<1>4. /\ \A i \in DOMAIN U : i \in DOMAIN F /\ F[i] = U[i]
      /\ \A i \in DOMAIN out : i + n \in DOMAIN F /\ F[i + n] = out[i]
  BY <1>2
<1>5. SUFFICES ASSUME ~told PROVE Headed(F, j, told, posted2)
  BY DEF Headed, F
<1>6. /\ posted => \E i \in DOMAIN U : IsOf(U[i], j, "Headers")
      /\ \A i \in DOMAIN U :
           IsOf(U[i], j, "Data") => \E k \in DOMAIN U : k < i /\ IsOf(U[k], j, "Headers")
  BY <1>5 DEF Headed
<1>7. ASSUME posted2 PROVE \E i \in DOMAIN F : IsOf(F[i], j, "Headers")
  <2>1. CASE posted
    BY <1>4, <1>6, <2>1
  <2>2. CASE ~posted
    <3>1. j = id /\ \E i \in DOMAIN out : out[i].kind = "Headers"
      BY <1>7, <2>2 DEF Carries, out
    <3>2. PICK i \in DOMAIN out : out[i].kind = "Headers"
      BY <3>1
    <3>3. IsOf(out[i], j, "Headers")
      BY <3>1, <3>2 DEF Carries, IsOf, out
    <3> QED
      BY <1>4, <3>3
  <2> QED
    BY <2>1, <2>2
<1>8. ASSUME NEW i \in DOMAIN F, IsOf(F[i], j, "Data")
      PROVE  \E k \in DOMAIN F : k < i /\ IsOf(F[k], j, "Headers")
  <2>1. CASE i \in DOMAIN U /\ F[i] = U[i]
    BY <1>4, <1>6, <1>8, <2>1
  <2>2. CASE i - n \in DOMAIN out /\ i > n /\ F[i] = out[i - n]
    <3>1. j = id /\ old.headersPosted
      BY <1>8, <2>2 DEF Carries, IsOf, out
    <3>2. PICK k \in DOMAIN U : IsOf(U[k], j, "Headers")
      BY <1>6, <3>1
    <3>3. k < i
      BY <1>2, <2>2
    <3> QED
      BY <1>4, <3>2, <3>3
  <2> QED
    BY <1>3, <2>1, <2>2
<1> QED
  BY <1>7, <1>8 DEF Headed

\* Concatenating to a sequence that is not empty leaves its head.
LEMMA TailOfPosts ==
  ASSUME NEW s \in Seq(TransferEvent), s # <<>>, NEW t \in Seq(TransferEvent)
  PROVE  Tail(s \o t) = Tail(s) \o t
<1>1. /\ <<Head(s)>> \in Seq(TransferEvent) /\ Tail(s) \in Seq(TransferEvent)
      /\ s = <<Head(s)>> \o Tail(s)
  BY FirstAndRest, HeadTailProperties
<1> DEFINE first == <<Head(s)>>
           rest  == Tail(s) \o t
<1>2. s \o t = first \o rest /\ rest \in Seq(TransferEvent)
  <2> DEFINE tail == Tail(s)
  <2>1. tail \in Seq(TransferEvent) /\ first \in Seq(TransferEvent) /\ s = first \o tail
    BY <1>1
  <2> HIDE DEF tail, first
  <2>2. (first \o tail) \o t = first \o (tail \o t)
    BY <2>1, ConcatAssociative
  <2>3. tail \o t \in Seq(TransferEvent)
    BY <2>1, ConcatProperties
  <2> QED
    BY <2>1, <2>2, <2>3 DEF tail
<1>3. Len(first) = 1 /\ first \in Seq(TransferEvent)
  BY <1>1
<1> HIDE DEF first, rest
<1>4. Tail(first \o rest) = rest
  <2> DEFINE all == first \o rest
  <2>1. /\ all \in Seq(TransferEvent) /\ Len(all) = 1 + Len(rest) /\ Len(rest) \in Nat
        /\ \A i \in 1..(1 + Len(rest)) : all[i] = IF i <= 1 THEN first[i] ELSE rest[i - 1]
    <3>1. /\ all \in Seq(TransferEvent) /\ Len(all) = Len(first) + Len(rest)
          /\ Len(rest) \in Nat
          /\ \A i \in 1..(Len(first) + Len(rest)) :
               all[i] = IF i <= Len(first) THEN first[i] ELSE rest[i - Len(first)]
      BY <1>2, <1>3, ConcatProperties, LenProperties
    <3> QED
      BY <1>3, <3>1
  <2> HIDE DEF all
  <2>2. all # <<>>
    <3>1. Len(all) # 0
      BY <2>1
    <3> QED
      BY <2>1, <3>1, EmptySeq
  <2>3. /\ Tail(all) \in Seq(TransferEvent) /\ Len(Tail(all)) = Len(rest)
        /\ \A i \in 1..Len(rest) : Tail(all)[i] = all[i + 1]
    BY <2>1, <2>2, HeadTailProperties
  <2>4. ASSUME NEW i \in 1..Len(rest) PROVE Tail(all)[i] = rest[i]
    <3>1. i + 1 \in 1..(1 + Len(rest)) /\ ~(i + 1 <= 1) /\ (i + 1) - 1 = i
      BY <2>1
    <3> QED
      BY <2>1, <2>3, <3>1
  <2> QED
    BY <1>2, <2>3, <2>4, SeqEqual DEF all
<1> QED
  BY <1>2, <1>4 DEF rest

LEMMA UndeliveredType ==
  ASSUME InductiveInvariant
  PROVE  /\ Undelivered \in Seq(TransferEvent)
         /\ mpc = "callback" => InFlight # <<>>
<1>1. mpc = "callback" => InFlight # <<>>
  BY OldestInFlight DEF InductiveInvariant, MainInvariant
<1>2. InFlight \in Seq(TransferEvent)
  BY InFlightType
<1>3. InFlight # <<>> => Tail(InFlight) \in Seq(TransferEvent)
  BY <1>2, HeadTailProperties
<1> QED
  BY <1>1, <1>2, <1>3 DEF Undelivered

----------------------------------------------------------------------------
(* Kinds of steps *)

Delivery == CapInvariant /\ HeadersInvariant

LEMMA CurrentCarries ==
  ASSUME InductiveInvariant, OrderInvariant, Delivery, NEW j \in Jobs
  PROVE  Carries(jobs[j], jobs[j], j)
<1>1. jobs[j] \in RestJobs /\ jobs[j].id = j /\ jobs[j].out = <<>> /\ BodyKept(jobs[j])
  BY DEF InductiveInvariant, TypeOK, WorkerTypeOK, JobsInvariant, JobPlaced, OrderInvariant,
         Delivery, CapInvariant
<1>2. j \in HeaderJobs => (jobs[j].streamBuffer > 0 => jobs[j].headersPosted)
  BY DEF Delivery, HeadersInvariant, HeadersFirst
<1> QED
  BY <1>1, <1>2 DEF Carries

\* A step in which the worker runs a method of job j.
LEMMA JobStepDelivery ==
  ASSUME InductiveInvariant, Delivery,
         NEW j \in Jobs, NEW job, Carries(job, jobs[j], j), j < nextJobId,
         Posted, Apply(j, job), UNCHANGED mainVars,
         \A i \in Jobs \ {j} : xfer'[i].state = xfer[i].state,
         j \in HeaderJobs => /\ xfer'[j].state = "body" => job.headersPosted
                             /\ xfer'[j].state = "open" => job.streamBuffer = 0
  PROVE  Delivery'
<1>1. /\ jobs \in [Jobs -> RestJobs] /\ job \in RestJobs /\ job.id = j
      /\ outbox = <<>> /\ outbox' = job.out /\ job.out \in Seq(PlainEvent)
      /\ job.out \in Seq(TransferEvent)
      /\ jobs' = [jobs EXCEPT ![j] = [job EXCEPT !.out = <<>>]]
      /\ UNCHANGED <<events, enabled, log, records, mpc, batch, nextJobId>>
  BY DEF InductiveInvariant, TypeOK, WorkerTypeOK, Carries, RestJobs, Posted, Apply, mainVars
<1>2. /\ \A i \in Jobs \ {j} : jobs'[i] = jobs[i]
      /\ jobs'[j].id = j /\ jobs'[j].finished = job.finished
      /\ jobs'[j].responseBody = job.responseBody /\ jobs'[j].bodyLength = job.bodyLength
      /\ jobs'[j].headersPosted = job.headersPosted
      /\ jobs'[j].streamBuffer = job.streamBuffer
  BY <1>1 DEF RestJobs
<1>3. CapInvariant'
  <2>1. BodyKept(jobs'[j])
    BY <1>1, <1>2 DEF Carries, BodyKept, IsPrimary
  <2>2. \A i \in Jobs : BodyKept(jobs'[i])
    BY <1>2, <2>1 DEF Delivery, CapInvariant
  <2> QED
    BY <1>1, <2>2 DEF Delivery, CapInvariant
<1>4. Undelivered' = Undelivered \o job.out
  <2>1. InFlight' = InFlight \o job.out /\ InFlight \in Seq(TransferEvent)
    BY <1>1, InFlightPosted, InFlightType
  <2>2. CASE mpc = "callback"
    <3>1. Tail(InFlight \o job.out) = Tail(InFlight) \o job.out
      BY <1>1, <2>1, <2>2, UndeliveredType, TailOfPosts
    <3> QED
      BY <1>1, <2>1, <2>2, <3>1 DEF Undelivered
  <2>3. CASE mpc # "callback"
    BY <1>1, <2>1, <2>3 DEF Undelivered
  <2> QED
    BY <2>2, <2>3
<1>5. Undelivered \in Seq(TransferEvent)
  BY UndeliveredType
<1>6. ASSUME NEW i \in HeaderJobs PROVE HeadersFirst(i)'
  <2> DEFINE told == log[i].headersHandled > 0
  <2>1. i \in Jobs /\ HeadersFirst(i)
    BY RestJobAssumption DEF Delivery, HeadersInvariant
  <2>2. /\ (xfer[i].state = "body")' => jobs'[i].headersPosted
        /\ (xfer[i].state = "open")' => jobs'[i].streamBuffer = 0
        /\ jobs'[i].streamBuffer > 0 => jobs'[i].headersPosted
    BY <1>2, <2>1 DEF HeadersFirst, Carries
  <2>3. i >= nextJobId => i # j
    BY DEF InductiveInvariant, TypeOK, RecordTypeOK, Jobs
  <2>4. i >= nextJobId => ~jobs'[i].headersPosted
    BY <1>2, <2>1, <2>3 DEF HeadersFirst
  <2>5. ASSUME Found(i), enabled
        PROVE  Headed(Undelivered', i, told, jobs'[i].headersPosted)
    <3>1. Headed(Undelivered, i, told, jobs[i].headersPosted)
      BY <2>1, <2>5 DEF HeadersFirst
    <3>2. jobs'[i].headersPosted = IF i = j THEN job.headersPosted ELSE jobs[i].headersPosted
      BY <1>2, <2>1
    <3> HIDE DEF told
    <3> QED
      BY <1>4, <1>5, <3>1, <3>2, HeadedPosts
  <2>6. ASSUME i >= nextJobId, enabled
        PROVE  \A k \in DOMAIN Undelivered' : Undelivered'[k].id # i
    <3>1. \A k \in DOMAIN Undelivered : Undelivered[k].id # i
      BY <2>1, <2>6 DEF HeadersFirst
    <3>2. \A k \in DOMAIN job.out : job.out[k].id # i
      BY <2>3, <2>6 DEF Carries
    <3>3. ASSUME NEW k \in DOMAIN (Undelivered \o job.out)
          PROVE  \/ k \in DOMAIN Undelivered /\ (Undelivered \o job.out)[k] = Undelivered[k]
                 \/ /\ k - Len(Undelivered) \in DOMAIN job.out
                    /\ (Undelivered \o job.out)[k] = job.out[k - Len(Undelivered)]
      BY <1>1, <1>5, ConcatProperties, LenProperties
    <3> QED
      BY <1>4, <3>1, <3>2, <3>3
  <2> QED
    BY <1>1, <2>2, <2>4, <2>5, <2>6 DEF HeadersFirst, Found
<1> QED
  BY <1>1, <1>3, <1>6 DEF Delivery, HeadersInvariant, HeadersHeard

\* A step that tells the plugin nothing: jobs may be destroyed, transfers may
\* end, records may go.  The queue may lose events once it is disabled.
LEMMA KeptDelivery ==
  ASSUME InductiveInvariant, Delivery,
         batch' \in Seq(PlainEvent), events' \in Seq(PlainEvent), outbox' \in Seq(PlainEvent),
         \A j \in Jobs : \/ jobs'[j] = jobs[j]
                         \/ jobs'[j] = DestroyedJob(j) /\ xfer'[j].state = "none",
         \A j \in Jobs : xfer'[j].state \in {xfer[j].state, "none", "done"},
         nextJobId' \in Nat, nextJobId' >= nextJobId,
         (enabled <=> mpc \in {"idle", "batch", "callback"})',
         enabled' => enabled /\ Undelivered' = Undelivered,
         \A j \in Jobs : Found(j)' => Found(j) \/ j >= nextJobId,
         \A j \in Jobs :
           /\ log'[j].headersHandled = log[j].headersHandled /\ log'[j].headersHeard = log[j].headersHeard
           /\ log'[j].outcome = "Ok" => log[j].outcome = "Ok" /\ log'[j].length = log[j].length
  PROVE  Delivery'
<1>1. CapInvariant'
  <2>1. \A j \in Jobs : BodyKept(DestroyedJob(j))
    <3>1. \A j \in Jobs : DestroyedJob(j).responseBody = 0 /\ DestroyedJob(j).finished = TRUE
      BY DEF DestroyedJob, FreshJob
    <3> QED
      BY <3>1, RestJobAssumption DEF BodyKept
  <2>2. \A j \in Jobs : BodyKept(jobs'[j])
    BY <2>1 DEF Delivery, CapInvariant
  <2> QED
    BY <2>2 DEF Delivery, CapInvariant
<1>2. ASSUME NEW j \in HeaderJobs PROVE HeadersFirst(j)'
  <2>1. j \in Jobs /\ HeadersFirst(j)
    BY RestJobAssumption DEF Delivery, HeadersInvariant
  <2>2. /\ ~DestroyedJob(j).headersPosted /\ DestroyedJob(j).streamBuffer = 0
    BY DEF DestroyedJob, FreshJob
  <2>3. /\ jobs'[j].headersPosted => jobs[j].headersPosted
        /\ (xfer[j].state = "body")' => jobs'[j].headersPosted
        /\ (xfer[j].state = "open")' => jobs'[j].streamBuffer = 0
        /\ jobs'[j].streamBuffer > 0 => jobs'[j].headersPosted
    BY <2>1, <2>2 DEF HeadersFirst
  <2>4. j >= nextJobId' => j >= nextJobId
    BY <2>1 DEF InductiveInvariant, TypeOK, RecordTypeOK, Jobs
  <2>5. j >= nextJobId' => ~jobs'[j].headersPosted
    BY <2>1, <2>3, <2>4 DEF HeadersFirst
  <2>6. ASSUME Found(j)', enabled'
        PROVE  Headed(Undelivered', j, log'[j].headersHandled > 0, jobs'[j].headersPosted)
    <3>1. CASE Found(j)
      <4>1. Headed(Undelivered, j, log[j].headersHandled > 0, jobs[j].headersPosted)
        BY <2>1, <2>6, <3>1 DEF HeadersFirst
      <4> QED
        BY <2>1, <2>3, <2>6, <4>1 DEF Headed
    <3>2. CASE j >= nextJobId
      <4>1. /\ ~jobs'[j].headersPosted
            /\ \A i \in DOMAIN Undelivered' : Undelivered'[i].id # j
        BY <2>1, <2>3, <2>6, <3>2 DEF HeadersFirst
      <4> QED
        BY <4>1 DEF Headed, IsOf
    <3> QED
      BY <2>1, <2>6, <3>1, <3>2
  <2>7. j >= nextJobId' /\ enabled' => \A i \in DOMAIN Undelivered' : Undelivered'[i].id # j
    BY <2>1, <2>4 DEF HeadersFirst
  <2> QED
    BY <2>3, <2>5, <2>6, <2>7 DEF HeadersFirst
<1>3. HeadersHeard'
  BY DEF Delivery, HeadersInvariant, HeadersHeard
<1> QED
  BY <1>1, <1>2, <1>3 DEF Delivery, HeadersInvariant

----------------------------------------------------------------------------
(* The steps of the worker *)

\* The job of an easy handle has been sent and is not over.
LEMMA TransferCarries ==
  ASSUME InductiveInvariant, OrderInvariant, Delivery, NEW j \in Jobs, xfer[j].state # "none"
  PROVE  Carries(jobs[j], jobs[j], j) /\ ~jobs[j].finished /\ j < nextJobId
BY CurrentCarries DEF InductiveInvariant, JobsInvariant, JobPlaced, JobInvariant

\* A method that ends an attempt releases the easy handle.
LEMMA ReleasedTransfer ==
  ASSUME InductiveInvariant, NEW j \in Jobs, NEW job, Release(j, job), ~job.attached
  PROVE  xfer'[j].state = "none" /\ \A i \in Jobs \ {j} : xfer'[i] = xfer[i]
BY NoTransferType DEF InductiveInvariant, TypeOK, WorkerTypeOK, Release

LEMMA BeginAttemptDelivery ==
  ASSUME InductiveInvariant, OrderInvariant, Delivery, NEW j \in Jobs,
         NEW outcome \in BeginOutcomes(jobs[j]), Apply(j, BeginAttempt(jobs[j], outcome)),
         xfer' = IF BeginAttempt(jobs[j], outcome).attached
                 THEN [xfer EXCEPT ![j] = [NoTransfer EXCEPT !.state = "open"]] ELSE xfer,
         Posted, UNCHANGED mainVars, j < nextJobId, ~jobs[j].finished, ~jobs[j].attached
  PROVE  Delivery'
<1> DEFINE job == BeginAttempt(jobs[j], outcome)
<1>1. Carries(job, jobs[j], j) /\ job.streamBuffer = 0
  BY CurrentCarries, BeginAttemptCarries
<1> HIDE DEF job
<1>2. /\ \A i \in Jobs \ {j} : xfer'[i].state = xfer[i].state
      /\ xfer'[j].state \in {"none", "open"}
  <2>1. xfer \in [Jobs -> Transfers] /\ xfer[j].state = "none"
    BY DEF InductiveInvariant, TypeOK, WorkerTypeOK, JobsInvariant, JobPlaced, Transfers
  <2>2. [NoTransfer EXCEPT !.state = "open"].state = "open"
    BY DEF NoTransfer
  <2>3. xfer' = [xfer EXCEPT ![j] = [NoTransfer EXCEPT !.state = "open"]] \/ xfer' = xfer
    OBVIOUS
  <2> QED
    BY <2>1, <2>2, <2>3
<1> QED
  BY <1>1, <1>2, JobStepDelivery DEF job

LEMMA AdmitIncomingDelivery ==
  ASSUME InductiveInvariant, OrderInvariant, Delivery, NEW j \in Jobs,
         WorkerStep(AdmitIncoming(j))
  PROVE  Delivery'
<1>1. j < nextJobId /\ ~jobs[j].finished /\ ~jobs[j].attached
  BY DEF WorkerStep, AdmitIncoming, InductiveInvariant, JobsInvariant, JobPlaced
<1> QED
  BY <1>1, BeginAttemptDelivery DEF WorkerStep, AdmitIncoming

LEMMA StartDueRetryDelivery ==
  ASSUME InductiveInvariant, OrderInvariant, Delivery, NEW j \in Jobs,
         WorkerStep(StartDueRetry(j))
  PROVE  Delivery'
<1>1. j < nextJobId /\ ~jobs[j].finished /\ ~jobs[j].attached
  BY DEF WorkerStep, StartDueRetry, InductiveInvariant, JobsInvariant, JobPlaced, JobInvariant
<1> QED
  BY <1>1, BeginAttemptDelivery DEF WorkerStep, StartDueRetry

LEMMA ReapCompletedDelivery ==
  ASSUME InductiveInvariant, OrderInvariant, Delivery, NEW j \in Jobs,
         WorkerStep(ReapCompleted(j))
  PROVE  Delivery'
<1>1. PICK renamed \in BOOLEAN :
        LET job == OnAttemptDone(jobs[j], xfer[j].code, xfer[j].status, renamed)
        IN  Apply(j, job) /\ Release(j, job)
  BY DEF WorkerStep, ReapCompleted
<1>2. /\ Posted /\ UNCHANGED mainVars
      /\ xfer[j].state = "done" /\ xfer[j].code \in CurlCode /\ xfer[j].status \in Nat
  BY TransferFields DEF WorkerStep, ReapCompleted
<1> DEFINE job == OnAttemptDone(jobs[j], xfer[j].code, xfer[j].status, renamed)
<1>3. Carries(jobs[j], jobs[j], j) /\ ~jobs[j].finished /\ j < nextJobId
  BY <1>2, TransferCarries
<1>4. j \in HeaderJobs => jobs[j].headersPosted \/ jobs[j].streamBuffer = 0
  BY <1>3 DEF Carries, RestJobs
<1>5. Carries(job, jobs[j], j)
  BY <1>2, <1>3, <1>4, OnAttemptDoneCarries
<1>6. ~job.attached
  BY <1>2, <1>3, OnAttemptDoneEffect DEF Carries, InductiveInvariant, JobsInvariant, JobPlaced
<1>7. Apply(j, job) /\ Release(j, job)
  BY <1>1
<1> HIDE DEF job
<1>8. xfer'[j].state = "none" /\ \A i \in Jobs \ {j} : xfer'[i] = xfer[i]
  BY <1>6, <1>7, ReleasedTransfer
<1> QED
  BY <1>2, <1>3, <1>5, <1>7, <1>8, JobStepDelivery

\* A step of the worker that neither runs a method nor touches the queue.
LEMMA SilentStepDelivery ==
  ASSUME InductiveInvariant, Delivery, UNCHANGED <<jobs, queueVars, mainVars>>,
         \A j \in Jobs : xfer'[j].state \in {xfer[j].state, "none", "done"}
  PROVE  Delivery'
<1>1. /\ UNCHANGED <<jobs, batch, events, outbox, enabled, nextJobId, mpc, records, log>>
      /\ nextJobId \in Nat
  BY DEF queueVars, mainVars, InductiveInvariant, TypeOK, RecordTypeOK
<1>2. Undelivered' = Undelivered /\ \A j \in Jobs : Found(j)' = Found(j)
  BY <1>1 DEF Undelivered, InFlight, Found
<1>3. /\ batch' \in Seq(PlainEvent) /\ events' \in Seq(PlainEvent) /\ outbox' \in Seq(PlainEvent)
      /\ (enabled <=> mpc \in {"idle", "batch", "callback"})'
  BY <1>1 DEF Delivery, CapInvariant, HeadersInvariant
<1> QED
  BY <1>1, <1>2, <1>3, KeptDelivery

LEMMA SilentWorkerDelivery ==
  ASSUME InductiveInvariant, Delivery,
         \/ WorkerStep(TakePending) \/ WorkerStep(ExitLoop)
         \/ WorkerStep(BeginPerform) \/ WorkerStep(EndPerform)
  PROVE  Delivery'
<1>1. UNCHANGED <<jobs, xfer, queueVars, mainVars>>
  BY DEF WorkerStep, TakePending, ExitLoop, BeginPerform, EndPerform
<1> QED
  BY <1>1, SilentStepDelivery

LEMMA ApplyCancellationDelivery ==
  ASSUME InductiveInvariant, OrderInvariant, Delivery, NEW j \in Jobs,
         WorkerStep(ApplyCancellation(j))
  PROVE  Delivery'
<1>1. CASE FindActive(j)
  <2> DEFINE job == Cancel(jobs[j])
  <2>1. /\ Apply(j, job) /\ Release(j, job) /\ Posted /\ UNCHANGED mainVars
        /\ ~jobs[j].finished /\ j < nextJobId
    BY <1>1 DEF WorkerStep, ApplyCancellation, FindActive, InductiveInvariant, JobsInvariant,
                JobPlaced
  <2>2. Carries(job, jobs[j], j)
    BY <2>1, CurrentCarries, CancelCarries
  <2>3. ~job.attached
    BY <2>1, CancelEffect DEF InductiveInvariant, TypeOK, WorkerTypeOK, JobsInvariant, JobPlaced
  <2> HIDE DEF job
  <2>4. xfer'[j].state = "none" /\ \A i \in Jobs \ {j} : xfer'[i] = xfer[i]
    BY <2>1, <2>3, ReleasedTransfer
  <2> QED
    BY <2>1, <2>2, <2>4, JobStepDelivery
<1>2. CASE ~FindActive(j)
  <2>1. UNCHANGED <<jobs, xfer, queueVars, mainVars>>
    BY <1>2 DEF WorkerStep, ApplyCancellation
  <2> QED
    BY <2>1, SilentStepDelivery
<1> QED
  BY <1>1, <1>2

LEMMA ApplyConsumedDelivery ==
  ASSUME InductiveInvariant, OrderInvariant, Delivery, WorkerStep(ApplyConsumed)
  PROVE  Delivery'
<1> DEFINE j == Head(taken.consumes)[1]
           bytes == Head(taken.consumes)[2]
<1>1. j \in Jobs /\ bytes \in Nat
  BY DEF WorkerStep, ApplyConsumed, InductiveInvariant, TypeOK, WorkerTypeOK
<1>2. CASE FindActive(j)
  <2> DEFINE job == OnStreamConsumed(jobs[j], bytes)
  <2>1. /\ Apply(j, job) /\ Posted /\ UNCHANGED mainVars
        /\ xfer' = [xfer EXCEPT ![j].paused = FALSE] \/ UNCHANGED xfer
    BY <1>2 DEF WorkerStep, ApplyConsumed
  <2>2. j < nextJobId
    <3>1. j \in active
      BY <1>2 DEF FindActive
    <3> HIDE DEF j
    <3> QED
      BY <1>1, <3>1 DEF InductiveInvariant, JobsInvariant, JobPlaced
  <2> HIDE DEF j, bytes
  <2>3. /\ Carries(job, jobs[j], j) /\ job.headersPosted = jobs[j].headersPosted
        /\ job.streamBuffer = jobs[j].streamBuffer
    BY <1>1, CurrentCarries, ConsumedCarries
  <2>4. \A i \in Jobs : xfer'[i].state = xfer[i].state
    <3>1. xfer \in [Jobs -> Transfers] /\ \A i \in Jobs : xfer[i] \in Transfers
      BY DEF InductiveInvariant, TypeOK, WorkerTypeOK
    <3> QED
      BY <1>1, <2>1, <3>1 DEF Transfers
  <2>5. j \in HeaderJobs => HeadersFirst(j)
    BY DEF Delivery, HeadersInvariant
  <2> HIDE DEF job
  <2> QED
    BY <1>1, <2>1, <2>2, <2>3, <2>4, <2>5, JobStepDelivery DEF HeadersFirst
<1>3. CASE ~FindActive(j)
  <2>1. UNCHANGED <<jobs, xfer, queueVars, mainVars>>
    BY <1>3 DEF WorkerStep, ApplyConsumed
  <2> QED
    BY <2>1, SilentStepDelivery
<1> QED
  BY <1>2, <1>3

\* Finished jobs are destroyed; no easy handle refers to them.
LEMMA RemoveFinishedDelivery ==
  ASSUME InductiveInvariant, Delivery, WorkerStep(RemoveFinished)
  PROVE  Delivery'
<1>1. /\ jobs' = [j \in Jobs |-> IF j \in active \ active' THEN DestroyedJob(j) ELSE jobs[j]]
      /\ \A j \in active \ active' : jobs[j].finished
      /\ UNCHANGED <<xfer, queueVars, mainVars>>
  BY DEF WorkerStep, RemoveFinished
<1>2. \A j \in Jobs : jobs[j].finished => xfer[j].state = "none"
  BY DEF InductiveInvariant, JobsInvariant, JobPlaced, JobInvariant
<1>3. \A j \in Jobs : \/ jobs'[j] = jobs[j]
                      \/ jobs'[j] = DestroyedJob(j) /\ xfer'[j].state = "none"
  BY <1>1, <1>2
<1>4. /\ UNCHANGED <<batch, events, outbox, enabled, nextJobId, mpc, records, log>>
      /\ nextJobId \in Nat
  BY <1>1 DEF queueVars, mainVars, InductiveInvariant, TypeOK, RecordTypeOK
<1>5. Undelivered' = Undelivered /\ \A j \in Jobs : Found(j)' = Found(j)
  BY <1>4 DEF Undelivered, InFlight, Found
<1>6. /\ batch' \in Seq(PlainEvent) /\ events' \in Seq(PlainEvent) /\ outbox' \in Seq(PlainEvent)
      /\ (enabled <=> mpc \in {"idle", "batch", "callback"})'
  BY <1>4 DEF Delivery, CapInvariant, HeadersInvariant
<1> QED
  BY <1>1, <1>3, <1>4, <1>5, <1>6, KeptDelivery

LEMMA CurlHeadersDelivery ==
  ASSUME InductiveInvariant, OrderInvariant, Delivery, NEW j \in Jobs, NEW status \in Statuses,
         WorkerStep(CurlHeaders(j, status))
  PROVE  Delivery'
<1>1. PICK redirected \in BOOLEAN :
        /\ Apply(j, OnHeaderBlock(jobs[j], status, redirected))
        /\ xfer' = [xfer EXCEPT ![j].status = status,
                                ![j].state = IF status < 200 \/ redirected
                                             THEN "open" ELSE "body"]
  BY DEF WorkerStep, CurlHeaders
<1>2. Posted /\ UNCHANGED mainVars /\ xfer[j].state = "open" /\ status \in Nat
  BY TransferThreadAssumption DEF WorkerStep, CurlHeaders, Receiving
<1>3. /\ Carries(jobs[j], jobs[j], j) /\ j < nextJobId
      /\ j \in HeaderJobs => jobs[j].streamBuffer = 0
  BY <1>2, TransferCarries DEF Delivery, HeadersInvariant, HeadersFirst
<1> DEFINE job == OnHeaderBlock(jobs[j], status, redirected)
<1>4. /\ Carries(job, jobs[j], j) /\ job.streamBuffer = jobs[j].streamBuffer
      /\ j \in HeaderJobs /\ status >= 200 /\ ~redirected => job.headersPosted
  BY <1>2, <1>3, OnHeaderBlockCarries
<1>5. Apply(j, job)
  BY <1>1
<1> HIDE DEF job
<1>6. /\ \A i \in Jobs \ {j} : xfer'[i].state = xfer[i].state
      /\ xfer'[j].state = IF status < 200 \/ redirected THEN "open" ELSE "body"
  <2>1. xfer \in [Jobs -> Transfers] /\ \A i \in Jobs : xfer[i] \in Transfers
    BY DEF InductiveInvariant, TypeOK, WorkerTypeOK
  <2> QED
    BY <1>1, <2>1 DEF Transfers
<1>7. xfer'[j].state = "body" => status >= 200 /\ ~redirected
  BY <1>2, <1>6
<1> QED
  BY <1>2, <1>3, <1>4, <1>5, <1>6, <1>7, JobStepDelivery

LEMMA CurlTrailersDelivery ==
  ASSUME InductiveInvariant, OrderInvariant, Delivery, NEW j \in Jobs,
         WorkerStep(CurlTrailers(j))
  PROVE  Delivery'
<1> DEFINE job == OnHeadersComplete(jobs[j], xfer[j].status, FALSE)
<1>1. /\ Apply(j, job) /\ Posted /\ UNCHANGED mainVars /\ xfer[j].state = "body"
      /\ UNCHANGED xfer
  BY DEF WorkerStep, CurlTrailers, Receiving
<1>2. xfer[j].status \in Nat
  BY TransferFields
<1>3. /\ Carries(jobs[j], jobs[j], j) /\ j < nextJobId
      /\ j \in HeaderJobs => jobs[j].headersPosted
  BY <1>1, TransferCarries DEF Delivery, HeadersInvariant, HeadersFirst
<1>4. Carries(job, jobs[j], j)
  BY <1>2, <1>3, OnHeadersCompleteCarries
<1>5. j \in HeaderJobs => job = jobs[j]
  BY <1>3 DEF OnHeadersComplete
<1> HIDE DEF job
<1> QED
  BY <1>1, <1>3, <1>4, <1>5, JobStepDelivery

\* The write callbacks take body for the sink of the response only.
LEMMA CurlWriteDelivery ==
  ASSUME InductiveInvariant, OrderInvariant, Delivery, NEW j \in Jobs, NEW total \in Nat,
         WorkerStep(CurlWrite(j, total))
  PROVE  Delivery'
<1>1. /\ Posted /\ UNCHANGED mainVars /\ xfer[j].state = "body"
      /\ xfer \in [Jobs -> Transfers] /\ \A i \in Jobs : xfer[i] \in Transfers
  BY DEF WorkerStep, CurlWrite, Receiving, InductiveInvariant, TypeOK, WorkerTypeOK
<1>2. /\ Carries(jobs[j], jobs[j], j) /\ j < nextJobId /\ ~jobs[j].finished
      /\ j \in HeaderJobs => jobs[j].headersPosted
  BY <1>1, TransferCarries DEF Delivery, HeadersInvariant, HeadersFirst
<1>3. PICK job : /\ Apply(j, job) /\ Carries(job, jobs[j], j)
                 /\ job.headersPosted = jobs[j].headersPosted
  <2>1. CASE Apply(j, WriteMemory(jobs[j], total))
    BY <1>2, <2>1, WriteMemoryCarries
  <2>2. CASE /\ SinkFor(jobs[j], xfer[j].status) = "File"
             /\ \E written \in 0..total : Apply(j, WriteFile(jobs[j], written))
    <3>1. PICK written \in Nat : Apply(j, WriteFile(jobs[j], written))
      BY <2>2
    <3>2. j \in FileJobs
      BY <1>2, <2>2 DEF SinkFor, Carries
    <3> QED
      BY <1>2, <3>1, <3>2, WriteFileCarries
  <2> QED
    BY <2>1, <2>2 DEF WorkerStep, CurlWrite
<1>4. \/ UNCHANGED xfer
      \/ xfer' = [xfer EXCEPT ![j].state = "done", ![j].code = "WRITE_ERROR"]
  BY DEF WorkerStep, CurlWrite
<1>5. /\ \A i \in Jobs \ {j} : xfer'[i].state = xfer[i].state
      /\ xfer'[j].state \in {"body", "done"}
  BY <1>1, <1>4 DEF Transfers
<1> QED
  BY <1>1, <1>2, <1>3, <1>5, JobStepDelivery

LEMMA CurlWriteStreamDelivery ==
  ASSUME InductiveInvariant, OrderInvariant, Delivery, NEW j \in Jobs, NEW total \in Nat,
         WorkerStep(CurlWriteStream(j, total))
  PROVE  Delivery'
<1> DEFINE job == WriteStream(jobs[j], total)
<1>1. /\ Posted /\ UNCHANGED mainVars /\ xfer[j].state = "body"
      /\ SinkFor(jobs[j], xfer[j].status) = "Stream"
      /\ Apply(j, job) /\ xfer' = [xfer EXCEPT ![j].paused = job.paused]
      /\ xfer \in [Jobs -> Transfers] /\ \A i \in Jobs : xfer[i] \in Transfers
  BY DEF WorkerStep, CurlWriteStream, Receiving, InductiveInvariant, TypeOK, WorkerTypeOK
<1>2. /\ Carries(jobs[j], jobs[j], j) /\ j < nextJobId
      /\ j \in HeaderJobs => jobs[j].headersPosted
  BY <1>1, TransferCarries DEF Delivery, HeadersInvariant, HeadersFirst
<1>3. j \in StreamJobs
  BY <1>1, <1>2 DEF SinkFor, Carries
<1>4. Carries(job, jobs[j], j) /\ job.headersPosted = jobs[j].headersPosted
  BY <1>2, <1>3, WriteStreamCarries
<1> HIDE DEF job
<1>5. \A i \in Jobs : xfer'[i].state = xfer[i].state
  BY <1>1 DEF Transfers
<1> QED
  BY <1>1, <1>2, <1>4, <1>5, JobStepDelivery

LEMMA CurlProgressDelivery ==
  ASSUME InductiveInvariant, OrderInvariant, Delivery, NEW j \in Jobs,
         WorkerStep(CurlProgress(j))
  PROVE  Delivery'
<1>1. xfer \in [Jobs -> Transfers] /\ \A i \in Jobs : xfer[i] \in Transfers
  BY DEF InductiveInvariant, TypeOK, WorkerTypeOK
<1>2. CASE jobs[j].cancelRequested
  <2>1. UNCHANGED <<jobs, queueVars, mainVars>>
    BY <1>2 DEF WorkerStep, CurlProgress
  <2>2. xfer' = [xfer EXCEPT ![j].state = "done", ![j].code = "ABORTED_BY_CALLBACK"]
    BY <1>2 DEF WorkerStep, CurlProgress
  <2>3. \A i \in Jobs : xfer'[i].state \in {xfer[i].state, "none", "done"}
    BY <1>1, <2>2 DEF Transfers
  <2> QED
    BY <2>1, <2>3, SilentStepDelivery
<1>3. CASE ~jobs[j].cancelRequested
  <2> DEFINE job == PostProgress(jobs[j])
  <2>1. /\ Apply(j, job) /\ Posted /\ UNCHANGED mainVars /\ xfer[j].state # "none"
        /\ xfer' = [xfer EXCEPT ![j].progress = @ + 1]
    BY <1>3 DEF WorkerStep, CurlProgress
  <2>2. /\ Carries(jobs[j], jobs[j], j) /\ j < nextJobId
        /\ j \in HeaderJobs => HeadersFirst(j)
    BY <2>1, TransferCarries DEF Delivery, HeadersInvariant
  <2>3. /\ Carries(job, jobs[j], j) /\ job.headersPosted = jobs[j].headersPosted
        /\ job.streamBuffer = jobs[j].streamBuffer
    BY <2>2, ProgressCarries
  <2> HIDE DEF job
  <2>4. \A i \in Jobs : xfer'[i].state = xfer[i].state
    BY <1>1, <2>1 DEF Transfers
  <2> QED
    BY <2>1, <2>2, <2>3, <2>4, JobStepDelivery DEF HeadersFirst
<1> QED
  BY <1>2, <1>3

LEMMA CurlDoneDelivery ==
  ASSUME InductiveInvariant, Delivery, NEW j \in Jobs, WorkerStep(CurlDone(j))
  PROVE  Delivery'
<1>1. UNCHANGED <<jobs, queueVars, mainVars>>
  BY DEF WorkerStep, CurlDone
<1>2. PICK code : xfer' = [xfer EXCEPT ![j].state = "done", ![j].code = code]
  BY DEF WorkerStep, CurlDone
<1>3. xfer \in [Jobs -> Transfers] /\ \A i \in Jobs : xfer[i] \in Transfers
  BY DEF InductiveInvariant, TypeOK, WorkerTypeOK
<1>4. \A i \in Jobs : xfer'[i].state \in {xfer[i].state, "none", "done"}
  BY <1>2, <1>3 DEF Transfers
<1> QED
  BY <1>1, <1>4, SilentStepDelivery

\* An event moves into the queue, or is lost because that is disabled.
LEMMA PostDelivery ==
  ASSUME InductiveInvariant, Delivery,
         WorkerStep((PostCheck \/ PostPush) /\ UNCHANGED workerVars)
  PROVE  Delivery'
<1>1. /\ UNCHANGED <<jobs, xfer, enabled, nextJobId, mpc, records, log, batch>>
      /\ nextJobId \in Nat
  BY DEF WorkerStep, PostCheck, PostPush, workerVars, mainVars,
         InductiveInvariant, TypeOK, RecordTypeOK
<1>2. outbox # <<>>
  BY DEF WorkerStep, PostCheck, PostPush, Posted, InductiveInvariant, WorkerInvariant
<1>3. /\ batch \in Seq(PlainEvent) /\ events \in Seq(PlainEvent) /\ outbox \in Seq(PlainEvent)
      /\ enabled <=> mpc \in {"idle", "batch", "callback"}
  BY DEF Delivery, CapInvariant, HeadersInvariant
<1>4. Head(outbox) \in PlainEvent /\ Tail(outbox) \in Seq(PlainEvent)
  BY <1>2, <1>3, HeadTailProperties
<1>5. Append(events, Head(outbox)) \in Seq(PlainEvent)
  BY <1>3, <1>4, AppendProperties
<1>6. batch' \in Seq(PlainEvent) /\ events' \in Seq(PlainEvent) /\ outbox' \in Seq(PlainEvent)
  BY <1>1, <1>3, <1>4, <1>5 DEF WorkerStep, PostCheck, PostPush
<1>7. enabled => InFlight' = InFlight
  <2>1. CASE PostPush
    BY <2>1, InFlightPushed DEF WorkerStep
  <2>2. CASE PostCheck
    BY <1>1, <2>2 DEF PostCheck, InFlight
  <2> QED
    BY <2>1, <2>2 DEF WorkerStep
<1>8. enabled' => enabled /\ Undelivered' = Undelivered
  BY <1>1, <1>7 DEF Undelivered
<1>9. \A j \in Jobs : Found(j)' = Found(j)
  BY <1>1 DEF Found
<1> QED
  BY <1>1, <1>3, <1>6, <1>8, <1>9, KeptDelivery

----------------------------------------------------------------------------
(* The steps of the main thread *)

\* A native only makes requests of the worker, and drops records.
LEMMA NativeDelivery ==
  ASSUME InductiveInvariant, Delivery, UNCHANGED unchangedByNatives,
         nextJobId' \in {nextJobId, nextJobId + 1},
         \A j \in Jobs : Found(j)' => Found(j) \/ j >= nextJobId,
         \A j \in Jobs :
           /\ log'[j].headersHandled = log[j].headersHandled /\ log'[j].headersHeard = log[j].headersHeard
           /\ log'[j].outcome = "Ok" => log[j].outcome = "Ok" /\ log'[j].length = log[j].length
  PROVE  Delivery'
<1>1. /\ UNCHANGED <<jobs, xfer, batch, events, outbox, enabled, mpc>>
      /\ nextJobId \in Nat
  BY DEF unchangedByNatives, queueVars, InductiveInvariant, TypeOK, RecordTypeOK
<1>2. Undelivered' = Undelivered
  BY <1>1 DEF Undelivered, InFlight
<1>3. /\ batch' \in Seq(PlainEvent) /\ events' \in Seq(PlainEvent) /\ outbox' \in Seq(PlainEvent)
      /\ (enabled <=> mpc \in {"idle", "batch", "callback"})'
  BY <1>1 DEF Delivery, CapInvariant, HeadersInvariant
<1>4. nextJobId' \in Nat /\ nextJobId' >= nextJobId
  BY <1>1
<1> QED
  BY <1>1, <1>2, <1>3, <1>4, KeptDelivery

LEMMA NativesDelivery ==
  ASSUME InductiveInvariant, Delivery, Natives
  PROVE  Delivery'
<1>0. /\ log \in [Jobs -> Log] /\ \A j \in Jobs : log[j] \in Log
      /\ records \in [Jobs -> RecordState] /\ nextJobId \in Nat
  BY DEF InductiveInvariant, TypeOK, RecordTypeOK
<1>1. ASSUME SubmitJob PROVE Delivery'
  <2>1. /\ UNCHANGED log /\ UNCHANGED unchangedByNatives /\ nextJobId' = nextJobId + 1
        /\ records' = [records EXCEPT ![nextJobId] = "idle"]
    BY <1>1 DEF SubmitJob
  <2>2. \A j \in Jobs : Found(j)' => Found(j) \/ j >= nextJobId
    BY <1>0, <2>1 DEF Found
  <2> QED
    BY <2>1, <2>2, NativeDelivery
<1>2. ASSUME NEW S, Cancelled(S), UNCHANGED <<records, nextJobId>>,
             UNCHANGED unchangedByNatives
      PROVE  Delivery'
  <2>1. \A j \in Jobs : /\ log'[j].headersHandled = log[j].headersHandled /\ log'[j].headersHeard = log[j].headersHeard
                        /\ log'[j].outcome = log[j].outcome /\ log'[j].length = log[j].length
    BY <1>0, <1>2 DEF Cancelled, Log
  <2> QED
    BY <1>2, <2>1, NativeDelivery DEF Found
<1>3. ASSUME NEW S, \A j \in S : Found(j), DropJobs(S), UNCHANGED nextJobId,
             UNCHANGED unchangedByNatives
      PROVE  Delivery'
  <2>1. \A j \in Jobs : log'[j] = log[j] \/ log'[j] = [log[j] EXCEPT !.outcome = "dropped"]
    BY <1>3 DEF DropJobs
  <2>2. \A j \in Jobs :
          /\ log'[j].headersHandled = log[j].headersHandled /\ log'[j].headersHeard = log[j].headersHeard
          /\ log'[j].outcome = "Ok" => log[j].outcome = "Ok" /\ log'[j].length = log[j].length
    BY <1>0, <2>1 DEF Log
  <2>3. \A j \in Jobs : Found(j)' => Found(j)
    BY <1>3 DEF DropJobs, Found
  <2> QED
    BY <1>3, <2>2, <2>3, NativeDelivery
<1>4. ASSUME NEW j \in Jobs, CancelJob(j) PROVE Delivery'
  BY <1>2, <1>4 DEF CancelJob
<1>5. ASSUME NEW c \in Clients, NEW p \in Plugins, CancelJobsForClient(c, p)
      PROVE  Delivery'
  BY <1>2, <1>5 DEF CancelJobsForClient
<1>6. ASSUME NEW c \in Clients, OnHandleDestroy(c) PROVE Delivery'
  BY <1>3, <1>6 DEF OnHandleDestroy, FoundForClient
<1>7. ASSUME NEW p \in Plugins, OnPluginUnloaded(p) PROVE Delivery'
  BY <1>3, <1>7 DEF OnPluginUnloaded
<1> QED
  BY <1>1, <1>4, <1>5, <1>6, <1>7 DEF Natives

\* The main thread goes on without telling the plugin more.
LEMMA MainStepDelivery ==
  ASSUME InductiveInvariant, Delivery, UNCHANGED <<jobs, xfer, outbox, nextJobId>>,
         batch' \in Seq(PlainEvent), events' \in Seq(PlainEvent),
         Undelivered' = Undelivered,
         (enabled <=> mpc \in {"idle", "batch", "callback"})', enabled' => enabled,
         \A j \in Jobs : Found(j)' => Found(j),
         \A j \in Jobs :
           /\ log'[j].headersHandled = log[j].headersHandled /\ log'[j].headersHeard = log[j].headersHeard
           /\ log'[j].outcome = log[j].outcome /\ log'[j].length = log[j].length
  PROVE  Delivery'
<1>1. nextJobId \in Nat /\ outbox \in Seq(PlainEvent)
  BY DEF InductiveInvariant, TypeOK, RecordTypeOK, Delivery, CapInvariant
<1> QED
  BY <1>1, KeptDelivery

LEMMA OnGameFrameDelivery ==
  ASSUME InductiveInvariant, Delivery, OnGameFrame
  PROVE  Delivery'
<1>1. /\ UNCHANGED <<jobs, xfer, outbox, nextJobId, records, log, enabled>>
      /\ batch' = events /\ events' = <<>> /\ mpc = "idle" /\ mpc' = "batch"
  BY DEF OnGameFrame, Drain, workerVars
<1>2. Undelivered' = Undelivered
  BY <1>1, InFlightDrained DEF Undelivered
<1>3. batch' \in Seq(PlainEvent) /\ events' \in Seq(PlainEvent)
  BY <1>1, EmptySeq DEF Delivery, CapInvariant
<1>4. (enabled <=> mpc \in {"idle", "batch", "callback"})'
  BY <1>1 DEF Delivery, HeadersInvariant
<1>5. \A j \in Jobs : Found(j)' => Found(j)
  BY <1>1 DEF Found
<1> QED
  BY <1>1, <1>2, <1>3, <1>4, <1>5, MainStepDelivery

LEMMA StillDelivery ==
  ASSUME InductiveInvariant, Delivery, EndFrame \/ BeginUnload \/ StopWorker
  PROVE  Delivery'
<1>1. /\ UNCHANGED <<jobs, xfer, batch, events, outbox, nextJobId, records, log>>
      /\ mpc # "callback" /\ mpc' # "callback"
  BY DEF EndFrame, BeginUnload, StopWorker, workerVars, queueVars
<1>2. Undelivered' = Undelivered
  <2>1. InFlight' = InFlight
    BY <1>1 DEF InFlight
  <2> QED
    BY <1>1, <2>1 DEF Undelivered
<1>3. batch' \in Seq(PlainEvent) /\ events' \in Seq(PlainEvent)
  BY <1>1 DEF Delivery, CapInvariant
<1>4. (enabled <=> mpc \in {"idle", "batch", "callback"})'
  BY DEF EndFrame, BeginUnload, StopWorker, SetEnabled, queueVars, Delivery, HeadersInvariant
<1>5. enabled' => enabled
  BY DEF EndFrame, BeginUnload, StopWorker, SetEnabled, queueVars
<1>6. \A j \in Jobs : Found(j)' => Found(j)
  BY <1>1 DEF Found
<1> QED
  BY <1>1, <1>2, <1>3, <1>4, <1>5, <1>6, MainStepDelivery

LEMMA ReturnFromCallbackDelivery ==
  ASSUME InductiveInvariant, Delivery, NEW handled \in BOOLEAN, ReturnFromCallback(handled)
  PROVE  Delivery'
<1> DEFINE j == NextEvent.id
<1>1. /\ batch # <<>> /\ mpc = "callback" /\ batch' = Tail(batch) /\ mpc' = "batch"
      /\ UNCHANGED <<jobs, xfer, events, outbox, enabled, nextJobId>>
      /\ records' = [records EXCEPT ![j] = AfterDispatch(@)]
      /\ log' = IF handled THEN [log EXCEPT ![j].cancelled = TRUE] ELSE log
  BY DEF ReturnFromCallback, queueVars, InductiveInvariant, MainInvariant
<1>2. /\ j \in Jobs /\ records \in [Jobs -> RecordState]
      /\ log \in [Jobs -> Log] /\ \A i \in Jobs : log[i] \in Log
  BY <1>1, NextEventType DEF InductiveInvariant, TypeOK, RecordTypeOK
<1>3. Undelivered' = Undelivered
  <2>1. InFlight' = Tail(InFlight)
    BY <1>1, OldestInFlight DEF InFlight
  <2> QED
    BY <1>1, <2>1 DEF Undelivered
<1>4. batch' \in Seq(PlainEvent) /\ events' \in Seq(PlainEvent)
  BY <1>1, HeadTailProperties DEF Delivery, CapInvariant
<1>5. (enabled <=> mpc \in {"idle", "batch", "callback"})'
  BY <1>1 DEF Delivery, HeadersInvariant
<1> HIDE DEF j
<1>6. \A i \in Jobs : Found(i)' => Found(i)
  BY <1>1, <1>2 DEF Found, AfterDispatch
<1>7. \A i \in Jobs : /\ log'[i].headersHandled = log[i].headersHandled /\ log'[i].headersHeard = log[i].headersHeard
                      /\ log'[i].outcome = log[i].outcome /\ log'[i].length = log[i].length
  BY <1>1, <1>2 DEF Log
<1> QED
  BY <1>1, <1>3, <1>4, <1>5, <1>6, <1>7, MainStepDelivery

LEMMA FinishUnloadDelivery ==
  ASSUME InductiveInvariant, Delivery, FinishUnload
  PROVE  Delivery'
<1>1. /\ jobs' = [j \in Jobs |-> IF j \in active \cup incoming THEN DestroyedJob(j) ELSE jobs[j]]
      /\ xfer' = [j \in Jobs |-> IF j \in active THEN NoTransfer ELSE xfer[j]]
      /\ records' = [j \in Jobs |-> "absent"]
      /\ log' = [j \in Jobs |-> IF Found(j) THEN [log[j] EXCEPT !.outcome = "dropped"]
                                ELSE log[j]]
      /\ mpc = "joining" /\ mpc' = "unloaded" /\ events' = <<>>
      /\ UNCHANGED <<enabled, outbox, nextJobId, batch>>
  BY DEF FinishUnload, Drain
<1>2. \A j \in Jobs : xfer'[j].state = "none"
  <2>1. \A j \in Jobs : xfer[j].state # "none" => j \in active
    BY DEF InductiveInvariant, JobsInvariant, JobPlaced
  <2> QED
    BY <1>1, <2>1 DEF NoTransfer
<1>3. ~enabled /\ ~enabled' /\ (enabled <=> mpc \in {"idle", "batch", "callback"})'
  BY <1>1 DEF Delivery, HeadersInvariant
<1>4. \A j \in Jobs : \/ jobs'[j] = jobs[j]
                      \/ jobs'[j] = DestroyedJob(j) /\ xfer'[j].state = "none"
  BY <1>1, <1>2
<1>5. /\ batch' \in Seq(PlainEvent) /\ events' \in Seq(PlainEvent) /\ outbox' \in Seq(PlainEvent)
      /\ nextJobId' = nextJobId /\ nextJobId \in Nat
  BY <1>1, EmptySeq DEF Delivery, CapInvariant, InductiveInvariant, TypeOK, RecordTypeOK
<1>6. \A j \in Jobs :
        /\ log'[j].headersHandled = log[j].headersHandled /\ log'[j].headersHeard = log[j].headersHeard
        /\ log'[j].outcome = "Ok" => log[j].outcome = "Ok" /\ log'[j].length = log[j].length
  <2>1. \A j \in Jobs : log[j] \in Log
    BY DEF InductiveInvariant, TypeOK, RecordTypeOK
  <2>2. \A j \in Jobs : log'[j] = log[j] \/ log'[j] = [log[j] EXCEPT !.outcome = "dropped"]
    BY <1>1
  <2> QED
    BY <2>1, <2>2 DEF Log
<1>7. \A j \in Jobs : ~Found(j)'
  BY <1>1 DEF Found
<1> QED
  BY <1>2, <1>3, <1>4, <1>5, <1>6, <1>7, KeptDelivery

\* A step that tells the plugin of the oldest event, or skips it because its
\* request was dropped.
LEMMA TailDelivery ==
  ASSUME InductiveInvariant, Delivery, batch # <<>>, mpc = "batch",
         UNCHANGED <<jobs, xfer, events, outbox, enabled, nextJobId>>,
         mpc' \in {"batch", "callback"},
         batch' = IF mpc' = "callback" THEN batch ELSE Tail(batch),
         \A j \in Jobs : Found(j)' => Found(j),
         \A j \in Jobs : log[j].headersHandled > 0 => log'[j].headersHandled > 0,
         \A j \in Jobs : Found(j) /\ IsOf(NextEvent, j, "Headers") => log'[j].headersHandled > 0,
         HeadersHeard',
         \A j \in Jobs \ (FileJobs \cup StreamJobs) :
           log'[j].outcome = "Ok" =>
             \/ log[j].outcome = "Ok" /\ log'[j].length = log[j].length
             \/ log'[j].length <= MaxBodySize
  PROVE  Delivery'
<1>1. /\ enabled /\ enabled' /\ Undelivered = InFlight /\ Undelivered \in Seq(TransferEvent)
      /\ Undelivered # <<>> /\ Undelivered[1] = NextEvent
      /\ Tail(batch) \o events \o outbox = Tail(Undelivered)
  <2>1. enabled /\ Undelivered = InFlight
    BY DEF Delivery, HeadersInvariant, Undelivered
  <2> QED
    BY <2>1, InFlightType, OldestInFlight
<1>2. Undelivered' = Tail(Undelivered)
  <2>1. CASE mpc' = "callback"
    <3>1. InFlight' = InFlight
      BY <2>1 DEF InFlight
    <3> QED
      BY <1>1, <2>1, <3>1 DEF Undelivered
  <2>2. CASE mpc' # "callback"
    <3>1. InFlight' = Tail(batch) \o events \o outbox
      BY <2>2 DEF InFlight
    <3> QED
      BY <1>1, <2>2, <3>1 DEF Undelivered
  <2> QED
    BY <2>1, <2>2
<1>3. CapInvariant'
  <2>1. batch' \in Seq(PlainEvent)
    BY HeadTailProperties DEF Delivery, CapInvariant
  <2> QED
    BY <2>1 DEF Delivery, CapInvariant
<1>4. 1 \in DOMAIN Undelivered
  <2>1. Len(Undelivered) \in Nat \ {0} /\ DOMAIN Undelivered = 1..Len(Undelivered)
    BY <1>1, EmptySeq, LenProperties
  <2> QED
    BY <2>1
<1>5. ASSUME NEW j \in HeaderJobs PROVE HeadersFirst(j)'
  <2> DEFINE told   == log[j].headersHandled > 0
             told2  == log'[j].headersHandled > 0
             posted == jobs[j].headersPosted
  <2>1. j \in Jobs /\ HeadersFirst(j)
    BY RestJobAssumption DEF Delivery, HeadersInvariant
  <2>2. ASSUME Found(j)' PROVE Headed(Undelivered', j, told2, posted)
    <3>1. Headed(Undelivered, j, told, posted)
      BY <1>1, <2>1, <2>2 DEF HeadersFirst
    <3>2. (told => told2) /\ (IsOf(Undelivered[1], j, "Headers") => told2)
      BY <1>1, <2>1, <2>2
    <3> HIDE DEF told, told2, posted
    <3> QED
      BY <1>1, <1>2, <3>1, <3>2, HeadedTail
  <2>3. ASSUME j >= nextJobId
        PROVE  \A i \in DOMAIN Undelivered' : Undelivered'[i].id # j
    <3>1. \A i \in DOMAIN Undelivered : Undelivered[i].id # j
      BY <1>1, <2>1, <2>3 DEF HeadersFirst
    <3>2. \A i \in DOMAIN Tail(Undelivered) :
            i + 1 \in DOMAIN Undelivered /\ Tail(Undelivered)[i] = Undelivered[i + 1]
      <4>1. /\ Len(Undelivered) \in Nat /\ DOMAIN Undelivered = 1..Len(Undelivered)
            /\ DOMAIN Tail(Undelivered) = 1..(Len(Undelivered) - 1)
            /\ \A i \in 1..(Len(Undelivered) - 1) :
                 Tail(Undelivered)[i] = Undelivered[i + 1]
        BY <1>1, HeadTailProperties, LenProperties
      <4> QED
        BY <4>1
    <3> QED
      BY <1>2, <3>1, <3>2
  <2> QED
    BY <2>1, <2>2, <2>3 DEF HeadersFirst
<1>6. (enabled <=> mpc \in {"idle", "batch", "callback"})'
  BY <1>1
<1> QED
  BY <1>3, <1>5, <1>6 DEF Delivery, HeadersInvariant

\* The oldest event in the batch is as a method of a job made it.
LEMMA NextEventPlain ==
  ASSUME InductiveInvariant, Delivery, batch # <<>>
  PROVE  NextEvent \in PlainEvent /\ NextEvent.id \in Jobs
BY HeadTailProperties DEF Delivery, CapInvariant, NextEvent, PlainEvent, TransferEvent

LEMMA SkipEventDelivery ==
  ASSUME InductiveInvariant, Delivery, SkipEvent
  PROVE  Delivery'
<1>1. /\ batch # <<>> /\ mpc = "batch" /\ mpc' = mpc /\ batch' = Tail(batch)
      /\ UNCHANGED <<jobs, xfer, events, outbox, enabled, nextJobId, records, log>>
      /\ ~Found(NextEvent.id)
  BY DEF SkipEvent, workerVars, queueVars
<1>2. \A j \in Jobs : Found(j)' = Found(j)
  BY <1>1 DEF Found
<1>3. \A j \in Jobs : Found(j) => ~IsOf(NextEvent, j, "Headers")
  BY <1>1 DEF IsOf
<1>4. /\ \A j \in Jobs : log[j].headersHandled > 0 => log'[j].headersHandled > 0
      /\ \A j \in Jobs : Found(j) /\ IsOf(NextEvent, j, "Headers") => log'[j].headersHandled > 0
      /\ HeadersHeard'
  BY <1>1, <1>3 DEF Delivery, HeadersInvariant, HeadersHeard
<1>5. \A j \in Jobs \ (FileJobs \cup StreamJobs) :
        log'[j].outcome = "Ok" =>
          \/ log[j].outcome = "Ok" /\ log'[j].length = log[j].length
          \/ log'[j].length <= MaxBodySize
  BY <1>1
<1>6. batch' = IF mpc' = "callback" THEN batch ELSE Tail(batch)
  BY <1>1
<1>7. mpc' \in {"batch", "callback"} /\ \A j \in Jobs : Found(j)' => Found(j)
  BY <1>1, <1>2
<1> QED
  BY <1>1, <1>4, <1>5, <1>6, <1>7, TailDelivery

\* What a headers, data or progress event adds to the log.
LEMMA IntermediateTold ==
  ASSUME InductiveInvariant, Delivery, batch # <<>>, NextEvent.kind # "Complete",
         Found(NextEvent.id), NEW ran \in BOOLEAN, ran \/ CallbackMayBeMissing
                                                  \/ NextEvent.kind = "Progress",
         LogIntermediate(NextEvent, ran)
  PROVE  /\ \A j \in Jobs :
              /\ log[j].headersHandled > 0 => log'[j].headersHandled > 0
              /\ IsOf(NextEvent, j, "Headers") => log'[j].headersHandled > 0
              /\ log'[j].outcome = log[j].outcome /\ log'[j].length = log[j].length
         /\ HeadersHeard'
<1> DEFINE id == NextEvent.id
           n  == NextEvent.n
           more == IF NextEvent.kind = "Headers" THEN 1 ELSE 0
           heard == ran /\ NextEvent.kind = "Headers"
<1>1. /\ id \in Jobs /\ log \in [Jobs -> Log] /\ \A j \in Jobs : log[j] \in Log
  BY NextEventPlain DEF InductiveInvariant, TypeOK, RecordTypeOK
<1>2. log' = [log EXCEPT ![id].headersHandled = @ + more, ![id].bytesHandled = @ + n,
                         ![id].headersHeard = @ \/ heard]
  BY DEF LogIntermediate
<1>3. /\ more \in Nat /\ (NextEvent.kind = "Headers" => more = 1)
      /\ (NextEvent.kind # "Headers" => more = 0)
      /\ (NextEvent.kind = "Headers" => heard \/ CallbackMayBeMissing)
  OBVIOUS
<1>4. NextEvent.id = id
  OBVIOUS
<1> HIDE DEF id, n, more, heard
<1>5. /\ log'[id].headersHandled = log[id].headersHandled + more
      /\ log'[id].headersHeard = (log[id].headersHeard \/ heard)
      /\ log'[id].outcome = log[id].outcome /\ log'[id].length = log[id].length
      /\ \A j \in Jobs \ {id} : log'[j] = log[j]
  BY <1>1, <1>2 DEF Log
<1>6. log[id].headersHandled \in Nat
  BY <1>1 DEF Log
<1>7. /\ log[id].headersHandled > 0 => log'[id].headersHandled > 0
      /\ NextEvent.kind = "Headers" => log'[id].headersHandled > 0
  BY <1>3, <1>5, <1>6
<1>8. ASSUME NEW j \in Jobs
      PROVE  /\ log[j].headersHandled > 0 => log'[j].headersHandled > 0
             /\ IsOf(NextEvent, j, "Headers") => log'[j].headersHandled > 0
             /\ log'[j].outcome = log[j].outcome /\ log'[j].length = log[j].length
  <2>1. CASE j = id
    BY <1>5, <1>7, <2>1 DEF IsOf
  <2>2. CASE j # id
    BY <1>4, <1>5, <2>2 DEF IsOf
  <2> QED
    BY <2>1, <2>2
<1>9. HeadersHeard'
  <2> SUFFICES ASSUME ~CallbackMayBeMissing, NEW j \in Jobs, log'[j].headersHandled > 0
               PROVE  log'[j].headersHeard
    BY DEF HeadersHeard
  <2>1. \A i \in Jobs : log[i].headersHandled > 0 => log[i].headersHeard
    BY DEF Delivery, HeadersInvariant, HeadersHeard
  <2>2. CASE j = id /\ NextEvent.kind = "Headers"
    BY <1>3, <1>5, <2>2
  <2>3. CASE j = id /\ NextEvent.kind # "Headers"
    <3>1. log[j].headersHandled > 0
      BY <1>3, <1>5, <1>6, <2>3
    <3> QED
      BY <1>5, <2>1, <2>3, <3>1
  <2>4. CASE j # id
    BY <1>5, <2>1, <2>4
  <2> QED
    BY <2>2, <2>3, <2>4
<1> QED
  BY <1>8, <1>9

LEMMA HandleIntermediateDelivery ==
  ASSUME InductiveInvariant, Delivery, HandleIntermediate \/ HandleIntermediateUnheard
  PROVE  Delivery'
<1>1. /\ batch # <<>> /\ mpc = "batch" /\ mpc' \in {"batch", "callback"}
      /\ batch' = IF mpc' = "callback" THEN batch ELSE Tail(batch)
      /\ UNCHANGED <<jobs, xfer, events, outbox, enabled, nextJobId>>
      /\ NextEvent.kind # "Complete" /\ Found(NextEvent.id)
  BY DEF HandleIntermediate, HandleIntermediateUnheard, workerVars, queueVars
<1>2. records' \in {records, [records EXCEPT ![NextEvent.id] = "dispatching"]}
  BY DEF HandleIntermediate, HandleIntermediateUnheard
<1>3. \A j \in Jobs : Found(j)' => Found(j)
  BY <1>1, <1>2 DEF Found, InductiveInvariant, TypeOK, RecordTypeOK
<1>4. PICK ran \in BOOLEAN : /\ LogIntermediate(NextEvent, ran)
                             /\ ran \/ CallbackMayBeMissing \/ NextEvent.kind = "Progress"
  BY DEF HandleIntermediate, HandleIntermediateUnheard
<1> QED
  BY <1>1, <1>3, <1>4, IntermediateTold, TailDelivery

LEMMA DispatchCompleteDelivery ==
  ASSUME InductiveInvariant, Delivery, DispatchComplete \/ DispatchCompleteUnheard
  PROVE  Delivery'
<1> DEFINE id == NextEvent.id
<1>1. /\ batch # <<>> /\ mpc = "batch" /\ mpc' \in {"batch", "callback"}
      /\ batch' = IF mpc' = "callback" THEN batch ELSE Tail(batch)
      /\ UNCHANGED <<jobs, xfer, events, outbox, enabled, nextJobId>>
      /\ NextEvent.kind = "Complete" /\ records' = [records EXCEPT ![id] = "absent"]
  BY DEF DispatchComplete, DispatchCompleteUnheard, workerVars, queueVars
<1>2. \/ log' = [log EXCEPT ![id].outcome = NextEvent.status, ![id].length = NextEvent.n]
      \/ log' = [log EXCEPT ![id].outcome = "lost"]
  BY DEF DispatchComplete, DispatchCompleteUnheard
<1>3. /\ NextEvent \in PlainEvent /\ id \in Jobs /\ records \in [Jobs -> RecordState]
      /\ log \in [Jobs -> Log] /\ \A j \in Jobs : log[j] \in Log
  BY <1>1, NextEventPlain DEF InductiveInvariant, TypeOK, RecordTypeOK
<1>4. \A j \in Jobs : ~IsOf(NextEvent, j, "Headers") /\ ~IsOf(NextEvent, j, "Data")
  BY <1>1 DEF IsOf
<1>5. NextEvent.status = "Ok" /\ id \notin FileJobs \cup StreamJobs => NextEvent.n <= MaxBodySize
  BY <1>1, <1>3 DEF PlainEvent
<1> HIDE DEF id
<1>6. \A j \in Jobs : Found(j)' => Found(j)
  BY <1>1, <1>3 DEF Found
<1>7. \A j \in Jobs : /\ log'[j].headersHandled = log[j].headersHandled
                      /\ log'[j].headersHeard = log[j].headersHeard
  BY <1>2, <1>3 DEF Log
<1>8. /\ \A j \in Jobs \ {id} : log'[j] = log[j]
      /\ \/ log'[id].outcome = NextEvent.status /\ log'[id].length = NextEvent.n
         \/ log'[id].outcome = "lost"
  BY <1>2, <1>3 DEF Log
<1>9. \A j \in Jobs \ (FileJobs \cup StreamJobs) :
        log'[j].outcome = "Ok" =>
          \/ log[j].outcome = "Ok" /\ log'[j].length = log[j].length
          \/ log'[j].length <= MaxBodySize
  BY <1>5, <1>8
<1>10. /\ \A j \in Jobs : log[j].headersHandled > 0 => log'[j].headersHandled > 0
       /\ \A j \in Jobs : Found(j) /\ IsOf(NextEvent, j, "Headers") => log'[j].headersHandled > 0
       /\ HeadersHeard'
  BY <1>4, <1>7 DEF Delivery, HeadersInvariant, HeadersHeard
<1> QED
  BY <1>1, <1>6, <1>9, <1>10, TailDelivery

----------------------------------------------------------------------------
(* Every step *)

LEMMA InitDelivery == Init => Delivery
<1> SUFFICES ASSUME Init PROVE Delivery
  OBVIOUS
<1>1. /\ batch = <<>> /\ events = <<>> /\ outbox = <<>> /\ enabled = TRUE /\ mpc = "idle"
      /\ \A j \in Jobs :
           /\ log[j].outcome = "none" /\ log[j].headersHandled = 0 /\ ~Found(j)
           /\ jobs[j].headersPosted = FALSE /\ jobs[j].streamBuffer = 0
           /\ jobs[j].responseBody = 0 /\ jobs[j].bodyLength = 0
           /\ xfer[j].state = "none"
  BY DEF Init, QueueInit, WorkerInit, FreshJob, NoTransfer, Found
<1>2. DOMAIN Undelivered = {}
  <2>1. <<>> \o <<>> = <<>>
    BY ConcatEmptySeq, EmptySeq
  <2>2. InFlight = <<>>
    BY <1>1, <2>1 DEF InFlight
  <2> QED
    BY <1>1, <2>2 DEF Undelivered
<1>3. CapInvariant
  <2>1. <<>> \in Seq(PlainEvent)
    BY EmptySeq
  <2>2. \A j \in Jobs : BodyKept(jobs[j])
    BY <1>1, RestJobAssumption DEF BodyKept
  <2> QED
    BY <1>1, <2>1, <2>2 DEF CapInvariant
<1>4. HeadersInvariant
  BY <1>1, <1>2, RestJobAssumption DEF HeadersInvariant, HeadersFirst, HeadersHeard
<1> QED
  BY <1>3, <1>4 DEF Delivery

LEMMA MainControlDelivery ==
  ASSUME InductiveInvariant, Delivery, MainControl
  PROVE  Delivery'
<1>1. ASSUME NEW handled \in BOOLEAN, ReturnFromCallback(handled) PROVE Delivery'
  BY <1>1, ReturnFromCallbackDelivery
<1> QED
  BY <1>1, OnGameFrameDelivery, SkipEventDelivery, HandleIntermediateDelivery,
     DispatchCompleteDelivery, StillDelivery, FinishUnloadDelivery
     DEF MainControl

LEMMA WorkerNextDelivery ==
  ASSUME InductiveInvariant, OrderInvariant, Delivery, WorkerNext
  PROVE  Delivery'
<1>1. ASSUME NEW j \in Jobs,
             \/ WorkerStep(AdmitIncoming(j)) \/ WorkerStep(ApplyCancellation(j))
             \/ WorkerStep(StartDueRetry(j)) \/ WorkerStep(ReapCompleted(j))
      PROVE  Delivery'
  BY <1>1, AdmitIncomingDelivery, ApplyCancellationDelivery, StartDueRetryDelivery,
     ReapCompletedDelivery
<1>2. ASSUME NEW j \in Jobs,
             \/ \E status \in Statuses : WorkerStep(CurlHeaders(j, status))
             \/ WorkerStep(CurlTrailers(j))
             \/ WorkerStep(CurlProgress(j)) \/ WorkerStep(CurlDone(j))
      PROVE  Delivery'
  BY <1>2, CurlHeadersDelivery, CurlTrailersDelivery, CurlProgressDelivery, CurlDoneDelivery
<1>3. ASSUME NEW j \in Jobs, NEW total \in 1..MaxWrite,
             WorkerStep(CurlWrite(j, total)) \/ WorkerStep(CurlWriteStream(j, total))
      PROVE  Delivery'
  <2>1. total \in Nat
    OBVIOUS
  <2> QED
    BY <1>3, <2>1, CurlWriteDelivery, CurlWriteStreamDelivery
<1> QED
  BY <1>1, <1>2, <1>3, PostDelivery, SilentWorkerDelivery, ApplyConsumedDelivery,
     RemoveFinishedDelivery
     DEF WorkerNext

LEMMA NextDelivery ==
  InductiveInvariant /\ OrderInvariant /\ Delivery /\ [Next]_vars => Delivery'
<1> SUFFICES ASSUME InductiveInvariant, OrderInvariant, Delivery, [Next]_vars PROVE Delivery'
  OBVIOUS
<1>1. ASSUME UNCHANGED vars PROVE Delivery'
  <2>1. UNCHANGED <<jobs, xfer, queueVars, mainVars>>
    BY <1>1 DEF vars, workerVars
  <2> QED
    BY <2>1, SilentStepDelivery
<1> QED
  BY <1>1, NativesDelivery, MainControlDelivery, StillDelivery, WorkerNextDelivery
     DEF Next, Unloaded

LEMMA DeliveryHolds == Spec => []Delivery
BY InitDelivery, NextDelivery, InductiveInvariantHolds, EventsInOrder, PTL DEF Spec

----------------------------------------------------------------------------
(* The theorems *)

\* A body that is kept in memory stays within its cap, and so does the length of
\* one that is reported as Ok, whatever the writes, the attempts and the size of
\* the cap (RestJob::WriteMemory, RestJob::ResetAttemptState).
THEOREM BodiesCapped == Spec => []BodyCapped
<1>1. InductiveInvariant /\ Delivery => BodyCapped
  BY DEF Delivery, CapInvariant, BodyKept, BodyCapped, IsPrimary,
         InductiveInvariant, JobsInvariant, JobPlaced
<1> QED
  BY <1>1, DeliveryHolds, InductiveInvariantHolds, PTL

\* If OnData is called next, a Headers event was handled before.
LEMMA DataAfterHeaders ==
  ASSUME InductiveInvariant, Delivery, HandleIntermediate,
         NEW j \in HeaderJobs, IsOf(NextEvent, j, "Data")
  PROVE  /\ log[j].headersHandled > 0
         /\ log[j].headersHeard \/ CallbackMayBeMissing
<1>1. /\ batch # <<>> /\ mpc = "batch" /\ Found(j) /\ j \in Jobs
      /\ HeadersFirst(j) /\ enabled /\ Undelivered = InFlight
  BY RestJobAssumption
     DEF HandleIntermediate, IsOf, Delivery, HeadersInvariant, Undelivered
<1>2. /\ Undelivered \in Seq(TransferEvent) /\ Undelivered # <<>>
      /\ Undelivered[1] = NextEvent
  BY <1>1, InFlightType, OldestInFlight
<1>3. 1 \in DOMAIN Undelivered /\ ~ \E k \in DOMAIN Undelivered : k < 1
  <2>1. Len(Undelivered) \in Nat \ {0} /\ DOMAIN Undelivered = 1..Len(Undelivered)
    BY <1>2, EmptySeq, LenProperties
  <2> QED
    BY <2>1
<1>4. log[j].headersHandled > 0
  <2>1. Headed(Undelivered, j, log[j].headersHandled > 0, jobs[j].headersPosted)
    BY <1>1 DEF HeadersFirst
  <2> QED
    BY <1>2, <1>3, <2>1 DEF Headed
<1> QED
  BY <1>1, <1>4 DEF Delivery, HeadersInvariant, HeadersHeard

\* OnData runs only after OnHeaders did, unless the Headers event found no function
\* or no response handle, for any number of requests, attempts, redirects and
\* pauses: headers are posted before the body they belong to is buffered, and the
\* queue keeps the order (RestJob::OnHeadersComplete, RestJob::WriteStream).
THEOREM HeadersComeFirst == Spec => HeadersBeforeData
<1>1. InductiveInvariant /\ Delivery
        => [\A j \in HeaderJobs :
              HandleIntermediate /\ IsOf(NextEvent, j, "Data") =>
                \/ log[j].headersHeard
                \/ CallbackMayBeMissing /\ log[j].headersHandled > 0]_vars
  BY DataAfterHeaders
<1> QED
  BY <1>1, DeliveryHolds, InductiveInvariantHolds, PTL DEF HeadersBeforeData

----------------------------------------------------------------------------
(* Sums *)

\* The pairs that SumOf counts.
Units(numbers) == UNION {{i} \X (1..numbers[i]) : i \in DOMAIN numbers}

LEMMA UnitsOf ==
  ASSUME NEW s \in Seq(Nat)
  PROVE  /\ IsFiniteSet(Units(s))
         /\ SumOf(s) = Cardinality(Units(s)) /\ SumOf(s) \in Nat
         /\ \A u : u \in Units(s) <=> \E i \in 1..Len(s) : u \in {i} \X (1..s[i])
<1> DEFINE parts == {{i} \X (1..s[i]) : i \in DOMAIN s}
           f     == [i \in DOMAIN s |-> {i} \X (1..s[i])]
<1>1. /\ Len(s) \in Nat /\ DOMAIN s = 1..Len(s) /\ \A i \in 1..Len(s) : s[i] \in Nat
  BY LenProperties, ElementOfSeq
<1>2. IsFiniteSet(DOMAIN s)
  BY <1>1, FS_Interval
<1>3. f \in Surjection(DOMAIN s, parts)
  BY DEF Surjection
<1>4. IsFiniteSet(parts)
  <2> HIDE DEF f, parts
  <2> QED
    BY <1>2, <1>3, FS_Surjection
<1>5. \A T \in parts : IsFiniteSet(T)
  <2> SUFFICES ASSUME NEW i \in DOMAIN s PROVE IsFiniteSet({i} \X (1..s[i]))
    OBVIOUS
  <2> DEFINE index == {i}
             units == 1..s[i]
  <2>1. IsFiniteSet(index)
    BY FS_Singleton
  <2>2. IsFiniteSet(units)
    <3>1. 1 \in Int /\ s[i] \in Int
      BY <1>1
    <3> QED
      BY <3>1, FS_Interval
  <2> HIDE DEF index, units
  <2>3. IsFiniteSet(index \X units)
    BY <2>1, <2>2, FS_Product
  <2> QED
    BY <2>3 DEF index, units
<1>6. Units(s) = UNION parts
  BY DEF Units
<1>7. IsFiniteSet(Units(s))
  <2> HIDE DEF parts
  <2> QED
    BY <1>4, <1>5, <1>6, FS_UNION
<1>8. SumOf(s) = Cardinality(Units(s))
  BY DEF SumOf, Units
<1>9. SumOf(s) \in Nat
  BY <1>7, <1>8, FS_CardinalityType
<1>10. \A u : u \in Units(s) <=> \E i \in 1..Len(s) : u \in {i} \X (1..s[i])
  BY <1>1, <1>6
<1> QED
  BY <1>7, <1>8, <1>9, <1>10

LEMMA SumOfConcat ==
  ASSUME NEW s \in Seq(Nat), NEW t \in Seq(Nat)
  PROVE  s \o t \in Seq(Nat) /\ SumOf(s \o t) = SumOf(s) + SumOf(t)
<1> DEFINE both  == s \o t
           moved == {<<u[1] + Len(s), u[2]>> : u \in Units(t)}
           f     == [u \in Units(t) |-> <<u[1] + Len(s), u[2]>>]
<1>1. /\ both \in Seq(Nat) /\ Len(s) \in Nat /\ Len(t) \in Nat /\ Len(both) = Len(s) + Len(t)
      /\ \A i \in 1..(Len(s) + Len(t)) :
           both[i] = IF i <= Len(s) THEN s[i] ELSE t[i - Len(s)]
  BY ConcatProperties, LenProperties
<1> HIDE DEF both
<1>2. /\ \A u \in Units(s) : /\ u = <<u[1], u[2]>> /\ u[1] \in 1..Len(s)
                             /\ u[2] \in 1..s[u[1]]
      /\ \A u \in Units(t) : /\ u = <<u[1], u[2]>> /\ u[1] \in 1..Len(t)
                             /\ u[2] \in 1..t[u[1]]
      /\ \A i, b : i \in 1..Len(s) /\ b \in 1..s[i] => <<i, b>> \in Units(s)
      /\ \A i, b : i \in 1..Len(t) /\ b \in 1..t[i] => <<i, b>> \in Units(t)
  BY UnitsOf
<1>3. /\ \A u \in Units(both) : /\ u = <<u[1], u[2]>> /\ u[1] \in 1..Len(both)
                                /\ u[2] \in 1..both[u[1]]
      /\ \A i, b : i \in 1..Len(both) /\ b \in 1..both[i] => <<i, b>> \in Units(both)
  <2>1. \A u : u \in Units(both) <=> \E i \in 1..Len(both) : u \in {i} \X (1..both[i])
    BY <1>1, UnitsOf
  <2> QED
    BY <2>1
<1>4. Units(both) = Units(s) \cup moved
  <2>1. ASSUME NEW u \in Units(both) PROVE u \in Units(s) \cup moved
    <3>1. u = <<u[1], u[2]>> /\ u[1] \in 1..(Len(s) + Len(t)) /\ u[2] \in 1..both[u[1]]
      BY <1>1, <1>3
    <3>2. CASE u[1] <= Len(s)
      <4>1. u[1] \in 1..Len(s) /\ both[u[1]] = s[u[1]]
        BY <1>1, <3>1, <3>2
      <4> QED
        BY <1>2, <3>1, <4>1
    <3>3. CASE ~(u[1] <= Len(s))
      <4> DEFINE i == u[1] - Len(s)
      <4>1. i \in 1..Len(t) /\ both[u[1]] = t[i] /\ i + Len(s) = u[1]
        BY <1>1, <3>1, <3>3
      <4>2. <<i, u[2]>> \in Units(t)
        BY <1>2, <3>1, <4>1
      <4>3. <<<<i, u[2]>>[1] + Len(s), <<i, u[2]>>[2]>> = u
        BY <3>1, <4>1
      <4>4. <<<<i, u[2]>>[1] + Len(s), <<i, u[2]>>[2]>> \in moved
        BY <4>2
      <4> HIDE DEF i, moved
      <4> QED
        BY <4>3, <4>4
    <3> QED
      BY <3>2, <3>3
  <2>2. ASSUME NEW u \in Units(s) PROVE u \in Units(both)
    <3>1. u[1] \in 1..Len(both) /\ both[u[1]] = s[u[1]]
      BY <1>1, <1>2
    <3> QED
      BY <1>2, <1>3, <3>1
  <2>3. ASSUME NEW u \in Units(t) PROVE <<u[1] + Len(s), u[2]>> \in Units(both)
    <3>1. /\ u[1] + Len(s) \in 1..Len(both) /\ ~(u[1] + Len(s) <= Len(s))
          /\ (u[1] + Len(s)) - Len(s) = u[1]
      <4> DEFINE n == u[1]
                 m == Len(s)
      <4>1. n \in 1..Len(t) /\ m \in Nat /\ Len(t) \in Nat /\ Len(both) = m + Len(t)
        BY <1>1, <1>2
      <4> HIDE DEF n, m
      <4>2. n + m \in 1..Len(both) /\ ~(n + m <= m) /\ (n + m) - m = n
        BY <4>1
      <4> QED
        BY <4>2 DEF n, m
    <3>2. both[u[1] + Len(s)] = t[u[1]]
      <4> DEFINE k == u[1] + Len(s)
      <4>1. k \in 1..(Len(s) + Len(t)) /\ ~(k <= Len(s)) /\ k - Len(s) = u[1]
        BY <1>1, <3>1
      <4> HIDE DEF k
      <4>2. both[k] = t[k - Len(s)]
        BY <1>1, <4>1
      <4> QED
        BY <4>1, <4>2 DEF k
    <3> QED
      BY <1>2, <1>3, <3>1, <3>2
  <2>4. moved \subseteq Units(both)
    BY <2>3
  <2>5. Units(both) \subseteq Units(s) \cup moved
    BY <2>1
  <2> HIDE DEF moved
  <2> QED
    BY <2>2, <2>4, <2>5
<1>5. Units(s) \cap moved = {}
  <2>1. ASSUME NEW u \in Units(t) PROVE <<u[1] + Len(s), u[2]>> \notin Units(s)
    <3>1. u[1] + Len(s) \notin 1..Len(s)
      BY <1>1, <1>2
    <3> QED
      BY <1>2, <3>1
  <2> QED
    BY <2>1
<1>6. f \in Bijection(Units(t), moved)
  <2>1. ASSUME NEW u \in Units(t), NEW v \in Units(t), f[u] = f[v] PROVE u = v
    <3>1. u[1] + Len(s) = v[1] + Len(s) /\ u[2] = v[2]
      BY <2>1
    <3>2. u[1] = v[1]
      BY <1>1, <1>2, <3>1
    <3> QED
      BY <1>2, <3>1, <3>2
  <2> QED
    BY <2>1 DEF Bijection, Injection, Surjection, IsInjective
<1>7. IsFiniteSet(moved) /\ Cardinality(moved) = Cardinality(Units(t))
  <2> HIDE DEF f, moved
  <2>1. ExistsBijection(Units(t), moved)
    BY <1>6 DEF ExistsBijection
  <2> QED
    BY <2>1, UnitsOf, FS_Bijection
<1>8. Cardinality(Units(both)) = Cardinality(Units(s)) + Cardinality(Units(t))
  <2> HIDE DEF moved
  <2> DEFINE here == Units(s)
  <2>1. IsFiniteSet(here)
    BY UnitsOf
  <2> HIDE DEF here
  <2>2. Cardinality(here \cup moved) =
          Cardinality(here) + Cardinality(moved) - Cardinality(here \cap moved)
    BY <1>7, <2>1, FS_Union
  <2>3. Cardinality(here \cap moved) = 0
    BY <1>5, FS_EmptySet DEF here
  <2>4. Cardinality(here) \in Nat /\ Cardinality(moved) \in Nat
    BY <1>7, <2>1, FS_CardinalityType
  <2> QED
    BY <1>4, <1>7, <2>2, <2>3, <2>4 DEF here
<1> QED
  BY <1>1, <1>8, UnitsOf DEF both

LEMMA SumOfNothing ==
  ASSUME NEW s \in Seq(Nat), \A i \in 1..Len(s) : s[i] = 0
  PROVE  SumOf(s) = 0
<1>1. Units(s) = {}
  BY UnitsOf
<1> QED
  BY <1>1, UnitsOf, FS_EmptySet

LEMMA SumOfOne ==
  ASSUME NEW n \in Nat
  PROVE  <<n>> \in Seq(Nat) /\ SumOf(<<n>>) = n
<1> DEFINE s == <<n>>
           f == [b \in 1..n |-> <<1, b>>]
<1>1. s \in Seq(Nat) /\ Len(s) = 1 /\ s[1] = n
  OBVIOUS
<1> HIDE DEF s
<1>2. \A u : u \in Units(s) <=> u \in {1} \X (1..n)
  BY <1>1, UnitsOf
<1>3. f \in Bijection(1..n, Units(s))
  <2>1. \A b \in 1..n : <<1, b>> \in Units(s)
    BY <1>2
  <2>2. \A u \in Units(s) : \E b \in 1..n : f[b] = u
    BY <1>2
  <2>3. f \in [1..n -> Units(s)] /\ IsInjective(f)
    BY <2>1 DEF IsInjective
  <2> HIDE DEF f
  <2> QED
    BY <2>2, <2>3 DEF Bijection, Injection, Surjection
<1>4. IsFiniteSet(1..n) /\ Cardinality(1..n) = n
  BY FS_Interval
<1>5. Cardinality(Units(s)) = n
  <2> HIDE DEF f
  <2>1. ExistsBijection(1..n, Units(s))
    BY <1>3 DEF ExistsBijection
  <2> QED
    BY <1>4, <2>1, FS_Bijection
<1> QED
  BY <1>1, <1>5, UnitsOf DEF s

----------------------------------------------------------------------------
(* What the elements of a sequence weigh together *)

Weighed(seq, weight) == SumOf([i \in DOMAIN seq |-> weight[seq[i]]])

LEMMA WeighedType ==
  ASSUME NEW S, NEW weight \in [S -> Nat], NEW seq \in Seq(S)
  PROVE  /\ [i \in DOMAIN seq |-> weight[seq[i]]] \in Seq(Nat)
         /\ Len([i \in DOMAIN seq |-> weight[seq[i]]]) = Len(seq)
         /\ Weighed(seq, weight) \in Nat
<1> DEFINE numbers == [i \in DOMAIN seq |-> weight[seq[i]]]
<1>1. Len(seq) \in Nat /\ DOMAIN seq = 1..Len(seq) /\ \A i \in 1..Len(seq) : seq[i] \in S
  BY LenProperties, ElementOfSeq
<1>2. numbers \in [1..Len(seq) -> Nat]
  BY <1>1
<1>3. numbers \in Seq(Nat) /\ Len(numbers) = Len(seq)
  <2>1. numbers \in Seq(Nat) /\ DOMAIN numbers = 1..Len(seq)
    BY <1>1, <1>2, IsASeq
  <2> HIDE DEF numbers
  <2> QED
    BY <1>1, <2>1, LenProperties
<1>4. SumOf(numbers) \in Nat
  <2> HIDE DEF numbers
  <2> QED
    BY <1>3, UnitsOf
<1> QED
  BY <1>3, <1>4 DEF Weighed

LEMMA WeighedConcat ==
  ASSUME NEW S, NEW weight \in [S -> Nat], NEW u \in Seq(S), NEW v \in Seq(S)
  PROVE  Weighed(u \o v, weight) = Weighed(u, weight) + Weighed(v, weight)
<1> DEFINE a == [i \in DOMAIN u |-> weight[u[i]]]
           b == [i \in DOMAIN v |-> weight[v[i]]]
           both == u \o v
           c == [i \in DOMAIN both |-> weight[both[i]]]
<1>1. /\ Len(u) \in Nat /\ DOMAIN u = 1..Len(u)
      /\ Len(v) \in Nat /\ DOMAIN v = 1..Len(v)
      /\ both \in Seq(S) /\ Len(both) = Len(u) + Len(v) /\ DOMAIN both = 1..Len(both)
      /\ \A i \in 1..(Len(u) + Len(v)) :
           both[i] = IF i <= Len(u) THEN u[i] ELSE v[i - Len(u)]
  BY ConcatProperties, LenProperties
<1>2. /\ \A i \in 1..Len(u) : a[i] = weight[u[i]]
      /\ \A i \in 1..Len(v) : b[i] = weight[v[i]]
      /\ \A i \in 1..Len(both) : c[i] = weight[both[i]]
  BY <1>1
<1>3. /\ a \in Seq(Nat) /\ Len(a) = Len(u) /\ b \in Seq(Nat) /\ Len(b) = Len(v)
      /\ c \in Seq(Nat) /\ Len(c) = Len(both)
  BY <1>1, WeighedType
<1>4. /\ Weighed(u, weight) = SumOf(a) /\ Weighed(v, weight) = SumOf(b)
      /\ Weighed(both, weight) = SumOf(c)
  BY DEF Weighed
<1> HIDE DEF a, b, c, both
<1>5. c = a \o b
  <2> DEFINE d == a \o b
  <2>1. /\ d \in Seq(Nat) /\ Len(d) = Len(u) + Len(v)
        /\ \A i \in 1..(Len(u) + Len(v)) : d[i] = IF i <= Len(u) THEN a[i] ELSE b[i - Len(u)]
    <3>1. /\ d \in Seq(Nat) /\ Len(d) = Len(a) + Len(b)
          /\ \A i \in 1..(Len(a) + Len(b)) : d[i] = IF i <= Len(a) THEN a[i] ELSE b[i - Len(a)]
      BY <1>3, ConcatProperties
    <3> QED
      BY <1>3, <3>1
  <2> HIDE DEF d
  <2>2. ASSUME NEW i \in 1..Len(c) PROVE c[i] = d[i]
    <3>1. i \in 1..(Len(u) + Len(v)) /\ c[i] = weight[both[i]]
      BY <1>1, <1>2, <1>3
    <3>2. CASE i <= Len(u)
      <4>1. i \in 1..Len(u) /\ both[i] = u[i] /\ d[i] = a[i]
        BY <1>1, <2>1, <3>1, <3>2
      <4> QED
        BY <1>2, <3>1, <4>1
    <3>3. CASE ~(i <= Len(u))
      <4>1. i - Len(u) \in 1..Len(v)
        BY <1>1, <3>1, <3>3
      <4>2. both[i] = v[i - Len(u)] /\ d[i] = b[i - Len(u)]
        BY <1>1, <2>1, <3>1, <3>3
      <4> QED
        BY <1>2, <3>1, <4>1, <4>2
    <3> QED
      BY <3>2, <3>3
  <2>3. Len(c) = Len(d)
    BY <1>1, <1>3, <2>1
  <2> QED
    BY <1>3, <2>1, <2>2, <2>3, SeqEqual DEF d
<1>6. SumOf(c) = SumOf(a) + SumOf(b)
  BY <1>3, <1>5, SumOfConcat
<1> QED
  BY <1>4, <1>6 DEF both

LEMMA WeighedNothing ==
  ASSUME NEW S, NEW weight \in [S -> Nat], NEW seq \in Seq(S),
         \A i \in DOMAIN seq : weight[seq[i]] = 0
  PROVE  Weighed(seq, weight) = 0
<1> DEFINE numbers == [i \in DOMAIN seq |-> weight[seq[i]]]
<1>1. numbers \in Seq(Nat) /\ Len(numbers) = Len(seq) /\ DOMAIN seq = 1..Len(seq)
  BY WeighedType, LenProperties
<1>2. \A i \in 1..Len(numbers) : numbers[i] = 0
  BY <1>1
<1>3. Weighed(seq, weight) = SumOf(numbers)
  BY DEF Weighed
<1> HIDE DEF numbers
<1> QED
  BY <1>1, <1>2, <1>3, SumOfNothing

LEMMA WeighedOne ==
  ASSUME NEW S, NEW weight \in [S -> Nat], NEW e \in S
  PROVE  <<e>> \in Seq(S) /\ Weighed(<<e>>, weight) = weight[e]
<1> DEFINE numbers == [i \in DOMAIN <<e>> |-> weight[<<e>>[i]]]
<1>1. <<e>> \in Seq(S) /\ Len(<<e>>) = 1 /\ <<e>>[1] = e /\ DOMAIN <<e>> = 1..1
  OBVIOUS
<1>2. /\ numbers \in Seq(Nat) /\ Len(numbers) = 1 /\ numbers[1] = weight[e]
  BY <1>1, WeighedType
<1>3. Weighed(<<e>>, weight) = SumOf(numbers)
  BY DEF Weighed
<1> HIDE DEF numbers
<1>4. /\ <<weight[e]>> \in Seq(Nat) /\ Len(<<weight[e]>>) = 1 /\ <<weight[e]>>[1] = weight[e]
      /\ SumOf(<<weight[e]>>) = weight[e]
  BY SumOfOne
<1>5. numbers = <<weight[e]>>
  <2> DEFINE single == <<weight[e]>>
  <2>1. single \in Seq(Nat) /\ Len(single) = 1 /\ single[1] = weight[e]
    BY <1>4
  <2> HIDE DEF single
  <2>2. \A i \in 1..Len(numbers) : numbers[i] = single[i]
    BY <1>2, <2>1
  <2> QED
    BY <1>2, <2>1, <2>2, SeqEqual DEF single
<1> QED
  BY <1>1, <1>3, <1>4, <1>5

LEMMA WeighedFirst ==
  ASSUME NEW S, NEW weight \in [S -> Nat], NEW seq \in Seq(S), seq # <<>>
  PROVE  /\ Head(seq) \in S /\ Tail(seq) \in Seq(S)
         /\ Weighed(seq, weight) = weight[Head(seq)] + Weighed(Tail(seq), weight)
<1> DEFINE first == <<Head(seq)>>
           rest  == Tail(seq)
<1>1. Head(seq) \in S /\ rest \in Seq(S) /\ seq = first \o rest
  BY HeadTailProperties, FirstAndRest
<1>2. first \in Seq(S) /\ Weighed(first, weight) = weight[Head(seq)]
  BY <1>1, WeighedOne
<1> HIDE DEF first, rest
<1>3. Weighed(seq, weight) = Weighed(first, weight) + Weighed(rest, weight)
  <2>1. Weighed(first \o rest, weight) = Weighed(first, weight) + Weighed(rest, weight)
    BY <1>1, <1>2, WeighedConcat
  <2> QED
    BY <1>1, <2>1
<1> QED
  BY <1>1, <1>2, <1>3 DEF rest

LEMMA WeighedLast ==
  ASSUME NEW S, NEW weight \in [S -> Nat], NEW seq \in Seq(S), NEW e \in S
  PROVE  /\ Append(seq, e) \in Seq(S)
         /\ Weighed(Append(seq, e), weight) = Weighed(seq, weight) + weight[e]
<1> DEFINE last == <<e>>
<1>1. last \in Seq(S) /\ Weighed(last, weight) = weight[e] /\ Append(seq, e) = seq \o last
  BY WeighedOne, AppendIsConcat
<1> HIDE DEF last
<1>2. Weighed(seq \o last, weight) = Weighed(seq, weight) + Weighed(last, weight)
  BY <1>1, WeighedConcat
<1> QED
  BY <1>1, <1>2, AppendProperties

----------------------------------------------------------------------------
(* Data, headers and acknowledgements *)

DataWeight(j) == [e \in TransferEvent |-> IF IsOf(e, j, "Data") THEN e.n ELSE 0]

HeadersWeight(j) == [e \in TransferEvent |-> IF IsOf(e, j, "Headers") THEN 1 ELSE 0]

AckWeight(j) == [c \in Jobs \X Nat |-> IF c[1] = j THEN c[2] ELSE 0]

LEMMA EventWeights ==
  ASSUME NEW j, NEW seq \in Seq(TransferEvent)
  PROVE  /\ DataWeight(j) \in [TransferEvent -> Nat]
         /\ HeadersWeight(j) \in [TransferEvent -> Nat]
         /\ DataBytes(seq, j) = Weighed(seq, DataWeight(j))
         /\ HeadersIn(seq, j) = Weighed(seq, HeadersWeight(j))
<1>1. /\ DataWeight(j) \in [TransferEvent -> Nat]
      /\ HeadersWeight(j) \in [TransferEvent -> Nat]
  BY DEF DataWeight, HeadersWeight, TransferEvent
<1>2. \A i \in DOMAIN seq : seq[i] \in TransferEvent
  BY LenProperties, ElementOfSeq
<1>3. /\ [i \in DOMAIN seq |-> IF IsOf(seq[i], j, "Data") THEN seq[i].n ELSE 0] =
           [i \in DOMAIN seq |-> DataWeight(j)[seq[i]]]
      /\ [i \in DOMAIN seq |-> IF IsOf(seq[i], j, "Headers") THEN 1 ELSE 0] =
           [i \in DOMAIN seq |-> HeadersWeight(j)[seq[i]]]
  BY <1>2 DEF DataWeight, HeadersWeight
<1> QED
  BY <1>1, <1>3 DEF DataBytes, HeadersIn, Weighed

LEMMA AckWeights ==
  ASSUME NEW j, NEW seq \in Seq(Jobs \X Nat)
  PROVE  /\ AckWeight(j) \in [Jobs \X Nat -> Nat]
         /\ ConsumedBytes(seq, j) = Weighed(seq, AckWeight(j))
<1>1. AckWeight(j) \in [Jobs \X Nat -> Nat]
  BY DEF AckWeight
<1>2. \A i \in DOMAIN seq : seq[i] \in Jobs \X Nat
  BY LenProperties, ElementOfSeq
<1>3. [i \in DOMAIN seq |-> IF seq[i][1] = j THEN seq[i][2] ELSE 0] =
        [i \in DOMAIN seq |-> AckWeight(j)[seq[i]]]
  BY <1>2 DEF AckWeight
<1> QED
  BY <1>1, <1>3 DEF ConsumedBytes, Weighed

\* Sequences of events one after the other.
LEMMA EventsAdd ==
  ASSUME NEW j, NEW u \in Seq(TransferEvent), NEW v \in Seq(TransferEvent)
  PROVE  /\ DataBytes(u, j) \in Nat /\ HeadersIn(u, j) \in Nat
         /\ u \o v \in Seq(TransferEvent)
         /\ DataBytes(u \o v, j) = DataBytes(u, j) + DataBytes(v, j)
         /\ HeadersIn(u \o v, j) = HeadersIn(u, j) + HeadersIn(v, j)
<1>1. u \o v \in Seq(TransferEvent)
  BY ConcatProperties
<1>2. ASSUME NEW w \in [TransferEvent -> Nat]
      PROVE  Weighed(u, w) \in Nat /\ Weighed(u \o v, w) = Weighed(u, w) + Weighed(v, w)
  BY WeighedType, WeighedConcat
<1>3. DataWeight(j) \in [TransferEvent -> Nat] /\ HeadersWeight(j) \in [TransferEvent -> Nat]
  BY EventWeights
<1>4. /\ DataBytes(u, j) = Weighed(u, DataWeight(j))
      /\ DataBytes(v, j) = Weighed(v, DataWeight(j))
      /\ DataBytes(u \o v, j) = Weighed(u \o v, DataWeight(j))
      /\ HeadersIn(u, j) = Weighed(u, HeadersWeight(j))
      /\ HeadersIn(v, j) = Weighed(v, HeadersWeight(j))
      /\ HeadersIn(u \o v, j) = Weighed(u \o v, HeadersWeight(j))
  BY <1>1, EventWeights
<1> QED
  BY <1>1, <1>2, <1>3, <1>4

\* The first event and the others.
LEMMA FirstEventAdds ==
  ASSUME NEW j, NEW seq \in Seq(TransferEvent), seq # <<>>
  PROVE  /\ Tail(seq) \in Seq(TransferEvent)
         /\ DataBytes(Tail(seq), j) \in Nat /\ HeadersIn(Tail(seq), j) \in Nat
         /\ DataBytes(seq, j) =
              (IF IsOf(Head(seq), j, "Data") THEN Head(seq).n ELSE 0) + DataBytes(Tail(seq), j)
         /\ HeadersIn(seq, j) =
              (IF IsOf(Head(seq), j, "Headers") THEN 1 ELSE 0) + HeadersIn(Tail(seq), j)
<1>1. Head(seq) \in TransferEvent /\ Tail(seq) \in Seq(TransferEvent)
  BY HeadTailProperties
<1>2. /\ DataWeight(j)[Head(seq)] = IF IsOf(Head(seq), j, "Data") THEN Head(seq).n ELSE 0
      /\ HeadersWeight(j)[Head(seq)] = IF IsOf(Head(seq), j, "Headers") THEN 1 ELSE 0
  BY <1>1 DEF DataWeight, HeadersWeight
<1>3. /\ Weighed(seq, DataWeight(j)) =
           DataWeight(j)[Head(seq)] + Weighed(Tail(seq), DataWeight(j))
      /\ Weighed(seq, HeadersWeight(j)) =
           HeadersWeight(j)[Head(seq)] + Weighed(Tail(seq), HeadersWeight(j))
  BY EventWeights, WeighedFirst
<1>4. DataBytes(Tail(seq), j) \in Nat /\ HeadersIn(Tail(seq), j) \in Nat
  BY <1>1, EventsAdd
<1> QED
  BY <1>1, <1>2, <1>3, <1>4, EventWeights

\* Events of other jobs, or of other kinds.
LEMMA EventsOfOthers ==
  ASSUME NEW j, NEW seq \in Seq(TransferEvent)
  PROVE  /\ (\A i \in DOMAIN seq : ~IsOf(seq[i], j, "Data")) => DataBytes(seq, j) = 0
         /\ (\A i \in DOMAIN seq : ~IsOf(seq[i], j, "Headers")) => HeadersIn(seq, j) = 0
<1>1. \A i \in DOMAIN seq : seq[i] \in TransferEvent
  BY LenProperties, ElementOfSeq
<1>2. ASSUME \A i \in DOMAIN seq : ~IsOf(seq[i], j, "Data") PROVE DataBytes(seq, j) = 0
  <2>1. \A i \in DOMAIN seq : DataWeight(j)[seq[i]] = 0
    BY <1>1, <1>2 DEF DataWeight
  <2> QED
    BY <2>1, EventWeights, WeighedNothing
<1>3. ASSUME \A i \in DOMAIN seq : ~IsOf(seq[i], j, "Headers") PROVE HeadersIn(seq, j) = 0
  <2>1. \A i \in DOMAIN seq : HeadersWeight(j)[seq[i]] = 0
    BY <1>1, <1>3 DEF HeadersWeight
  <2> QED
    BY <2>1, EventWeights, WeighedNothing
<1> QED
  BY <1>2, <1>3

\* One event more.
LEMMA LastEventAdds ==
  ASSUME NEW j, NEW seq \in Seq(TransferEvent), NEW e \in TransferEvent
  PROVE  /\ Append(seq, e) \in Seq(TransferEvent)
         /\ DataBytes(Append(seq, e), j) =
              DataBytes(seq, j) + (IF IsOf(e, j, "Data") THEN e.n ELSE 0)
         /\ HeadersIn(Append(seq, e), j) =
              HeadersIn(seq, j) + (IF IsOf(e, j, "Headers") THEN 1 ELSE 0)
<1>1. /\ DataWeight(j)[e] = IF IsOf(e, j, "Data") THEN e.n ELSE 0
      /\ HeadersWeight(j)[e] = IF IsOf(e, j, "Headers") THEN 1 ELSE 0
  BY DEF DataWeight, HeadersWeight
<1>2. ASSUME NEW w \in [TransferEvent -> Nat]
      PROVE  /\ Append(seq, e) \in Seq(TransferEvent)
             /\ Weighed(Append(seq, e), w) = Weighed(seq, w) + w[e]
  BY WeighedLast
<1>3. DataWeight(j) \in [TransferEvent -> Nat] /\ HeadersWeight(j) \in [TransferEvent -> Nat]
  BY EventWeights
<1>4. Append(seq, e) \in Seq(TransferEvent)
  BY <1>2, <1>3
<1>5. /\ DataBytes(seq, j) = Weighed(seq, DataWeight(j))
      /\ DataBytes(Append(seq, e), j) = Weighed(Append(seq, e), DataWeight(j))
      /\ HeadersIn(seq, j) = Weighed(seq, HeadersWeight(j))
      /\ HeadersIn(Append(seq, e), j) = Weighed(Append(seq, e), HeadersWeight(j))
  BY <1>4, EventWeights
<1> QED
  BY <1>1, <1>2, <1>3, <1>4, <1>5

\* The requests that the worker has still to apply.
LEMMA AcksAdd ==
  ASSUME NEW j, NEW u \in Seq(Jobs \X Nat), NEW v \in Seq(Jobs \X Nat)
  PROVE  /\ ConsumedBytes(u, j) \in Nat
         /\ ConsumedBytes(u \o v, j) = ConsumedBytes(u, j) + ConsumedBytes(v, j)
<1>1. u \o v \in Seq(Jobs \X Nat)
  BY ConcatProperties
<1> DEFINE w    == AckWeight(j)
           both == u \o v
<1>2. /\ ConsumedBytes(u, j) = Weighed(u, w) /\ ConsumedBytes(v, j) = Weighed(v, w)
      /\ ConsumedBytes(both, j) = Weighed(both, w)
  BY <1>1, AckWeights
<1>3. w \in [Jobs \X Nat -> Nat]
  BY AckWeights
<1> DEFINE S == Jobs \X Nat
<1>4. u \in Seq(S) /\ v \in Seq(S) /\ w \in [S -> Nat]
  BY <1>3
<1> HIDE DEF w, S
<1>5. Weighed(u, w) \in Nat /\ Weighed(both, w) = Weighed(u, w) + Weighed(v, w)
  BY <1>4, WeighedType, WeighedConcat
<1> QED
  BY <1>2, <1>5

LEMMA FirstAckAdds ==
  ASSUME NEW j, NEW seq \in Seq(Jobs \X Nat), seq # <<>>
  PROVE  /\ Head(seq) \in Jobs \X Nat /\ Tail(seq) \in Seq(Jobs \X Nat)
         /\ ConsumedBytes(seq, j) =
              (IF Head(seq)[1] = j THEN Head(seq)[2] ELSE 0) + ConsumedBytes(Tail(seq), j)
<1>1. Head(seq) \in Jobs \X Nat /\ Tail(seq) \in Seq(Jobs \X Nat)
  BY HeadTailProperties
<1>2. AckWeight(j)[Head(seq)] = IF Head(seq)[1] = j THEN Head(seq)[2] ELSE 0
  BY <1>1 DEF AckWeight
<1> DEFINE w == AckWeight(j)
           S == Jobs \X Nat
<1>3. /\ ConsumedBytes(seq, j) = Weighed(seq, w)
      /\ ConsumedBytes(Tail(seq), j) = Weighed(Tail(seq), w)
      /\ w \in [S -> Nat] /\ seq \in Seq(S)
  BY <1>1, AckWeights
<1>4. w[Head(seq)] = IF Head(seq)[1] = j THEN Head(seq)[2] ELSE 0
  BY <1>2
<1> HIDE DEF w, S
<1>5. Weighed(seq, w) = w[Head(seq)] + Weighed(Tail(seq), w)
  BY <1>3, WeighedFirst
<1> QED
  BY <1>1, <1>3, <1>4, <1>5

LEMMA LastAckAdds ==
  ASSUME NEW j, NEW seq \in Seq(Jobs \X Nat), NEW i \in Jobs, NEW n \in Nat
  PROVE  /\ Append(seq, <<i, n>>) \in Seq(Jobs \X Nat)
         /\ ConsumedBytes(Append(seq, <<i, n>>), j) =
              ConsumedBytes(seq, j) + (IF i = j THEN n ELSE 0)
<1> DEFINE ack == <<i, n>>
<1>1. ack \in Jobs \X Nat /\ ack[1] = i /\ ack[2] = n
  OBVIOUS
<1> HIDE DEF ack
<1>2. AckWeight(j)[ack] = IF i = j THEN n ELSE 0
  BY <1>1 DEF AckWeight
<1>3. /\ Append(seq, ack) \in Seq(Jobs \X Nat)
      /\ ConsumedBytes(Append(seq, ack), j) = ConsumedBytes(seq, j) + AckWeight(j)[ack]
  BY <1>1, AckWeights, WeighedLast
<1> QED
  BY <1>2, <1>3 DEF ack

LEMMA NothingAdds ==
  ASSUME NEW j
  PROVE  /\ DataBytes(<<>>, j) = 0 /\ HeadersIn(<<>>, j) = 0 /\ ConsumedBytes(<<>>, j) = 0
<1>1. /\ <<>> \in Seq(TransferEvent) /\ <<>> \in Seq(Jobs \X Nat)
      /\ DOMAIN <<>> = {}
  BY EmptySeq, LenProperties
<1>2. DataBytes(<<>>, j) = 0 /\ HeadersIn(<<>>, j) = 0
  BY <1>1, EventsOfOthers
<1> DEFINE w == AckWeight(j)
           S == Jobs \X Nat
<1>3. ConsumedBytes(<<>>, j) = Weighed(<<>>, w) /\ w \in [S -> Nat] /\ <<>> \in Seq(S)
  BY <1>1, AckWeights
<1> HIDE DEF w, S
<1>4. Weighed(<<>>, w) = 0
  BY <1>1, <1>3, WeighedNothing
<1> QED
  BY <1>2, <1>3, <1>4

----------------------------------------------------------------------------
(* What a method of a job posts *)

DataOut(job) == DataBytes(job.out, job.id)

HeadersOut(job) == HeadersIn(job.out, job.id)

\* Every Ok result that the job posted reports the length n.
OkLength(job, n) ==
  \A i \in DOMAIN job.out :
    IsOf(job.out[i], job.id, "Complete") /\ job.out[i].status = "Ok" => job.out[i].n = n

\* What flow control reads of a job is the same in both.
SameFlow(new, old) ==
  /\ new \in RestJobs /\ new.id = old.id /\ new.finished = old.finished
  /\ new.attempt = old.attempt /\ new.attached = old.attached /\ new.paused = old.paused
  /\ new.bodyLength = old.bodyLength /\ new.streamBuffer = old.streamBuffer
  /\ new.pendingStreamBytes = old.pendingStreamBytes

LEMMA OutType ==
  ASSUME NEW job \in RestJobs
  PROVE  /\ DataOut(job) \in Nat /\ HeadersOut(job) \in Nat
         /\ job.out \in Seq(TransferEvent)
         /\ job.out = <<>> =>
              DataOut(job) = 0 /\ HeadersOut(job) = 0 /\ \A n : OkLength(job, n)
<1>1. job.out \in Seq(TransferEvent) /\ job.id \in Jobs
  BY DEF RestJobs
<1>2. DataOut(job) \in Nat /\ HeadersOut(job) \in Nat
  BY <1>1, EventsAdd DEF DataOut, HeadersOut
<1>3. ASSUME job.out = <<>>
      PROVE  DataOut(job) = 0 /\ HeadersOut(job) = 0 /\ \A n : OkLength(job, n)
  <2>1. DOMAIN job.out = {}
    BY <1>1, <1>3, LenProperties
  <2> QED
    BY <1>3, <2>1, NothingAdds DEF DataOut, HeadersOut, OkLength
<1> QED
  BY <1>1, <1>2, <1>3

LEMMA PostAdds ==
  ASSUME NEW job \in RestJobs, NEW event \in TransferEvent, event.id = job.id
  PROVE  /\ SameFlow(Post(job, event), job)
         /\ DataOut(Post(job, event)) =
              DataOut(job) + (IF event.kind = "Data" THEN event.n ELSE 0)
         /\ HeadersOut(Post(job, event)) =
              HeadersOut(job) + (IF event.kind = "Headers" THEN 1 ELSE 0)
         /\ \A n : /\ OkLength(job, n)
                   /\ event.kind = "Complete" /\ event.status = "Ok" => event.n = n
                   => OkLength(Post(job, event), n)
<1> DEFINE new == Post(job, event)
<1>1. new \in RestJobs /\ job.out \in Seq(TransferEvent)
  BY PostType DEF RestJobs
<1>2. SameFlow(new, job) /\ new.id = job.id /\ new.out = Append(job.out, event)
  BY <1>1 DEF SameFlow, Post, RestJobs
<1> HIDE DEF new
<1>3. IsOf(event, job.id, "Data") = (event.kind = "Data")
      /\ IsOf(event, job.id, "Headers") = (event.kind = "Headers")
  BY DEF IsOf
<1>4. /\ DataOut(new) = DataOut(job) + (IF event.kind = "Data" THEN event.n ELSE 0)
      /\ HeadersOut(new) = HeadersOut(job) + (IF event.kind = "Headers" THEN 1 ELSE 0)
  BY <1>1, <1>2, <1>3, LastEventAdds DEF DataOut, HeadersOut
<1>5. ASSUME NEW n, OkLength(job, n),
             event.kind = "Complete" /\ event.status = "Ok" => event.n = n
      PROVE  OkLength(new, n)
  <2>1. /\ DOMAIN new.out = 1..(Len(job.out) + 1) /\ DOMAIN job.out = 1..Len(job.out)
        /\ Len(job.out) \in Nat /\ new.out[Len(job.out) + 1] = event
        /\ \A i \in 1..Len(job.out) : new.out[i] = job.out[i]
    BY <1>1, <1>2, AppendProperties, LenProperties
  <2>2. ASSUME NEW i \in DOMAIN new.out, IsOf(new.out[i], new.id, "Complete"),
               new.out[i].status = "Ok"
        PROVE  new.out[i].n = n
    <3>1. CASE i = Len(job.out) + 1
      BY <1>5, <2>1, <2>2, <3>1 DEF IsOf
    <3>2. CASE i # Len(job.out) + 1
      <4>1. i \in DOMAIN job.out /\ new.out[i] = job.out[i]
        BY <2>1, <3>2
      <4> QED
        BY <1>2, <1>5, <2>2, <4>1 DEF OkLength
    <3> QED
      BY <3>1, <3>2
  <2> QED
    BY <2>2 DEF OkLength
<1> QED
  BY <1>2, <1>4, <1>5 DEF new

LEMMA FinishAdds ==
  ASSUME NEW job \in RestJobs, ~job.finished, NEW status \in RestStatus
  PROVE  /\ Finish(job, status) \in RestJobs /\ Finish(job, status).id = job.id
         /\ Finish(job, status).finished
         /\ Finish(job, status).streamBuffer = job.streamBuffer
         /\ DataOut(Finish(job, status)) = DataOut(job)
         /\ HeadersOut(Finish(job, status)) = HeadersOut(job)
         /\ \A n : OkLength(job, n) /\ (status = "Ok" => job.bodyLength = n)
                     => OkLength(Finish(job, status), n)
<1> DEFINE ended == [job EXCEPT !.finished = TRUE, !.waitingForRetry = FALSE,
                                !.responseBody = 0]
           event == Event("Complete", job.id, job.bodyLength, status)
<1>1. /\ ended \in RestJobs /\ ended.id = job.id /\ ended.out = job.out /\ ended.finished
      /\ ended.streamBuffer = job.streamBuffer
  BY DEF RestJobs
<1>2. /\ event \in TransferEvent /\ event.id = job.id /\ event.kind = "Complete"
      /\ event.status = status /\ event.n = job.bodyLength
  BY EventType DEF EventKind, RestJobs, Event
<1>3. Finish(job, status) = Post(ended, event)
  BY DEF Finish
<1>4. /\ DataOut(ended) = DataOut(job) /\ HeadersOut(ended) = HeadersOut(job)
      /\ \A n : OkLength(job, n) => OkLength(ended, n)
  BY <1>1 DEF DataOut, HeadersOut, OkLength
<1>5. DataOut(job) \in Nat /\ HeadersOut(job) \in Nat
  BY OutType
<1> HIDE DEF ended, event
<1>6. /\ SameFlow(Post(ended, event), ended)
      /\ DataOut(Post(ended, event)) = DataOut(ended) + 0
      /\ HeadersOut(Post(ended, event)) = HeadersOut(ended) + 0
      /\ \A n : OkLength(ended, n) /\ (event.status = "Ok" => event.n = n)
                  => OkLength(Post(ended, event), n)
  BY <1>1, <1>2, PostAdds
<1> QED
  BY <1>1, <1>2, <1>3, <1>4, <1>5, <1>6 DEF SameFlow

LEMMA FlushAdds ==
  ASSUME NEW job \in RestJobs
  PROVE  /\ FlushStream(job) \in RestJobs /\ FlushStream(job).id = job.id
         /\ FlushStream(job).finished = job.finished
         /\ FlushStream(job).attempt = job.attempt
         /\ FlushStream(job).attached = job.attached
         /\ FlushStream(job).paused = job.paused
         /\ FlushStream(job).bodyLength = job.bodyLength
         /\ FlushStream(job).streamBuffer = 0
         /\ FlushStream(job).pendingStreamBytes = job.pendingStreamBytes + job.streamBuffer
         /\ DataOut(FlushStream(job)) = DataOut(job) + job.streamBuffer
         /\ HeadersOut(FlushStream(job)) = HeadersOut(job)
         /\ \A n : OkLength(job, n) => OkLength(FlushStream(job), n)
<1>1. /\ job.pendingStreamBytes \in Nat /\ job.streamBuffer \in Nat
      /\ DataOut(job) \in Nat /\ HeadersOut(job) \in Nat
  BY OutType DEF RestJobs
<1>2. CASE job.streamBuffer = 0
  BY <1>1, <1>2 DEF FlushStream
<1>3. CASE job.streamBuffer # 0
  <2> DEFINE flushed == [job EXCEPT !.pendingStreamBytes = @ + job.streamBuffer,
                                    !.streamBuffer = 0]
             event == Event("Data", job.id, job.streamBuffer, "Ok")
  <2>1. /\ flushed \in RestJobs /\ flushed.id = job.id /\ flushed.out = job.out
        /\ flushed.finished = job.finished /\ flushed.attempt = job.attempt
        /\ flushed.attached = job.attached /\ flushed.paused = job.paused
        /\ flushed.bodyLength = job.bodyLength /\ flushed.streamBuffer = 0
        /\ flushed.pendingStreamBytes = job.pendingStreamBytes + job.streamBuffer
    <3>1. job.pendingStreamBytes + job.streamBuffer \in Nat
      BY <1>1
    <3> QED
      BY <3>1 DEF RestJobs
  <2>2. /\ event \in TransferEvent /\ event.id = job.id /\ event.kind = "Data"
        /\ event.n = job.streamBuffer
    BY EventType DEF EventKind, RestStatus, RestJobs, Event
  <2>3. FlushStream(job) = Post(flushed, event)
    BY <1>3 DEF FlushStream
  <2>4. /\ DataOut(flushed) = DataOut(job) /\ HeadersOut(flushed) = HeadersOut(job)
        /\ \A n : OkLength(job, n) => OkLength(flushed, n)
    BY <2>1 DEF DataOut, HeadersOut, OkLength
  <2> HIDE DEF flushed, event
  <2>5. /\ SameFlow(Post(flushed, event), flushed)
        /\ DataOut(Post(flushed, event)) = DataOut(flushed) + event.n
        /\ HeadersOut(Post(flushed, event)) = HeadersOut(flushed) + 0
        /\ \A n : OkLength(flushed, n) => OkLength(Post(flushed, event), n)
    BY <2>1, <2>2, PostAdds
  <2> QED
    BY <1>1, <2>1, <2>2, <2>3, <2>4, <2>5 DEF SameFlow
<1> QED
  BY <1>2, <1>3

----------------------------------------------------------------------------
(* What the methods do to the balance *)

\* A job that runs, between two of its methods: f bytes of it are in flight, a
\* acknowledged, p passed to its plugin or about to be, and h of its headers.
Going(job, x, listening, f, a, p, h) ==
  /\ job \in RestJobs /\ ~job.finished /\ job.out = <<>>
  /\ x.state # "none" <=> job.attached
  /\ f \in Nat /\ a \in Nat /\ p \in Nat /\ h \in Nat
  /\ Balanced(job, x, f, a, p, h)
  /\ listening => Exact(job, x, f, a, p)

\* What a method made of it, and of its transfer: what it posted is accounted for.
Accounted(job, x, listening, f, a, p, h) ==
  /\ job \in RestJobs
  /\ Balanced(job, x, f + DataOut(job), a, p + DataOut(job), h + HeadersOut(job))
  /\ listening => Exact(job, x, f + DataOut(job), a, p + DataOut(job))
  /\ listening /\ Streamed(job.id) => OkLength(job, p + DataOut(job))

LEMMA GoingFields ==
  ASSUME NEW job, NEW x, NEW listening, NEW f, NEW a, NEW p, NEW h,
         Going(job, x, listening, f, a, p, h)
  PROVE  /\ job.pendingStreamBytes \in Nat /\ job.streamBuffer \in Nat
         /\ job.bodyLength \in Nat /\ job.attempt \in Nat /\ job.id \in Jobs
         /\ job.paused \in BOOLEAN /\ job.attached \in BOOLEAN
         /\ f + a <= job.pendingStreamBytes
         /\ job.pendingStreamBytes + job.streamBuffer <= job.bodyLength
         /\ p + job.streamBuffer <= job.bodyLength
         /\ job.pendingStreamBytes + job.streamBuffer <= StreamCap
         /\ f + job.streamBuffer <= StreamCap
         /\ ~job.attached => ~x.paused
         /\ StreamCap \in Nat
<1>1. /\ job.pendingStreamBytes \in Nat /\ job.streamBuffer \in Nat
      /\ job.bodyLength \in Nat /\ job.attempt \in Nat /\ job.id \in Jobs
      /\ job.paused \in BOOLEAN /\ job.attached \in BOOLEAN
  BY DEF Going, RestJobs
<1>2. StreamCap \in Nat
  BY RestJobAssumption, TransferThreadAssumption DEF StreamCap
<1> QED
  BY <1>1, <1>2 DEF Going, Balanced

\* Nothing was done.
LEMMA IdleAccounts ==
  ASSUME NEW job, NEW x, NEW listening, NEW f, NEW a, NEW p, NEW h,
         Going(job, x, listening, f, a, p, h)
  PROVE  Accounted(job, x, listening, f, a, p, h)
<1>1. /\ job \in RestJobs /\ job.out = <<>>
      /\ f \in Nat /\ a \in Nat /\ p \in Nat /\ h \in Nat
  BY DEF Going
<1>2. DataOut(job) = 0 /\ HeadersOut(job) = 0 /\ \A n : OkLength(job, n)
  BY <1>1, OutType
<1>3. f + DataOut(job) = f /\ p + DataOut(job) = p /\ h + HeadersOut(job) = h
  BY <1>1, <1>2
<1> QED
  BY <1>1, <1>2, <1>3 DEF Going, Accounted

\* The job is over: only the memory it holds counts.
LEMMA EndedAccounts ==
  ASSUME NEW job \in RestJobs, job.finished, NEW x, ~x.paused,
         NEW f \in Nat, NEW a, NEW p, NEW h, NEW listening,
         f + DataOut(job) + job.streamBuffer <= StreamCap,
         listening /\ Streamed(job.id) => OkLength(job, p + DataOut(job))
  PROVE  Accounted(job, x, listening, f, a, p, h)
BY DEF Accounted, Balanced, Exact

LEMMA BeginAttemptAccounts ==
  ASSUME NEW job, NEW x, NEW listening, NEW f, NEW a, NEW p, NEW h,
         Going(job, x, listening, f, a, p, h), ~job.attached,
         NEW outcome \in BeginOutcomes(job), NEW x2,
         IF BeginAttempt(job, outcome).attached
           THEN x2.state = "open" /\ ~x2.paused ELSE x2 = x
  PROVE  /\ Accounted(BeginAttempt(job, outcome), x2, listening, f, a, p, h)
         /\ f + a = 0 /\ p = 0
<1> DEFINE fresh == ResetAttemptState([job EXCEPT !.attempt = @ + 1])
           added == [fresh EXCEPT !.attached = TRUE]
<1>1. /\ fresh \in RestJobs /\ fresh.id = job.id /\ fresh.out = <<>>
      /\ fresh.streamBuffer = 0 /\ ~fresh.finished /\ fresh.attached = job.attached
  <2>1. job \in RestJobs /\ job.attempt + 1 \in Nat /\ job.out = <<>> /\ ~job.finished
    BY DEF Going, RestJobs
  <2> QED
    BY <2>1 DEF ResetAttemptState, RestJobs
<1>2. /\ added \in RestJobs /\ added.id = job.id /\ added.out = <<>>
      /\ added.streamBuffer = 0 /\ ~added.finished /\ added.attached
      /\ added.attempt = job.attempt + 1 /\ added.bodyLength = 0
      /\ added.pendingStreamBytes = 0 /\ ~added.paused
  <2>1. job \in RestJobs /\ job.attempt + 1 \in Nat /\ job.out = <<>> /\ ~job.finished
    BY DEF Going, RestJobs
  <2> QED
    BY <2>1 DEF ResetAttemptState, RestJobs
<1>3. \/ \E status \in RestStatus \ {"Ok"} : BeginAttempt(job, outcome) = Finish(fresh, status)
      \/ BeginAttempt(job, outcome) = added
  BY DEF BeginAttempt, RestStatus
<1>4. /\ job.pendingStreamBytes = 0 /\ p = 0 /\ f \in Nat /\ a \in Nat
      /\ p \in Nat /\ h \in Nat /\ h <= job.attempt
      /\ f + a <= job.pendingStreamBytes /\ job.attempt \in Nat /\ ~x.paused
      /\ StreamCap \in Nat
  BY GoingFields DEF Going, Balanced
<1>5. f = 0 /\ a = 0
  BY <1>4
<1> HIDE DEF fresh, added
<1>6. ASSUME NEW status \in RestStatus \ {"Ok"},
             BeginAttempt(job, outcome) = Finish(fresh, status)
      PROVE  Accounted(BeginAttempt(job, outcome), x2, listening, f, a, p, h)
  <2> DEFINE new == Finish(fresh, status)
  <2>1. /\ new \in RestJobs /\ new.finished /\ new.streamBuffer = 0 /\ DataOut(new) = 0
        /\ \A n : OkLength(new, n)
    BY <1>1, <1>6, FinishAdds, OutType
  <2>2. ~new.attached
    BY <1>1 DEF Finish, Post, RestJobs
  <2> HIDE DEF new
  <2>3. ~x2.paused
    BY <1>4, <1>6, <2>2 DEF new
  <2>4. Accounted(new, x2, listening, f, a, p, h)
    BY <1>4, <1>5, <2>1, <2>3, EndedAccounts
  <2> QED
    BY <1>6, <2>4 DEF new
<1>7. ASSUME BeginAttempt(job, outcome) = added
      PROVE  Accounted(added, x2, listening, f, a, p, h)
  <2>1. x2.state = "open" /\ ~x2.paused
    BY <1>2, <1>7
  <2>2. DataOut(added) = 0 /\ HeadersOut(added) = 0 /\ \A n : OkLength(added, n)
    BY <1>2, OutType
  <2>3. Balanced(added, x2, f, a, p, h)
    BY <1>2, <1>4, <1>5, <2>1 DEF Balanced
  <2>4. Exact(added, x2, f, a, p)
    BY <1>2, <1>4, <1>5, <2>1 DEF Exact
  <2>5. f + 0 = f /\ p + 0 = p /\ h + 0 = h
    BY <1>4
  <2> QED
    BY <1>2, <2>2, <2>3, <2>4, <2>5 DEF Accounted
<1> QED
  BY <1>3, <1>4, <1>5, <1>6, <1>7

LEMMA CancelAccounts ==
  ASSUME NEW job, NEW x, NEW listening, NEW f, NEW a, NEW p, NEW h,
         Going(job, x, listening, f, a, p, h), NEW x2, ~x2.paused
  PROVE  Accounted(Cancel(job), x2, listening, f, a, p, h)
<1> DEFINE released == [job EXCEPT !.cancelRequested = TRUE, !.attached = FALSE]
           new      == Finish(released, "Cancelled")
<1>1. /\ released \in RestJobs /\ released.id = job.id /\ released.out = <<>>
      /\ released.streamBuffer = job.streamBuffer /\ ~released.finished
  BY DEF Going, RestJobs
<1>2. Cancel(job) = new
  BY DEF Cancel
<1> HIDE DEF released
<1>3. /\ new \in RestJobs /\ new.finished /\ new.streamBuffer = job.streamBuffer
      /\ DataOut(new) = 0 /\ \A n : OkLength(new, n)
  BY <1>1, FinishAdds, OutType DEF RestStatus
<1>4. f + job.streamBuffer <= StreamCap /\ f \in Nat /\ job.streamBuffer \in Nat
  BY GoingFields DEF Going
<1> HIDE DEF new
<1>5. f + DataOut(new) + new.streamBuffer <= StreamCap
  BY <1>3, <1>4
<1> QED
  BY <1>2, <1>3, <1>4, <1>5, EndedAccounts

LEMMA OnAttemptDoneAccounts ==
  ASSUME NEW job, NEW x, NEW listening, NEW f, NEW a, NEW p, NEW h,
         Going(job, x, listening, f, a, p, h), x.state # "none",
         NEW renamed \in BOOLEAN, NEW x2, ~x2.paused, x2.state = "none"
  PROVE  Accounted(OnAttemptDone(job, x.code, x.status, renamed), x2, listening, f, a, p, h)
<1> DEFINE released == [job EXCEPT !.attached = FALSE]
           flushed  == FlushStream(released)
           new      == OnAttemptDone(job, x.code, x.status, renamed)
<1>1. /\ released \in RestJobs /\ released.id = job.id /\ released.out = <<>>
      /\ ~released.finished /\ released.attempt = job.attempt /\ ~released.attached
      /\ released.paused = job.paused /\ released.bodyLength = job.bodyLength
      /\ released.streamBuffer = job.streamBuffer
      /\ released.pendingStreamBytes = job.pendingStreamBytes
  BY DEF Going, RestJobs
<1>2. \/ new = ScheduleRetry(released) /\ CanRetry(released)
      \/ \E status \in RestStatus :
           new = Finish(released, status) /\ (status = "Ok" => released.id \in FileJobs)
      \/ new = Finish(flushed, "Ok") /\ IsSuccess(x.status)
  <2>1. \/ new = HandleTransportFailure(released, x.code)
        \/ new = HandleHttpSuccess(released, renamed) /\ IsSuccess(x.status)
        \/ new = HandleHttpFailure(released, x.status)
        \/ new = Finish(released, "Cancelled")
    BY DEF OnAttemptDone
  <2> HIDE DEF new, released
  <2> QED
    BY <2>1 DEF HandleTransportFailure, HandleHttpSuccess, HandleHttpFailure, RestStatus
<1>3. /\ job.pendingStreamBytes \in Nat /\ job.streamBuffer \in Nat
      /\ job.bodyLength \in Nat /\ job.attempt \in Nat /\ job.id \in Jobs
      /\ f \in Nat /\ a \in Nat /\ p \in Nat /\ h \in Nat
      /\ f + a <= job.pendingStreamBytes
      /\ job.pendingStreamBytes + job.streamBuffer <= job.bodyLength
      /\ p + job.streamBuffer <= job.bodyLength
      /\ job.pendingStreamBytes + job.streamBuffer <= StreamCap
      /\ f + job.streamBuffer <= StreamCap
      /\ StreamCap \in Nat
  BY GoingFields DEF Going
<1>4. DataOut(released) = 0 /\ HeadersOut(released) = 0 /\ \A n : OkLength(released, n)
  BY <1>1, OutType
<1> HIDE DEF new, released
<1>5. ASSUME new = ScheduleRetry(released), CanRetry(released)
      PROVE  Accounted(new, x2, listening, f, a, p, h)
  <2>1. /\ new \in RestJobs /\ new.id = job.id /\ new.out = <<>>
        /\ ~new.finished /\ new.attempt = job.attempt /\ ~new.attached
        /\ new.paused = job.paused /\ new.bodyLength = job.bodyLength
        /\ new.streamBuffer = job.streamBuffer
        /\ new.pendingStreamBytes = job.pendingStreamBytes
    BY <1>1, <1>5 DEF ScheduleRetry, RestJobs
  <2>2. DataOut(new) = 0 /\ HeadersOut(new) = 0 /\ \A n : OkLength(new, n)
    BY <2>1, OutType
  <2>3. job.pendingStreamBytes = 0 /\ job.streamBuffer = 0 /\ p = 0
    <3>1. CASE job.id \in StreamJobs
      <4>1. job.bodyLength = 0
        BY <1>1, <1>3, <1>5, <3>1 DEF CanRetry
      <4> QED
        BY <1>3, <4>1
    <3>2. CASE job.id \notin StreamJobs
      BY <3>2 DEF Going, Balanced
    <3> QED
      BY <3>1, <3>2
  <2>4. Balanced(new, x2, f, a, p, h)
    <3>1. /\ job.streamBuffer = 0 \/ job.streamBuffer < ChunkSize
          /\ job.paused => job.pendingStreamBytes >= LowWater
          /\ h <= job.attempt
      BY DEF Going, Balanced
    <3> QED
      BY <1>3, <2>1, <2>3, <3>1 DEF Balanced
  <2>5. Exact(new, x2, f, a, p)
    BY <1>3, <2>1, <2>3 DEF Exact
  <2>6. f + 0 = f /\ p + 0 = p /\ h + 0 = h
    BY <1>3
  <2> QED
    BY <2>1, <2>2, <2>4, <2>5, <2>6 DEF Accounted
<1>6. ASSUME NEW status \in RestStatus, new = Finish(released, status),
             status = "Ok" => released.id \in FileJobs
      PROVE  Accounted(new, x2, listening, f, a, p, h)
  <2>1. /\ new \in RestJobs /\ new.finished /\ new.streamBuffer = job.streamBuffer
        /\ new.id = job.id /\ DataOut(new) = 0
        /\ status # "Ok" => \A n : OkLength(new, n)
    BY <1>1, <1>4, <1>6, FinishAdds
  <2>2. Streamed(new.id) => \A n : OkLength(new, n)
    BY <1>1, <1>6, <2>1 DEF Streamed
  <2>3. f + DataOut(new) + new.streamBuffer <= StreamCap
    BY <1>3, <2>1
  <2> QED
    BY <1>3, <2>1, <2>2, <2>3, EndedAccounts
<1>7. ASSUME new = Finish(flushed, "Ok"), IsSuccess(x.status)
      PROVE  Accounted(new, x2, listening, f, a, p, h)
  <2>1. /\ flushed \in RestJobs /\ ~flushed.finished /\ flushed.id = job.id
        /\ flushed.streamBuffer = 0 /\ flushed.bodyLength = job.bodyLength
        /\ DataOut(flushed) = job.streamBuffer /\ \A n : OkLength(flushed, n)
    BY <1>1, <1>3, <1>4, FlushAdds
  <2>2. /\ new \in RestJobs /\ new.finished /\ new.streamBuffer = 0 /\ new.id = job.id
        /\ DataOut(new) = job.streamBuffer
        /\ \A n : job.bodyLength = n => OkLength(new, n)
    <3> HIDE DEF flushed
    <3> QED
      BY <1>7, <2>1, FinishAdds DEF RestStatus
  <2>3. listening /\ Streamed(job.id) => p + job.streamBuffer = job.bodyLength
    BY <1>7 DEF Going, Exact
  <2>4. f + DataOut(new) + new.streamBuffer <= StreamCap
    BY <1>3, <2>2
  <2> QED
    BY <1>3, <2>2, <2>3, <2>4, EndedAccounts
<1> QED
  BY <1>2, <1>5, <1>6, <1>7 DEF new

\* The body is not touched: headers or progress were reported, if anything.
LEMMA ReportAccounts ==
  ASSUME NEW job, NEW x, NEW listening, NEW f, NEW a, NEW p, NEW h,
         Going(job, x, listening, f, a, p, h), NEW new, SameFlow(new, job),
         DataOut(new) = 0, HeadersOut(new) \in Nat, \A n : OkLength(new, n),
         NEW x2, x2.state # "none", x2.paused = x.paused,
         h + HeadersOut(new) <= job.attempt,
         x2.state = "open" => job.bodyLength = 0 /\ h + HeadersOut(new) < job.attempt,
         listening /\ Streamed(job.id) /\ IsSuccess(x2.status) =>
           p + job.streamBuffer = job.bodyLength
  PROVE  Accounted(new, x2, listening, f, a, p, h)
<1>1. /\ job.pendingStreamBytes \in Nat /\ job.streamBuffer \in Nat
      /\ job.bodyLength \in Nat /\ job.attempt \in Nat
      /\ f \in Nat /\ a \in Nat /\ p \in Nat /\ h \in Nat /\ ~job.finished
  BY GoingFields DEF Going
<1>2. f + 0 = f /\ p + 0 = p
  BY <1>1
<1>3. Balanced(new, x2, f, a, p, h + HeadersOut(new))
  BY <1>1 DEF Going, Balanced, SameFlow
<1>4. listening => Exact(new, x2, f, a, p)
  BY <1>1 DEF Going, Exact, SameFlow
<1> QED
  BY <1>2, <1>3, <1>4 DEF Accounted, SameFlow

LEMMA OnHeadersCompleteAdds ==
  ASSUME NEW job \in RestJobs, job.out = <<>>, NEW status, NEW redirected
  PROVE  /\ SameFlow(OnHeadersComplete(job, status, redirected), job)
         /\ DataOut(OnHeadersComplete(job, status, redirected)) = 0
         /\ \A n : OkLength(OnHeadersComplete(job, status, redirected), n)
         /\ \/ HeadersOut(OnHeadersComplete(job, status, redirected)) = 0
            \/ /\ HeadersOut(OnHeadersComplete(job, status, redirected)) = 1
               /\ job.id \in HeaderJobs /\ ~job.headersPosted
               /\ status >= 200 /\ ~redirected
<1> DEFINE new    == OnHeadersComplete(job, status, redirected)
           posted == [job EXCEPT !.headersPosted = TRUE]
           event  == Event("Headers", job.id, 0, "Ok")
<1>1. CASE job.id \in HeaderJobs /\ ~job.headersPosted /\ status >= 200 /\ ~redirected
  <2>1. new = Post(posted, event)
    BY <1>1 DEF OnHeadersComplete
  <2>2. SameFlow(posted, job) /\ posted.out = <<>>
    BY DEF SameFlow, RestJobs
  <2>3. /\ event \in TransferEvent /\ event.id = job.id /\ event.kind = "Headers"
    BY EventType DEF EventKind, RestStatus, RestJobs, Event
  <2>4. DataOut(posted) = 0 /\ HeadersOut(posted) = 0 /\ \A n : OkLength(posted, n)
    BY <2>2, OutType DEF SameFlow
  <2> HIDE DEF event, posted, new
  <2>5. /\ SameFlow(new, posted) /\ DataOut(new) = 0 + 0 /\ HeadersOut(new) = 0 + 1
        /\ \A n : OkLength(new, n)
    BY <2>1, <2>2, <2>3, <2>4, PostAdds DEF SameFlow
  <2>6. SameFlow(new, job)
    BY <2>2, <2>5 DEF SameFlow
  <2> QED
    BY <1>1, <2>5, <2>6 DEF new
<1>2. CASE ~(job.id \in HeaderJobs /\ ~job.headersPosted /\ status >= 200 /\ ~redirected)
  <2>1. new = job
    BY <1>2 DEF OnHeadersComplete
  <2> QED
    BY <2>1, OutType DEF SameFlow
<1> QED
  BY <1>1, <1>2

LEMMA OnHeaderBlockAccounts ==
  ASSUME NEW job, NEW x, NEW listening, NEW f, NEW a, NEW p, NEW h,
         Going(job, x, listening, f, a, p, h), x.state = "open",
         NEW status \in Nat, NEW redirected \in BOOLEAN, NEW x2, x2.paused = x.paused,
         x2.state = IF status < 200 \/ redirected THEN "open" ELSE "body"
  PROVE  Accounted(OnHeaderBlock(job, status, redirected), x2, listening, f, a, p, h)
<1> DEFINE started == [job EXCEPT !.headersPosted = FALSE]
           new     == OnHeadersComplete(started, status, redirected)
<1>1. SameFlow(started, job) /\ started.out = <<>>
  <2>1. job \in RestJobs /\ job.out = <<>>
    BY DEF Going
  <2>2. started \in RestJobs
    BY <2>1 DEF RestJobs
  <2> QED
    BY <2>1, <2>2 DEF SameFlow, RestJobs
<1>2. OnHeaderBlock(job, status, redirected) = new
  BY DEF OnHeaderBlock
<1> HIDE DEF started
<1>3. /\ SameFlow(new, started) /\ DataOut(new) = 0 /\ \A n : OkLength(new, n)
      /\ \/ HeadersOut(new) = 0
         \/ HeadersOut(new) = 1 /\ status >= 200 /\ ~redirected
  BY <1>1, OnHeadersCompleteAdds DEF SameFlow
<1> HIDE DEF new
<1>4. SameFlow(new, job)
  BY <1>1, <1>3 DEF SameFlow
<1>5. /\ job.bodyLength = 0 /\ h < job.attempt /\ h \in Nat /\ job.attempt \in Nat
      /\ p \in Nat /\ job.streamBuffer \in Nat /\ p + job.streamBuffer <= job.bodyLength
  BY GoingFields DEF Going, Balanced
<1>6. /\ HeadersOut(new) \in Nat /\ h + HeadersOut(new) <= job.attempt
      /\ x2.state = "open" => h + HeadersOut(new) < job.attempt
  BY <1>3, <1>5
<1>7. p + job.streamBuffer = job.bodyLength
  BY <1>5
<1> QED
  BY <1>2, <1>3, <1>4, <1>5, <1>6, <1>7, ReportAccounts

LEMMA PostProgressAccounts ==
  ASSUME NEW job, NEW x, NEW listening, NEW f, NEW a, NEW p, NEW h,
         Going(job, x, listening, f, a, p, h), x.state # "none",
         NEW x2, x2.state = x.state, x2.paused = x.paused, x2.status = x.status
  PROVE  Accounted(PostProgress(job), x2, listening, f, a, p, h)
<1> DEFINE event == Event("Progress", job.id, 0, "Ok")
           new   == PostProgress(job)
<1>1. /\ event \in TransferEvent /\ event.id = job.id /\ event.kind = "Progress"
  BY EventType DEF Going, EventKind, RestStatus, RestJobs, Event
<1>2. DataOut(job) = 0 /\ HeadersOut(job) = 0 /\ \A n : OkLength(job, n)
  BY OutType DEF Going
<1>3. new = Post(job, event)
  BY DEF PostProgress
<1> HIDE DEF event, new
<1>4. /\ SameFlow(new, job) /\ DataOut(new) = 0 + 0 /\ HeadersOut(new) = 0 + 0
      /\ \A n : OkLength(new, n)
  BY <1>1, <1>2, <1>3, PostAdds DEF Going
<1>5. /\ h \in Nat /\ h <= job.attempt
      /\ x.state = "open" => job.bodyLength = 0 /\ h < job.attempt
      /\ listening /\ Streamed(job.id) /\ IsSuccess(x.status) =>
           p + job.streamBuffer = job.bodyLength
  BY DEF Going, Balanced, Exact
<1> QED
  BY <1>4, <1>5, ReportAccounts DEF new

\* Body is received that is not the stream's.
LEMMA ReceivedAccounts ==
  ASSUME NEW job, NEW x, NEW listening, NEW f, NEW a, NEW p, NEW h,
         Going(job, x, listening, f, a, p, h), x.state = "body",
         ~(Streamed(job.id) /\ IsSuccess(x.status)),
         NEW new \in RestJobs, new.id = job.id, new.finished = job.finished, new.out = <<>>,
         new.attempt = job.attempt, new.attached = job.attached, new.paused = job.paused,
         new.streamBuffer = job.streamBuffer,
         new.pendingStreamBytes = job.pendingStreamBytes, new.bodyLength >= job.bodyLength,
         NEW x2, x2.state \in {"body", "done"}, x2.paused = x.paused, x2.status = x.status
  PROVE  Accounted(new, x2, listening, f, a, p, h)
<1>1. /\ job.pendingStreamBytes \in Nat /\ job.streamBuffer \in Nat
      /\ job.bodyLength \in Nat /\ job.attempt \in Nat /\ new.bodyLength \in Nat
      /\ f \in Nat /\ a \in Nat /\ p \in Nat /\ h \in Nat /\ ~job.finished
  BY GoingFields DEF Going, RestJobs
<1>2. f + 0 = f /\ p + 0 = p /\ h + 0 = h
  BY <1>1
<1>3. DataOut(new) = 0 /\ HeadersOut(new) = 0 /\ \A n : OkLength(new, n)
  BY OutType
<1>4. Balanced(new, x2, f, a, p, h)
  BY <1>1 DEF Going, Balanced
<1>5. listening => Exact(new, x2, f, a, p)
  BY <1>1 DEF Going, Exact
<1> QED
  BY <1>2, <1>3, <1>4, <1>5 DEF Accounted

LEMMA WriteMemoryAccounts ==
  ASSUME NEW job, NEW x, NEW listening, NEW f, NEW a, NEW p, NEW h,
         Going(job, x, listening, f, a, p, h), x.state = "body",
         SinkFor(job, x.status) = "Memory", NEW total \in Nat,
         NEW x2, x2.state \in {"body", "done"}, x2.paused = x.paused, x2.status = x.status
  PROVE  Accounted(WriteMemory(job, total), x2, listening, f, a, p, h)
<1> DEFINE new == WriteMemory(job, total)
<1>1. job \in RestJobs /\ job.bodyLength \in Nat /\ job.out = <<>>
  BY DEF Going, RestJobs
<1>2. new \in RestJobs
  BY <1>1, WriteMemoryEffect
<1>3. /\ new.id = job.id /\ new.finished = job.finished /\ new.out = <<>>
      /\ new.attempt = job.attempt /\ new.attached = job.attached
      /\ new.paused = job.paused /\ new.streamBuffer = job.streamBuffer
      /\ new.pendingStreamBytes = job.pendingStreamBytes
      /\ new.bodyLength \in {job.bodyLength, job.bodyLength + total}
  BY <1>1, <1>2 DEF WriteMemory, RestJobs
<1>4. ~(Streamed(job.id) /\ IsSuccess(x.status))
  BY DEF SinkFor, Streamed
<1> HIDE DEF new
<1>5. new.bodyLength >= job.bodyLength
  BY <1>1, <1>3
<1> QED
  BY <1>2, <1>3, <1>4, <1>5, ReceivedAccounts DEF new

LEMMA WriteFileAccounts ==
  ASSUME NEW job, NEW x, NEW listening, NEW f, NEW a, NEW p, NEW h,
         Going(job, x, listening, f, a, p, h), x.state = "body",
         SinkFor(job, x.status) = "File", NEW written \in Nat,
         NEW x2, x2.state \in {"body", "done"}, x2.paused = x.paused, x2.status = x.status
  PROVE  Accounted(WriteFile(job, written), x2, listening, f, a, p, h)
<1> DEFINE new == WriteFile(job, written)
<1>1. job \in RestJobs /\ job.bodyLength \in Nat /\ job.out = <<>>
  BY DEF Going, RestJobs
<1>2. /\ new \in RestJobs
      /\ new.id = job.id /\ new.finished = job.finished /\ new.out = <<>>
      /\ new.attempt = job.attempt /\ new.attached = job.attached
      /\ new.paused = job.paused /\ new.streamBuffer = job.streamBuffer
      /\ new.pendingStreamBytes = job.pendingStreamBytes
      /\ new.bodyLength = job.bodyLength + written
  <2>1. job.bodyLength + written \in Nat
    BY <1>1
  <2> QED
    BY <1>1, <2>1 DEF WriteFile, RestJobs
<1>3. ~(Streamed(job.id) /\ IsSuccess(x.status))
  BY DEF SinkFor, Streamed
<1> HIDE DEF new
<1>4. new.bodyLength >= job.bodyLength
  BY <1>1, <1>2
<1> QED
  BY <1>2, <1>3, <1>4, ReceivedAccounts DEF new

\* A write is taken only while less than the high-water mark is unconsumed.
LEMMA WriteStreamAccounts ==
  ASSUME NEW job, NEW x, NEW listening, NEW f, NEW a, NEW p, NEW h,
         Going(job, x, listening, f, a, p, h), x.state = "body",
         SinkFor(job, x.status) = "Stream", NEW total \in Nat, total <= MaxWrite,
         NEW x2, x2.state = x.state, x2.status = x.status,
         x2.paused = WriteStream(job, total).paused
  PROVE  Accounted(WriteStream(job, total), x2, listening, f, a, p, h)
<1> DEFINE held     == [job EXCEPT !.paused = TRUE]
           buffered == [job EXCEPT !.streamBuffer = @ + total, !.bodyLength = @ + total]
           new      == WriteStream(job, total)
           c        == IF ChunkSize > 0 THEN ChunkSize - 1 ELSE 0
           q        == job.pendingStreamBytes
           s        == job.streamBuffer
           l        == job.bodyLength
<1>1. /\ job \in RestJobs /\ ~job.finished /\ job.out = <<>>
      /\ job.pendingStreamBytes \in Nat /\ job.streamBuffer \in Nat
      /\ job.bodyLength \in Nat /\ job.attempt \in Nat
      /\ f \in Nat /\ a \in Nat /\ p \in Nat /\ h \in Nat
      /\ f + a <= job.pendingStreamBytes
      /\ job.pendingStreamBytes + job.streamBuffer <= job.bodyLength
      /\ p + job.streamBuffer <= job.bodyLength
      /\ job.pendingStreamBytes + job.streamBuffer <= StreamCap
      /\ f + job.streamBuffer <= StreamCap
      /\ job.streamBuffer = 0 \/ job.streamBuffer < ChunkSize
      /\ job.paused => job.pendingStreamBytes >= LowWater
      /\ h <= job.attempt
  BY GoingFields DEF Going, Balanced
<1>2. job.attached /\ job.id \in StreamJobs /\ Streamed(job.id) /\ IsSuccess(x.status)
  BY DEF Going, SinkFor, Streamed
<1>3. listening => /\ f + a = job.pendingStreamBytes
                   /\ p + job.streamBuffer = job.bodyLength
  BY <1>1, <1>2 DEF Going, Exact
<1>4. /\ LowWater \in Nat /\ HighWater \in Nat /\ ChunkSize \in Nat /\ LowWater <= HighWater
      /\ MaxWrite \in Nat /\ c \in Nat /\ StreamCap = (HighWater - 1) + MaxWrite + c
  BY RestJobAssumption, TransferThreadAssumption DEF StreamCap
<1>5. f + 0 = f /\ p + 0 = p /\ h + 0 = h
  BY <1>1
<1>9. /\ q \in Nat /\ s \in Nat /\ l \in Nat /\ f \in Nat /\ a \in Nat /\ p \in Nat
      /\ f + a <= q /\ q + s <= l /\ p + s <= l /\ StreamCap \in Int
      /\ q + (s + total) <= StreamCap =>
           /\ f + (s + total) <= StreamCap
           /\ q + (s + total) <= l + total /\ p + (s + total) <= l + total
           /\ (q + (s + total)) + 0 <= StreamCap /\ (f + (s + total)) + 0 <= StreamCap
           /\ (f + (s + total)) + a <= q + (s + total)
           /\ (q + (s + total)) + 0 <= l + total /\ (p + (s + total)) + 0 <= l + total
           /\ q <= q + (s + total)
      /\ p + s = l => p + (s + total) = l + total /\ (p + (s + total)) + 0 = l + total
      /\ f + a = q => (f + (s + total)) + a = q + (s + total)
  <2>1. /\ q \in Nat /\ s \in Nat /\ l \in Nat /\ f \in Nat /\ a \in Nat /\ p \in Nat
        /\ f + a <= q /\ q + s <= l /\ p + s <= l /\ StreamCap \in Int
    BY <1>1, <1>4
  <2> HIDE DEF q, s, l
  <2> QED
    BY <2>1
<1> HIDE DEF c
<1>8. x2.paused = new.paused
  OBVIOUS
<1>6. CASE job.pendingStreamBytes >= HighWater
  <2>1. new = held
    BY <1>6 DEF WriteStream
  <2>2. /\ new \in RestJobs /\ new.id = job.id /\ ~new.finished /\ new.out = <<>>
        /\ new.attempt = job.attempt /\ new.attached = job.attached /\ new.paused
        /\ new.bodyLength = job.bodyLength /\ new.streamBuffer = job.streamBuffer
        /\ new.pendingStreamBytes = job.pendingStreamBytes
    BY <1>1, <2>1 DEF RestJobs
  <2> HIDE DEF new, held
  <2>3. DataOut(new) = 0 /\ HeadersOut(new) = 0 /\ \A n : OkLength(new, n)
    BY <2>2, OutType
  <2>4. Balanced(new, x2, f, a, p, h)
    BY <1>1, <1>2, <1>4, <1>6, <2>2 DEF Balanced
  <2>5. listening => Exact(new, x2, f, a, p)
    BY <1>3, <2>2 DEF Exact
  <2> QED
    BY <1>5, <2>2, <2>3, <2>4, <2>5 DEF Accounted, new
<1>7. CASE ~(job.pendingStreamBytes >= HighWater)
  <2>1. /\ buffered \in RestJobs /\ buffered.id = job.id /\ ~buffered.finished
        /\ buffered.out = <<>> /\ buffered.attempt = job.attempt
        /\ buffered.attached = job.attached /\ buffered.paused = job.paused
        /\ buffered.bodyLength = job.bodyLength + total
        /\ buffered.streamBuffer = job.streamBuffer + total
        /\ buffered.pendingStreamBytes = job.pendingStreamBytes
    <3>1. job.streamBuffer + total \in Nat /\ job.bodyLength + total \in Nat
      <4>1. s \in Nat /\ l \in Nat
        BY <1>1
      <4> HIDE DEF s, l
      <4>2. s + total \in Nat /\ l + total \in Nat
        BY <4>1
      <4> QED
        BY <4>2 DEF s, l
    <3>2. job \in RestJobs /\ ~job.finished /\ job.out = <<>>
      BY <1>1
    <3>3. buffered \in RestJobs
      BY <3>1, <3>2 DEF RestJobs
    <3> QED
      BY <3>2, <3>3 DEF RestJobs
  <2>2. new = IF buffered.streamBuffer >= ChunkSize THEN FlushStream(buffered) ELSE buffered
    BY <1>7 DEF WriteStream
  <2> HIDE DEF buffered, new
  <2>3. DataOut(buffered) = 0 /\ HeadersOut(buffered) = 0 /\ \A n : OkLength(buffered, n)
    BY <2>1, OutType
  <2>4. job.pendingStreamBytes + (job.streamBuffer + total) <= StreamCap
    <3>1. job.streamBuffer <= c
      BY <1>1, <1>4 DEF c
    <3>2. job.pendingStreamBytes <= HighWater - 1
      BY <1>1, <1>4, <1>7
    <3>3. job.pendingStreamBytes \in Nat /\ job.streamBuffer \in Nat
      BY <1>1
    <3> QED
      BY <1>4, <3>1, <3>2, <3>3
  <2>5. CASE ~(buffered.streamBuffer >= ChunkSize)
    <3>1. new = buffered
      BY <2>2, <2>5
    <3>2. Balanced(new, x2, f, a, p, h)
      <4>1. /\ job.pendingStreamBytes + new.streamBuffer <= StreamCap
            /\ f + new.streamBuffer <= StreamCap
            /\ job.pendingStreamBytes + new.streamBuffer <= new.bodyLength
            /\ p + new.streamBuffer <= new.bodyLength
        <5>1. new.streamBuffer = job.streamBuffer + total
              /\ new.bodyLength = job.bodyLength + total
          BY <2>1, <3>1
        <5> QED
          BY <1>9, <2>4, <5>1
      <4>2. new.streamBuffer < ChunkSize
        BY <1>1, <1>4, <2>1, <2>5, <3>1
      <4> QED
        BY <1>1, <1>2, <1>8, <2>1, <3>1, <4>1, <4>2 DEF Balanced
    <3>3. listening => Exact(new, x2, f, a, p)
      <4>1. p + job.streamBuffer = job.bodyLength =>
              p + (job.streamBuffer + total) = job.bodyLength + total
        BY <1>9
      <4> QED
        BY <1>3, <2>1, <3>1, <4>1 DEF Exact
    <3> QED
      BY <1>5, <2>1, <2>3, <3>1, <3>2, <3>3 DEF Accounted, new
  <2>6. CASE buffered.streamBuffer >= ChunkSize
    <3> DEFINE d == job.streamBuffer + total
    <3>1. /\ new \in RestJobs /\ new.id = job.id /\ ~new.finished
          /\ new.attempt = job.attempt /\ new.attached = job.attached
          /\ new.paused = job.paused /\ new.bodyLength = job.bodyLength + total
          /\ new.streamBuffer = 0 /\ new.pendingStreamBytes = job.pendingStreamBytes + d
          /\ DataOut(new) = d /\ HeadersOut(new) = 0 /\ \A n : OkLength(new, n)
      <4>1. new = FlushStream(buffered) /\ buffered \in RestJobs
        BY <2>1, <2>2, <2>6
      <4>2. 0 + (job.streamBuffer + total) = job.streamBuffer + total
        BY <1>1
      <4> QED
        BY <2>1, <2>3, <4>1, <4>2, FlushAdds
    <3>2. d \in Nat /\ d = job.streamBuffer + total
      BY <1>1
    <3> HIDE DEF d
    <3>3. Balanced(new, x2, f + d, a, p + d, h)
      <4>1. /\ job.pendingStreamBytes + d <= StreamCap
            /\ (job.pendingStreamBytes + d) + 0 <= StreamCap
            /\ (f + d) + 0 <= StreamCap
            /\ (f + d) + a <= job.pendingStreamBytes + d
            /\ (job.pendingStreamBytes + d) + 0 <= job.bodyLength + total
            /\ (p + d) + 0 <= job.bodyLength + total
            /\ job.paused => job.pendingStreamBytes + d >= LowWater
        <5>1. job.paused => job.pendingStreamBytes + d >= LowWater
          <6> HIDE DEF q
          <6>1. q \in Nat /\ d \in Nat /\ LowWater \in Nat
            BY <1>1, <1>4, <3>2 DEF q
          <6>2. q >= LowWater => q + d >= LowWater
            BY <6>1
          <6> QED
            BY <1>1, <6>2 DEF q
        <5> QED
          BY <1>9, <2>4, <3>2, <5>1
      <4> QED
        BY <1>1, <1>2, <1>8, <3>1, <3>2, <4>1 DEF Balanced
    <3>4. listening => Exact(new, x2, f + d, a, p + d)
      <4>1. /\ f + a = job.pendingStreamBytes => (f + d) + a = job.pendingStreamBytes + d
            /\ p + job.streamBuffer = job.bodyLength => (p + d) + 0 = job.bodyLength + total
        BY <1>9, <3>2
      <4> QED
        BY <1>3, <3>1, <4>1 DEF Exact
    <3> QED
      BY <1>5, <3>1, <3>3, <3>4 DEF Accounted, new
  <2> QED
    BY <2>5, <2>6
<1> QED
  BY <1>6, <1>7

\* An acknowledgement is taken off what is acknowledged and off what is pending.
LEMMA OnStreamConsumedAccounts ==
  ASSUME NEW job, NEW x, NEW listening, NEW f, NEW a, NEW p, NEW h,
         Going(job, x, listening, f, a, p, h), NEW bytes \in Nat, NEW b \in Nat,
         a = bytes + b,
         NEW x2, x2.state = x.state, x2.status = x.status,
         x2.paused = IF Resumes(job, bytes) THEN FALSE ELSE x.paused
  PROVE  Accounted(OnStreamConsumed(job, bytes), x2, listening, f, b, p, h)
<1> DEFINE new     == OnStreamConsumed(job, bytes)
           counted == Acknowledged(job, bytes)
<1>1. /\ job \in RestJobs /\ ~job.finished /\ job.out = <<>>
      /\ job.pendingStreamBytes \in Nat /\ job.streamBuffer \in Nat
      /\ job.bodyLength \in Nat /\ job.attempt \in Nat /\ job.paused \in BOOLEAN
      /\ f \in Nat /\ a \in Nat /\ p \in Nat /\ h \in Nat
      /\ f + a <= job.pendingStreamBytes
  BY GoingFields DEF Going
<1>2. /\ counted \in RestJobs /\ counted.id = job.id /\ counted.out = <<>>
      /\ counted.pendingStreamBytes = job.pendingStreamBytes - bytes
      /\ counted.finished = job.finished /\ counted.attempt = job.attempt
      /\ counted.attached = job.attached /\ counted.bodyLength = job.bodyLength
      /\ counted.streamBuffer = job.streamBuffer
  <2>1. job.pendingStreamBytes >= bytes /\ job.pendingStreamBytes - bytes \in Nat
    BY <1>1
  <2> QED
    BY <1>1, <2>1 DEF Acknowledged, RestJobs
<1>3. new = [counted EXCEPT !.paused = job.paused /\ ~Resumes(job, bytes)]
  BY DEF OnStreamConsumed
<1>4. Resumes(job, bytes) <=> /\ job.paused /\ counted.pendingStreamBytes < LowWater
                              /\ job.attached
  BY DEF Resumes
<1> HIDE DEF counted
<1>5. /\ new \in RestJobs /\ new.id = job.id /\ new.out = <<>>
      /\ new.pendingStreamBytes = job.pendingStreamBytes - bytes
      /\ ~new.finished /\ new.attempt = job.attempt
      /\ new.attached = job.attached /\ new.bodyLength = job.bodyLength
      /\ new.streamBuffer = job.streamBuffer
      /\ new.paused <=> job.paused /\ ~Resumes(job, bytes)
  <2>1. (job.paused /\ ~Resumes(job, bytes)) \in BOOLEAN
    OBVIOUS
  <2> QED
    BY <1>1, <1>2, <1>3, <2>1 DEF RestJobs
<1> HIDE DEF new
<1>6. DataOut(new) = 0 /\ HeadersOut(new) = 0 /\ \A n : OkLength(new, n)
  BY <1>5, OutType
<1>7. new.paused => new.pendingStreamBytes >= LowWater
  <2>1. LowWater \in Nat \ {0}
    BY RestJobAssumption
  <2>2. job.attached \/ job.pendingStreamBytes = 0
    BY DEF Going, Balanced
  <2>3. job.paused => job.pendingStreamBytes >= LowWater
    BY DEF Going, Balanced
  <2>4. ASSUME new.paused PROVE job.pendingStreamBytes - bytes >= LowWater
    <3>1. job.attached
      BY <1>1, <1>5, <2>1, <2>2, <2>3, <2>4
    <3>2. ~(counted.pendingStreamBytes < LowWater)
      BY <1>4, <1>5, <2>4, <3>1
    <3> QED
      BY <1>1, <1>2, <2>1, <3>2
  <2> QED
    BY <1>5, <2>4
<1>8. x2.paused => new.paused /\ x.paused
  <2>1. x.paused => job.paused
    BY DEF Going, Balanced
  <2> QED
    BY <1>5, <2>1
<1>9. Balanced(new, x2, f, b, p, h)
  <2> DEFINE q == job.pendingStreamBytes - bytes
  <2>1. /\ q \in Nat /\ q <= job.pendingStreamBytes /\ f + b <= q
        /\ q + job.streamBuffer <= job.bodyLength /\ q + job.streamBuffer <= StreamCap
        /\ p + job.streamBuffer <= job.bodyLength /\ f + job.streamBuffer <= StreamCap
        /\ job.pendingStreamBytes = 0 => q = 0
    <3> DEFINE n == job.pendingStreamBytes
               s == job.streamBuffer
               l == job.bodyLength
    <3>1. /\ n \in Nat /\ s \in Nat /\ l \in Nat /\ StreamCap \in Nat
          /\ f \in Nat /\ a \in Nat /\ p \in Nat /\ f + a <= n
          /\ n + s <= l /\ n + s <= StreamCap /\ p + s <= l /\ f + s <= StreamCap
      BY <1>1, GoingFields
    <3> HIDE DEF n, s, l
    <3>2. n - bytes \in Nat /\ n - bytes <= n /\ f + b <= n - bytes
      BY <3>1
    <3>3. (n - bytes) + s <= l /\ (n - bytes) + s <= StreamCap
      BY <3>1
    <3>4. n = 0 => n - bytes = 0
      BY <3>1
    <3> QED
      BY <3>1, <3>2, <3>3, <3>4 DEF n, s, l
  <2>2. /\ new.pendingStreamBytes = q /\ new.pendingStreamBytes \in Nat
    BY <1>5, <2>1
  <2> HIDE DEF q
  <2> QED
    BY <1>1, <1>5, <1>7, <1>8, <2>1, <2>2 DEF Going, Balanced
<1>10. listening => Exact(new, x2, f, b, p)
  <2>1. f + a = job.pendingStreamBytes => f + b = job.pendingStreamBytes - bytes
    BY <1>1
  <2> QED
    BY <1>1, <1>5, <2>1 DEF Going, Exact
<1>11. f + 0 = f /\ p + 0 = p /\ h + 0 = h
  BY <1>1
<1> QED
  BY <1>5, <1>6, <1>9, <1>10, <1>11 DEF Accounted, new

----------------------------------------------------------------------------
(* Kinds of steps *)

\* What FlowInvariant says of job j.
JobFlow(j) ==
  /\ Balanced(jobs[j], xfer[j], DataBytes(InFlight, j), Acked(j), Passed(j), HeadersGiven(j))
  /\ Listening(j) =>
       Exact(jobs[j], xfer[j], DataBytes(InFlight, j), Acked(j), Passed(j))
  /\ Streamed(j) => WholeTold(j)

Typed(j) ==
  /\ jobs[j] \in RestJobs /\ jobs[j].id = j /\ xfer[j] \in Transfers
  /\ DataBytes(InFlight, j) \in Nat /\ Acked(j) \in Nat
  /\ DataBytes(Undelivered, j) \in Nat /\ HeadersIn(Undelivered, j) \in Nat
  /\ log[j].bytesHandled \in Nat /\ log[j].headersHandled \in Nat
  /\ Passed(j) \in Nat /\ HeadersGiven(j) \in Nat

LEMMA AllTyped == InductiveInvariant => \A j \in Jobs : Typed(j)
<1> SUFFICES ASSUME InductiveInvariant, NEW j \in Jobs PROVE Typed(j)
  OBVIOUS
<1>1. InFlight \in Seq(TransferEvent) /\ Undelivered \in Seq(TransferEvent)
  BY InFlightType, UndeliveredType
<1>2. /\ DataBytes(InFlight, j) \in Nat /\ DataBytes(Undelivered, j) \in Nat
      /\ HeadersIn(Undelivered, j) \in Nat
  BY <1>1, EventsAdd
<1>3. consumeRequests \in Seq(Jobs \X Nat) /\ taken.consumes \in Seq(Jobs \X Nat)
  BY DEF InductiveInvariant, TypeOK, WorkerTypeOK
<1>4. consumeRequests \o taken.consumes \in Seq(Jobs \X Nat)
  BY <1>3, ConcatProperties
<1>5. Acked(j) \in Nat
  BY <1>4, AcksAdd DEF Acked
<1>6. log[j].bytesHandled \in Nat /\ log[j].headersHandled \in Nat
  BY DEF InductiveInvariant, TypeOK, RecordTypeOK, Log
<1>7. Passed(j) \in Nat /\ HeadersGiven(j) \in Nat
  BY <1>2, <1>6 DEF Passed, HeadersGiven
<1>8. jobs[j] \in RestJobs /\ jobs[j].id = j /\ xfer[j] \in Transfers
  BY DEF InductiveInvariant, TypeOK, WorkerTypeOK, JobsInvariant, JobPlaced
<1> QED
  BY <1>2, <1>5, <1>6, <1>7, <1>8 DEF Typed

LEMMA AllTypedNext == InductiveInvariant' => \A j \in Jobs : Typed(j)'
<1>1. (InductiveInvariant => \A j \in Jobs : Typed(j))'
  BY AllTyped, PTL
<1> QED
  BY <1>1

\* The methods of a job that is not over find it in balance.
LEMMA CurrentGoing ==
  ASSUME InductiveInvariant, OrderInvariant, FlowInvariant, NEW j \in Jobs, ~jobs[j].finished
  PROVE  /\ jobs[j].id = j
         /\ Going(jobs[j], xfer[j], Listening(j), DataBytes(InFlight, j), Acked(j),
                  Passed(j), HeadersGiven(j))
<1>1. /\ jobs[j] \in RestJobs /\ jobs[j].id = j /\ jobs[j].out = <<>>
      /\ xfer[j].state # "none" <=> jobs[j].attached
  BY DEF InductiveInvariant, TypeOK, WorkerTypeOK, JobsInvariant, JobPlaced, OrderInvariant
<1>2. /\ DataBytes(InFlight, j) \in Nat /\ Acked(j) \in Nat
      /\ Passed(j) \in Nat /\ HeadersGiven(j) \in Nat
  BY AllTyped DEF Typed
<1> QED
  BY <1>1, <1>2 DEF Going, FlowInvariant

\* The transfer of a job that no method ran for is as it was, or has ended.
KeptTransfer(new, old) ==
  /\ new.paused = old.paused /\ new.status = old.status
  /\ new.state = old.state \/ (old.state # "none" /\ new.state = "done")

\* What is under way for a job only gets less.
LEMMA LessBalanced ==
  ASSUME NEW job \in RestJobs, NEW x, NEW x2, KeptTransfer(x2, x),
         NEW f \in Nat, NEW a \in Nat, NEW p \in Nat, NEW h \in Nat,
         NEW f2 \in Nat, NEW a2 \in Nat, NEW p2 \in Nat, NEW h2 \in Nat,
         f2 <= f, f2 + a2 <= f + a, p2 <= p, h2 <= h, Balanced(job, x, f, a, p, h)
  PROVE  Balanced(job, x2, f2, a2, p2, h2)
<1> DEFINE q == job.pendingStreamBytes
           s == job.streamBuffer
           l == job.bodyLength
           n == job.attempt
<1>1. q \in Nat /\ s \in Nat /\ l \in Nat /\ n \in Nat /\ StreamCap \in Nat
  BY RestJobAssumption, TransferThreadAssumption DEF RestJobs, StreamCap
<1> HIDE DEF q, s, l, n
<1>2. /\ f + a <= q => f2 + a2 <= q
      /\ p + s <= l => p2 + s <= l
      /\ h <= n => h2 <= n
      /\ h < n => h2 < n
      /\ f + s <= StreamCap => f2 + s <= StreamCap
      /\ p = 0 => p2 = 0
  BY <1>1
<1> QED
  BY <1>2 DEF Balanced, KeptTransfer, q, s, l, n

\* Nothing more is under way for job j than before, and it is as it was, or over.
LEMMA KeptFlow ==
  ASSUME NEW j \in Jobs, JobFlow(j), Typed(j), Typed(j)',
         DataBytes(InFlight, j)' <= DataBytes(InFlight, j),
         DataBytes(InFlight, j)' + Acked(j)' <= DataBytes(InFlight, j) + Acked(j),
         Passed(j)' <= Passed(j), HeadersGiven(j)' <= HeadersGiven(j),
         \/ jobs'[j] = jobs[j] /\ KeptTransfer(xfer'[j], xfer[j])
         \/ jobs'[j].finished /\ jobs'[j].streamBuffer = 0 /\ ~xfer'[j].paused,
         Listening(j)' => \/ /\ Listening(j)
                             /\ DataBytes(InFlight, j)' + Acked(j)' =
                                  DataBytes(InFlight, j) + Acked(j)
                             /\ Passed(j)' = Passed(j)
                          \/ xfer'[j].state = "none" /\ ~jobs[j].attached,
         Streamed(j) => WholeTold(j)'
  PROVE  JobFlow(j)'
<1> DEFINE f  == DataBytes(InFlight, j)
           a  == Acked(j)
           p  == Passed(j)
           h  == HeadersGiven(j)
           f2 == DataBytes(InFlight, j)'
           a2 == Acked(j)'
           p2 == Passed(j)'
           h2 == HeadersGiven(j)'
<1>1. /\ f \in Nat /\ a \in Nat /\ p \in Nat /\ h \in Nat
      /\ f2 \in Nat /\ a2 \in Nat /\ p2 \in Nat /\ h2 \in Nat
      /\ jobs[j] \in RestJobs /\ jobs[j].id = j
      /\ StreamCap \in Nat /\ jobs[j].streamBuffer \in Nat
  <2>1. /\ f \in Nat /\ a \in Nat /\ p \in Nat /\ h \in Nat
        /\ jobs[j] \in RestJobs /\ jobs[j].id = j
    BY DEF Typed
  <2>2. f2 \in Nat /\ a2 \in Nat /\ p2 \in Nat /\ h2 \in Nat
    BY DEF Typed
  <2>3. jobs[j].streamBuffer \in Nat
    BY <2>1 DEF RestJobs
  <2>4. StreamCap \in Nat
    BY RestJobAssumption, TransferThreadAssumption DEF StreamCap
  <2> QED
    BY <2>1, <2>2, <2>3, <2>4
<1>2. /\ f2 <= f /\ f2 + a2 <= f + a /\ p2 <= p /\ h2 <= h
      /\ Balanced(jobs[j], xfer[j], f, a, p, h)
      /\ Listening(j) => Exact(jobs[j], xfer[j], f, a, p)
      /\ Listening(j)' => \/ Listening(j) /\ f2 + a2 = f + a /\ p2 = p
                          \/ xfer'[j].state = "none" /\ ~jobs[j].attached
  BY DEF JobFlow
<1>3. JobFlow(j)' <=> /\ Balanced(jobs'[j], xfer'[j], f2, a2, p2, h2)
                      /\ Listening(j)' => Exact(jobs'[j], xfer'[j], f2, a2, p2)
                      /\ Streamed(j) => WholeTold(j)'
  BY DEF JobFlow, Streamed, Balanced, Exact
<1> HIDE DEF f, a, p, h, f2, a2, p2, h2
<1>4. CASE jobs'[j].finished /\ jobs'[j].streamBuffer = 0 /\ ~xfer'[j].paused
  <2>1. f2 + 0 <= StreamCap
    <3>1. f + jobs[j].streamBuffer <= StreamCap
      BY <1>2 DEF Balanced
    <3> QED
      BY <1>1, <1>2, <3>1
  <2> QED
    BY <1>3, <1>4, <2>1 DEF Balanced, Exact
<1>5. CASE jobs'[j] = jobs[j] /\ KeptTransfer(xfer'[j], xfer[j])
  <2>1. Balanced(jobs[j], xfer'[j], f2, a2, p2, h2)
    BY <1>1, <1>2, <1>5, LessBalanced
  <2>2. ASSUME Listening(j)' PROVE Exact(jobs[j], xfer'[j], f2, a2, p2)
    <3>1. CASE Listening(j) /\ f2 + a2 = f + a /\ p2 = p
      BY <1>2, <1>5, <3>1 DEF Exact, KeptTransfer
    <3>2. CASE xfer'[j].state = "none" /\ ~jobs[j].attached
      <4>1. ~jobs[j].finished => jobs[j].pendingStreamBytes = 0 /\ f2 + a2 <= 0
        BY <1>1, <2>1, <3>2 DEF Balanced
      <4> QED
        BY <1>1, <3>2, <4>1 DEF Exact
    <3> QED
      BY <1>2, <2>2, <3>1, <3>2
  <2> QED
    BY <1>3, <1>5, <2>1, <2>2
<1> QED
  BY <1>4, <1>5

\* The results on their way are as they were, or their plugin is not waiting.
LEMMA KeptWhole ==
  ASSUME NEW j \in Jobs, WholeTold(j),
         Listening(j)' =>
           /\ Listening(j) /\ Passed(j)' = Passed(j)
           /\ \A k \in DOMAIN Undelivered' :
                IsOf(Undelivered'[k], j, "Complete") =>
                  \E i \in DOMAIN Undelivered : Undelivered[i] = Undelivered'[k],
         log'[j].outcome = "Ok" =>
           /\ log[j].outcome = "Ok"
           /\ log'[j].bytesHandled = log[j].bytesHandled /\ log'[j].length = log[j].length
  PROVE  WholeTold(j)'
<1>1. ASSUME Listening(j)', NEW k \in DOMAIN Undelivered',
             IsOf(Undelivered'[k], j, "Complete"), Undelivered'[k].status = "Ok"
      PROVE  Undelivered'[k].n = Passed(j)'
  <2>1. PICK i \in DOMAIN Undelivered : Undelivered[i] = Undelivered'[k]
    BY <1>1
  <2>2. Undelivered[i].n = Passed(j)
    BY <1>1, <2>1 DEF WholeTold
  <2> QED
    BY <1>1, <2>1, <2>2
<1> QED
  BY <1>1 DEF WholeTold

\* What the worker posts comes after what is under way already.
LEMMA UndeliveredPosted ==
  ASSUME InductiveInvariant, NEW out \in Seq(TransferEvent), outbox = <<>>, outbox' = out,
         UNCHANGED <<batch, events, mpc>>
  PROVE  InFlight' = InFlight \o out /\ Undelivered' = Undelivered \o out
<1>1. InFlight' = InFlight \o out /\ InFlight \in Seq(TransferEvent)
  BY InFlightPosted, InFlightType
<1>2. CASE mpc = "callback"
  <2>1. Tail(InFlight \o out) = Tail(InFlight) \o out
    BY <1>1, <1>2, UndeliveredType, TailOfPosts
  <2> QED
    BY <1>1, <1>2, <2>1 DEF Undelivered
<1>3. CASE mpc # "callback"
  BY <1>1, <1>3 DEF Undelivered
<1> QED
  BY <1>2, <1>3

\* The result of a job that is not over is not on its way.
LEMMA NoOldComplete ==
  ASSUME InductiveInvariant, OrderInvariant, NEW j \in Jobs, ~jobs[j].finished
  PROVE  \A i \in DOMAIN Undelivered : ~IsOf(Undelivered[i], j, "Complete")
<1>1. \A i \in DOMAIN InFlight : ~IsOf(InFlight[i], j, "Complete")
  BY DEF OrderInvariant, Ordered, Finished, IsOf
<1>2. CASE mpc # "callback"
  BY <1>1, <1>2 DEF Undelivered
<1>3. CASE mpc = "callback"
  <2>1. InFlight \in Seq(TransferEvent) /\ InFlight # <<>>
    BY <1>3, InFlightType, UndeliveredType
  <2>2. /\ DOMAIN InFlight = 1..Len(InFlight) /\ Len(InFlight) \in Nat
        /\ DOMAIN Tail(InFlight) = 1..(Len(InFlight) - 1)
        /\ \A i \in 1..(Len(InFlight) - 1) : Tail(InFlight)[i] = InFlight[i + 1]
    BY <2>1, HeadTailProperties, LenProperties
  <2>3. \A i \in 1..(Len(InFlight) - 1) : i + 1 \in DOMAIN InFlight
    BY <2>2
  <2> QED
    BY <1>1, <1>3, <2>2, <2>3 DEF Undelivered
<1> QED
  BY <1>2, <1>3

\* A step in which the worker runs a method of job j, and of no other.
LEMMA JobStepFlow ==
  ASSUME InductiveInvariant, InductiveInvariant', OrderInvariant, FlowInvariant,
         NEW j \in Jobs, NEW job, job.id = j, \A i \in DOMAIN job.out : job.out[i].id = j,
         ~jobs[j].finished, Posted, Apply(j, job), UNCHANGED mainVars,
         \A i \in Jobs \ {j} : xfer'[i] = xfer[i] /\ Acked(i)' = Acked(i),
         Accounted(job, xfer'[j], Listening(j), DataBytes(InFlight, j), Acked(j)',
                   Passed(j), HeadersGiven(j))
  PROVE  FlowInvariant'
<1>1. /\ jobs \in [Jobs -> RestJobs] /\ job \in RestJobs
      /\ outbox = <<>> /\ outbox' = job.out /\ job.out \in Seq(TransferEvent)
      /\ jobs' = [jobs EXCEPT ![j] = [job EXCEPT !.out = <<>>]]
      /\ UNCHANGED <<events, enabled, log, records, mpc, batch>>
  BY DEF InductiveInvariant, TypeOK, WorkerTypeOK, Accounted, RestJobs, Posted, Apply, mainVars
<1>2. /\ InFlight' = InFlight \o job.out /\ Undelivered' = Undelivered \o job.out
      /\ InFlight \in Seq(TransferEvent) /\ Undelivered \in Seq(TransferEvent)
  BY <1>1, UndeliveredPosted, InFlightType, UndeliveredType
<1>3. \A i \in Jobs : Typed(i) /\ Typed(i)' /\ Listening(i)' = Listening(i)
  BY <1>1, AllTyped, AllTypedNext DEF Listening, Found
<1>4. ASSUME NEW i \in Jobs
      PROVE  /\ DataBytes(InFlight, i)' = DataBytes(InFlight, i) + DataBytes(job.out, i)
             /\ Passed(i)' = Passed(i) + DataBytes(job.out, i)
             /\ HeadersGiven(i)' = HeadersGiven(i) + HeadersIn(job.out, i)
  <2>1. /\ DataBytes(InFlight, i)' = DataBytes(InFlight \o job.out, i)
        /\ DataBytes(Undelivered, i)' = DataBytes(Undelivered \o job.out, i)
        /\ HeadersIn(Undelivered, i)' = HeadersIn(Undelivered \o job.out, i)
    BY <1>2 DEF DataBytes, HeadersIn, SumOf, IsOf
  <2>2. /\ DataBytes(InFlight, i)' = DataBytes(InFlight, i) + DataBytes(job.out, i)
        /\ DataBytes(Undelivered, i)' = DataBytes(Undelivered, i) + DataBytes(job.out, i)
        /\ HeadersIn(Undelivered, i)' = HeadersIn(Undelivered, i) + HeadersIn(job.out, i)
    BY <1>1, <1>2, <2>1, EventsAdd
  <2>3. /\ DataBytes(Undelivered, i) \in Nat /\ DataBytes(job.out, i) \in Nat
        /\ HeadersIn(Undelivered, i) \in Nat /\ HeadersIn(job.out, i) \in Nat
        /\ log[i].bytesHandled \in Nat /\ log[i].headersHandled \in Nat
    BY <1>1, <1>3, EventsAdd DEF Typed
  <2> QED
    BY <1>1, <2>2, <2>3 DEF Passed, HeadersGiven
<1>5. ASSUME NEW i \in Jobs \ {j} PROVE JobFlow(i)'
  <2>1. JobFlow(i) /\ jobs'[i] = jobs[i] /\ xfer'[i] = xfer[i] /\ Acked(i)' = Acked(i)
    BY <1>1 DEF FlowInvariant, JobFlow
  <2>2. DataBytes(job.out, i) = 0 /\ HeadersIn(job.out, i) = 0
    <3>1. \A k \in DOMAIN job.out : ~IsOf(job.out[k], i, "Data") /\ ~IsOf(job.out[k], i, "Headers")
      BY DEF IsOf
    <3> QED
      BY <1>1, <3>1, EventsOfOthers
  <2>3. /\ DataBytes(InFlight, i) \in Nat /\ Passed(i) \in Nat /\ HeadersGiven(i) \in Nat
        /\ Acked(i) \in Nat
    BY <1>3 DEF Typed
  <2>4. /\ DataBytes(InFlight, i)' = DataBytes(InFlight, i) /\ Passed(i)' = Passed(i)
        /\ HeadersGiven(i)' = HeadersGiven(i)
    BY <1>4, <2>2, <2>3
  <2>5. \A k \in DOMAIN Undelivered' :
          IsOf(Undelivered'[k], i, "Complete") =>
            \E m \in DOMAIN Undelivered : Undelivered[m] = Undelivered'[k]
    <3> SUFFICES ASSUME NEW k \in DOMAIN Undelivered', IsOf(Undelivered'[k], i, "Complete")
                 PROVE  \E m \in DOMAIN Undelivered : Undelivered[m] = Undelivered'[k]
      OBVIOUS
    <3>1. \/ k \in DOMAIN Undelivered /\ Undelivered'[k] = Undelivered[k]
          \/ /\ k - Len(Undelivered) \in DOMAIN job.out
             /\ Undelivered'[k] = job.out[k - Len(Undelivered)]
      BY <1>1, <1>2, ConcatProperties, LenProperties
    <3> QED
      BY <3>1 DEF IsOf
  <2>6. Streamed(i) => WholeTold(i)'
    BY <1>1, <1>3, <2>1, <2>4, <2>5, KeptWhole DEF JobFlow
  <2>7. KeptTransfer(xfer'[i], xfer[i])
    BY <2>1 DEF KeptTransfer
  <2> QED
    BY <1>3, <2>1, <2>3, <2>4, <2>6, <2>7, KeptFlow
<1>6. JobFlow(j)'
  <2> DEFINE d == DataBytes(job.out, j)
  <2>1. DataOut(job) = d /\ HeadersOut(job) = HeadersIn(job.out, j)
    BY DEF DataOut, HeadersOut
  <2>2. /\ jobs'[j].id = job.id /\ jobs'[j].finished = job.finished
        /\ jobs'[j].attempt = job.attempt /\ jobs'[j].attached = job.attached
        /\ jobs'[j].paused = job.paused /\ jobs'[j].bodyLength = job.bodyLength
        /\ jobs'[j].streamBuffer = job.streamBuffer
        /\ jobs'[j].pendingStreamBytes = job.pendingStreamBytes
    BY <1>1 DEF RestJobs
  <2>3. /\ Balanced(job, xfer'[j], DataBytes(InFlight, j)', Acked(j)', Passed(j)',
                    HeadersGiven(j)')
        /\ Listening(j) =>
             Exact(job, xfer'[j], DataBytes(InFlight, j)', Acked(j)', Passed(j)')
        /\ Listening(j) /\ Streamed(j) => OkLength(job, Passed(j)')
    BY <1>4, <2>1 DEF Accounted
  <2>4. /\ Balanced(jobs'[j], xfer'[j], DataBytes(InFlight, j)', Acked(j)', Passed(j)',
                    HeadersGiven(j)')
        /\ Listening(j)' =>
             Exact(jobs'[j], xfer'[j], DataBytes(InFlight, j)', Acked(j)', Passed(j)')
    BY <1>3, <2>2, <2>3 DEF Balanced, Exact
  <2>5. ASSUME Streamed(j), Listening(j)', NEW k \in DOMAIN Undelivered',
               IsOf(Undelivered'[k], j, "Complete"), Undelivered'[k].status = "Ok"
        PROVE  Undelivered'[k].n = Passed(j)'
    <3>1. \/ k \in DOMAIN Undelivered /\ Undelivered'[k] = Undelivered[k]
          \/ /\ k - Len(Undelivered) \in DOMAIN job.out
             /\ Undelivered'[k] = job.out[k - Len(Undelivered)]
      BY <1>1, <1>2, ConcatProperties, LenProperties
    <3>2. OkLength(job, Passed(j)')
      BY <1>3, <2>3, <2>5
    <3> QED
      BY <2>5, <3>1, <3>2, NoOldComplete DEF OkLength
  <2>6. Streamed(j) => WholeTold(j)'
    <3>1. Streamed(j) => (log[j].outcome = "Ok" => log[j].bytesHandled = log[j].length)
      BY DEF FlowInvariant, WholeTold
    <3> QED
      BY <1>1, <2>5, <3>1 DEF WholeTold
  <2> QED
    BY <2>4, <2>6 DEF JobFlow, Streamed
<1> QED
  <2>1. \A i \in Jobs : JobFlow(i)'
    BY <1>5, <1>6
  <2> QED
    BY <2>1 DEF FlowInvariant, JobFlow

LEMMA FlowOfJobs ==
  /\ FlowInvariant <=> \A j \in Jobs : JobFlow(j)
  /\ FlowInvariant' <=> \A j \in Jobs : JobFlow(j)'
BY DEF FlowInvariant, JobFlow

----------------------------------------------------------------------------
(* The steps of the worker *)

LEMMA KeptAcks ==
  ASSUME UNCHANGED consumeRequests, taken'.consumes = taken.consumes
  PROVE  \A j \in Jobs : Acked(j)' = Acked(j)
BY DEF Acked, ConsumedBytes, SumOf

LEMMA BeginAttemptFlow ==
  ASSUME InductiveInvariant, InductiveInvariant', OrderInvariant, Delivery, FlowInvariant,
         NEW j \in Jobs, NEW outcome \in BeginOutcomes(jobs[j]),
         Apply(j, BeginAttempt(jobs[j], outcome)),
         xfer' = IF BeginAttempt(jobs[j], outcome).attached
                 THEN [xfer EXCEPT ![j] = [NoTransfer EXCEPT !.state = "open"]] ELSE xfer,
         Posted, UNCHANGED mainVars, ~jobs[j].finished, ~jobs[j].attached,
         \A i \in Jobs : Acked(i)' = Acked(i)
  PROVE  FlowInvariant'
<1> DEFINE job == BeginAttempt(jobs[j], outcome)
<1>1. Carries(job, jobs[j], j)
  BY CurrentCarries, BeginAttemptCarries
<1>2. /\ xfer \in [Jobs -> Transfers]
      /\ [NoTransfer EXCEPT !.state = "open"].state = "open"
      /\ ~[NoTransfer EXCEPT !.state = "open"].paused
  BY DEF InductiveInvariant, TypeOK, WorkerTypeOK, NoTransfer
<1>3. IF job.attached THEN xfer'[j].state = "open" /\ ~xfer'[j].paused ELSE xfer'[j] = xfer[j]
  BY <1>2
<1>4. \A i \in Jobs \ {j} : xfer'[i] = xfer[i]
  BY <1>2
<1>5. Accounted(job, xfer'[j], Listening(j), DataBytes(InFlight, j), Acked(j), Passed(j),
                HeadersGiven(j))
  BY <1>3, CurrentGoing, BeginAttemptAccounts
<1> HIDE DEF job
<1>6. Apply(j, job)
  BY DEF job
<1> QED
  BY <1>1, <1>4, <1>5, <1>6, JobStepFlow DEF Carries

LEMMA AdmitIncomingFlow ==
  ASSUME InductiveInvariant, InductiveInvariant', OrderInvariant, Delivery, FlowInvariant,
         NEW j \in Jobs, WorkerStep(AdmitIncoming(j))
  PROVE  FlowInvariant'
<1>1. ~jobs[j].finished /\ ~jobs[j].attached /\ Posted /\ UNCHANGED mainVars
  BY DEF WorkerStep, AdmitIncoming, InductiveInvariant, JobsInvariant, JobPlaced
<1>2. UNCHANGED consumeRequests /\ taken'.consumes = taken.consumes
  BY DEF WorkerStep, AdmitIncoming, mailbox, InductiveInvariant, TypeOK, WorkerTypeOK
<1>3. \A i \in Jobs : Acked(i)' = Acked(i)
  BY <1>2, KeptAcks
<1> QED
  BY <1>1, <1>3, BeginAttemptFlow DEF WorkerStep, AdmitIncoming

LEMMA StartDueRetryFlow ==
  ASSUME InductiveInvariant, InductiveInvariant', OrderInvariant, Delivery, FlowInvariant,
         NEW j \in Jobs, WorkerStep(StartDueRetry(j))
  PROVE  FlowInvariant'
<1>1. ~jobs[j].finished /\ ~jobs[j].attached /\ Posted /\ UNCHANGED mainVars
  BY DEF WorkerStep, StartDueRetry, InductiveInvariant, JobsInvariant, JobPlaced, JobInvariant
<1>2. UNCHANGED consumeRequests /\ taken'.consumes = taken.consumes
  BY DEF WorkerStep, StartDueRetry, mailbox
<1>3. \A i \in Jobs : Acked(i)' = Acked(i)
  BY <1>2, KeptAcks
<1> QED
  BY <1>1, <1>3, BeginAttemptFlow DEF WorkerStep, StartDueRetry

\* The easy handle of a job was released.
LEMMA ReleasedFlow ==
  ASSUME InductiveInvariant, NEW j \in Jobs, NEW job, Release(j, job), ~job.attached
  PROVE  /\ ~xfer'[j].paused /\ xfer'[j].state = "none"
         /\ \A i \in Jobs \ {j} : xfer'[i] = xfer[i]
<1>1. xfer \in [Jobs -> Transfers] /\ ~NoTransfer.paused /\ NoTransfer.state = "none"
  BY DEF InductiveInvariant, TypeOK, WorkerTypeOK, NoTransfer
<1> QED
  BY <1>1 DEF Release

LEMMA ReapCompletedFlow ==
  ASSUME InductiveInvariant, InductiveInvariant', OrderInvariant, Delivery, FlowInvariant,
         NEW j \in Jobs, WorkerStep(ReapCompleted(j))
  PROVE  FlowInvariant'
<1>1. PICK renamed \in BOOLEAN :
        LET job == OnAttemptDone(jobs[j], xfer[j].code, xfer[j].status, renamed)
        IN  Apply(j, job) /\ Release(j, job)
  BY DEF WorkerStep, ReapCompleted
<1>2. /\ Posted /\ UNCHANGED mainVars /\ UNCHANGED consumeRequests /\ UNCHANGED taken
      /\ xfer[j].state = "done" /\ xfer[j].code \in CurlCode /\ xfer[j].status \in Nat
  BY TransferFields DEF WorkerStep, ReapCompleted, mailbox
<1> DEFINE job == OnAttemptDone(jobs[j], xfer[j].code, xfer[j].status, renamed)
<1>3. Carries(jobs[j], jobs[j], j) /\ ~jobs[j].finished
  BY <1>2, TransferCarries
<1>4. j \in HeaderJobs => jobs[j].headersPosted \/ jobs[j].streamBuffer = 0
  BY <1>3 DEF Carries, RestJobs
<1>5. Carries(job, jobs[j], j)
  BY <1>2, <1>3, <1>4, OnAttemptDoneCarries
<1>6. ~job.attached
  BY <1>2, <1>3, OnAttemptDoneEffect DEF Carries, InductiveInvariant, JobsInvariant, JobPlaced
<1>7. Apply(j, job) /\ Release(j, job)
  BY <1>1
<1>8. /\ ~xfer'[j].paused /\ xfer'[j].state = "none"
      /\ \A i \in Jobs \ {j} : xfer'[i] = xfer[i]
  <2> HIDE DEF job
  <2> QED
    BY <1>6, <1>7, ReleasedFlow
<1>9. Accounted(job, xfer'[j], Listening(j), DataBytes(InFlight, j), Acked(j), Passed(j),
                HeadersGiven(j))
  BY <1>2, <1>3, <1>8, CurrentGoing, OnAttemptDoneAccounts
<1>10. \A i \in Jobs : Acked(i)' = Acked(i)
  BY <1>2, KeptAcks
<1> HIDE DEF job
<1> QED
  BY <1>2, <1>3, <1>5, <1>7, <1>8, <1>9, <1>10, JobStepFlow DEF Carries

\* A step of the worker that runs no method: a transfer may end, jobs that are
\* over are destroyed, and requests that nobody waits for are forgotten.
LEMMA WorkerKeepsFlow ==
  ASSUME InductiveInvariant, InductiveInvariant', FlowInvariant,
         UNCHANGED <<queueVars, mainVars>>,
         \A j \in Jobs : \/ jobs'[j] = jobs[j] /\ KeptTransfer(xfer'[j], xfer[j])
                         \/ jobs'[j].finished /\ jobs'[j].streamBuffer = 0 /\ ~xfer'[j].paused,
         \A j \in Jobs : \/ Acked(j)' = Acked(j)
                         \/ /\ Acked(j)' <= Acked(j)
                            /\ xfer'[j].state = "none" /\ ~jobs[j].attached
  PROVE  FlowInvariant'
<1>1. UNCHANGED <<batch, events, outbox, enabled, mpc, records, log>>
  BY DEF queueVars, mainVars
<1>2. InFlight' = InFlight /\ Undelivered' = Undelivered
  BY <1>1 DEF InFlight, Undelivered
<1> SUFFICES ASSUME NEW j \in Jobs PROVE JobFlow(j)'
  BY FlowOfJobs
<1>3. JobFlow(j) /\ Typed(j) /\ Typed(j)'
  BY FlowOfJobs, AllTyped, AllTypedNext
<1>4. /\ DataBytes(InFlight, j)' = DataBytes(InFlight, j)
      /\ Passed(j)' = Passed(j) /\ HeadersGiven(j)' = HeadersGiven(j)
      /\ Listening(j)' = Listening(j)
  BY <1>1, <1>2 DEF Passed, HeadersGiven, Listening, Found, DataBytes, HeadersIn, SumOf, IsOf
<1>5. Streamed(j) => WholeTold(j)'
  BY <1>1, <1>2, <1>3, <1>4, KeptWhole DEF JobFlow
<1>6. /\ DataBytes(InFlight, j) \in Nat /\ Passed(j) \in Nat /\ HeadersGiven(j) \in Nat
      /\ Acked(j) \in Nat /\ Acked(j)' \in Nat
  BY <1>3 DEF Typed
<1>7. /\ DataBytes(InFlight, j)' <= DataBytes(InFlight, j)
      /\ DataBytes(InFlight, j)' + Acked(j)' <= DataBytes(InFlight, j) + Acked(j)
      /\ Passed(j)' <= Passed(j) /\ HeadersGiven(j)' <= HeadersGiven(j)
  BY <1>4, <1>6
<1>8. Listening(j)' => \/ /\ Listening(j)
                          /\ DataBytes(InFlight, j)' + Acked(j)' =
                               DataBytes(InFlight, j) + Acked(j)
                          /\ Passed(j)' = Passed(j)
                       \/ xfer'[j].state = "none" /\ ~jobs[j].attached
  BY <1>4
<1> QED
  BY <1>3, <1>5, <1>7, <1>8, KeptFlow

\* Nothing of the worker changes but where it is, or how far a transfer got.
LEMMA SilentStepFlow ==
  ASSUME InductiveInvariant, InductiveInvariant', FlowInvariant,
         UNCHANGED <<jobs, queueVars, mainVars>>,
         \A j \in Jobs : KeptTransfer(xfer'[j], xfer[j]),
         \A j \in Jobs : Acked(j)' = Acked(j)
  PROVE  FlowInvariant'
BY WorkerKeepsFlow

LEMMA SameTransfer == UNCHANGED xfer => \A j \in Jobs : KeptTransfer(xfer'[j], xfer[j])
BY DEF KeptTransfer

LEMMA SilentWorkerFlow ==
  ASSUME InductiveInvariant, InductiveInvariant', FlowInvariant,
         \/ WorkerStep(TakePending) \/ WorkerStep(ExitLoop)
         \/ WorkerStep(BeginPerform) \/ WorkerStep(EndPerform)
  PROVE  FlowInvariant'
<1>1. UNCHANGED <<jobs, xfer, queueVars, mainVars>>
  BY DEF WorkerStep, TakePending, ExitLoop, BeginPerform, EndPerform
<1>2. \A j \in Jobs : Acked(j)' = Acked(j)
  <2>1. CASE WorkerStep(TakePending)
    <3>1. taken = NothingTaken
      BY <2>1 DEF WorkerStep, TakePending, InductiveInvariant, WorkerInvariant
    <3>2. /\ taken.consumes = <<>> /\ consumeRequests' = <<>>
          /\ taken'.consumes = consumeRequests /\ consumeRequests \in Seq(Jobs \X Nat)
      BY <2>1, <3>1 DEF WorkerStep, TakePending, NothingTaken, InductiveInvariant, TypeOK,
                        WorkerTypeOK
    <3>3. /\ consumeRequests \o <<>> = consumeRequests
          /\ <<>> \o consumeRequests = consumeRequests
      <4> DEFINE S == Jobs \X Nat
      <4>1. consumeRequests \in Seq(S)
        BY <3>2
      <4> HIDE DEF S
      <4> QED
        BY <4>1, ConcatEmptySeq
    <3>4. (consumeRequests \o taken.consumes)' = consumeRequests \o taken.consumes
      BY <3>2, <3>3
    <3> QED
      BY <3>4 DEF Acked, ConsumedBytes, SumOf
  <2>2. CASE ~WorkerStep(TakePending)
    BY <2>2, KeptAcks DEF WorkerStep, ExitLoop, BeginPerform, EndPerform, mailbox
  <2> QED
    BY <2>1, <2>2
<1> QED
  BY <1>1, <1>2, SameTransfer, SilentStepFlow

LEMMA ApplyCancellationFlow ==
  ASSUME InductiveInvariant, InductiveInvariant', OrderInvariant, Delivery, FlowInvariant,
         NEW j \in Jobs, WorkerStep(ApplyCancellation(j))
  PROVE  FlowInvariant'
<1>1. \A i \in Jobs : Acked(i)' = Acked(i)
  <2>1. UNCHANGED consumeRequests /\ taken'.consumes = taken.consumes
    BY DEF WorkerStep, ApplyCancellation, mailbox, InductiveInvariant, TypeOK, WorkerTypeOK
  <2> QED
    BY <2>1, KeptAcks
<1>2. CASE FindActive(j)
  <2> DEFINE job == Cancel(jobs[j])
  <2>1. /\ Apply(j, job) /\ Release(j, job) /\ Posted /\ UNCHANGED mainVars
        /\ ~jobs[j].finished
    BY <1>2 DEF WorkerStep, ApplyCancellation, FindActive
  <2>2. Carries(job, jobs[j], j)
    BY <2>1, CurrentCarries, CancelCarries
  <2>3. ~job.attached
    BY <2>1, CancelEffect DEF InductiveInvariant, TypeOK, WorkerTypeOK, JobsInvariant, JobPlaced
  <2>4. ~xfer'[j].paused /\ \A i \in Jobs \ {j} : xfer'[i] = xfer[i]
    <3> HIDE DEF job
    <3> QED
      BY <2>1, <2>3, ReleasedFlow
  <2>5. Accounted(job, xfer'[j], Listening(j), DataBytes(InFlight, j), Acked(j), Passed(j),
                  HeadersGiven(j))
    BY <2>1, <2>4, CurrentGoing, CancelAccounts
  <2> HIDE DEF job
  <2> QED
    BY <1>1, <2>1, <2>2, <2>4, <2>5, JobStepFlow DEF Carries
<1>3. CASE ~FindActive(j)
  <2>1. UNCHANGED <<jobs, xfer, queueVars, mainVars>>
    BY <1>3 DEF WorkerStep, ApplyCancellation
  <2> QED
    BY <1>1, <2>1, SameTransfer, SilentStepFlow
<1> QED
  BY <1>2, <1>3

\* The oldest acknowledgement is taken off; one for a job that is over is lost.
LEMMA ApplyConsumedFlow ==
  ASSUME InductiveInvariant, InductiveInvariant', OrderInvariant, Delivery, FlowInvariant,
         WorkerStep(ApplyConsumed)
  PROVE  FlowInvariant'
<1> DEFINE rest == Tail(taken.consumes)
<1>1. /\ taken.consumes \in Seq(Jobs \X Nat) /\ taken.consumes # <<>>
      /\ consumeRequests \in Seq(Jobs \X Nat) /\ UNCHANGED consumeRequests
      /\ taken'.consumes = rest
  BY DEF WorkerStep, ApplyConsumed, mailbox, InductiveInvariant, TypeOK, WorkerTypeOK
<1>2. PICK j \in Jobs, bytes \in Nat : Head(taken.consumes) = <<j, bytes>>
  <2> DEFINE S == Jobs \X Nat
  <2>1. Head(taken.consumes) \in S
    <3>1. taken.consumes \in Seq(S) /\ taken.consumes # <<>>
      BY <1>1
    <3> HIDE DEF S
    <3> QED
      BY <3>1, HeadTailProperties
  <2> QED
    BY <2>1
<1>3. /\ Head(taken.consumes)[1] = j /\ Head(taken.consumes)[2] = bytes
      /\ Posted /\ UNCHANGED mainVars
      /\ IF FindActive(j)
         THEN /\ Apply(j, OnStreamConsumed(jobs[j], bytes))
              /\ IF Resumes(jobs[j], bytes) THEN xfer' = [xfer EXCEPT ![j].paused = FALSE]
                                            ELSE UNCHANGED xfer
         ELSE UNCHANGED <<jobs, xfer, queueVars>>
  BY <1>2 DEF WorkerStep, ApplyConsumed
<1>4. ASSUME NEW i \in Jobs
      PROVE  Acked(i) = (IF i = j THEN bytes ELSE 0) + Acked(i)'
  <2> DEFINE S == Jobs \X Nat
  <2>1. taken.consumes \in Seq(S) /\ consumeRequests \in Seq(S) /\ rest \in Seq(S)
    <3>1. taken.consumes \in Seq(S) /\ consumeRequests \in Seq(S) /\ taken.consumes # <<>>
      BY <1>1
    <3> HIDE DEF S
    <3> QED
      BY <3>1, HeadTailProperties
  <2>2. /\ Acked(i) = ConsumedBytes(consumeRequests, i) + ConsumedBytes(taken.consumes, i)
        /\ ConsumedBytes(consumeRequests \o rest, i) =
             ConsumedBytes(consumeRequests, i) + ConsumedBytes(rest, i)
        /\ ConsumedBytes(consumeRequests, i) \in Nat /\ ConsumedBytes(rest, i) \in Nat
    <3> HIDE DEF rest
    <3> QED
      BY <2>1, AcksAdd DEF Acked
  <2>3. Acked(i)' = ConsumedBytes(consumeRequests \o rest, i)
    BY <1>1 DEF Acked, ConsumedBytes, SumOf
  <2>4. ConsumedBytes(taken.consumes, i) =
          (IF j = i THEN bytes ELSE 0) + ConsumedBytes(rest, i)
    BY <1>1, <1>3, FirstAckAdds
  <2> HIDE DEF rest, S
  <2> QED
    BY <1>2, <2>2, <2>3, <2>4
<1> HIDE DEF rest
<1>5. \A i \in Jobs : Typed(i) /\ Typed(i)' /\ Acked(i) \in Nat /\ Acked(i)' \in Nat
  BY AllTyped, AllTypedNext DEF Typed
<1>6. \A i \in Jobs \ {j} : Acked(i)' = Acked(i)
  BY <1>4, <1>5
<1>7. CASE FindActive(j)
  <2> DEFINE job == OnStreamConsumed(jobs[j], bytes)
  <2>1. /\ Apply(j, job) /\ ~jobs[j].finished
        /\ IF Resumes(jobs[j], bytes) THEN xfer' = [xfer EXCEPT ![j].paused = FALSE]
                                      ELSE UNCHANGED xfer
    BY <1>3, <1>7 DEF FindActive
  <2>2. Carries(job, jobs[j], j)
    BY <1>2, CurrentCarries, ConsumedCarries
  <2>3. /\ xfer'[j].state = xfer[j].state /\ xfer'[j].status = xfer[j].status
        /\ xfer'[j].paused = IF Resumes(jobs[j], bytes) THEN FALSE ELSE xfer[j].paused
        /\ \A i \in Jobs \ {j} : xfer'[i] = xfer[i]
    <3>1. xfer \in [Jobs -> Transfers] /\ xfer[j] \in Transfers
      BY <1>2 DEF InductiveInvariant, TypeOK, WorkerTypeOK
    <3>2. CASE Resumes(jobs[j], bytes)
      <4>1. xfer' = [xfer EXCEPT ![j].paused = FALSE]
        BY <2>1, <3>2
      <4> QED
        BY <1>2, <3>1, <3>2, <4>1 DEF Transfers
    <3>3. CASE ~Resumes(jobs[j], bytes)
      <4>1. xfer' = xfer
        BY <2>1, <3>3
      <4> QED
        BY <3>3, <4>1
    <3> QED
      BY <3>2, <3>3
  <2>4. Acked(j) = bytes + Acked(j)'
    BY <1>4
  <2>5. Accounted(job, xfer'[j], Listening(j), DataBytes(InFlight, j), Acked(j)', Passed(j),
                  HeadersGiven(j))
    <3>1. Going(jobs[j], xfer[j], Listening(j), DataBytes(InFlight, j), Acked(j),
                Passed(j), HeadersGiven(j))
      BY <1>2, <2>1, CurrentGoing
    <3> QED
      BY <1>2, <1>5, <2>3, <2>4, <3>1, OnStreamConsumedAccounts
  <2> HIDE DEF job
  <2> QED
    BY <1>2, <1>3, <1>6, <2>1, <2>2, <2>3, <2>5, JobStepFlow DEF Carries
<1>8. CASE ~FindActive(j)
  <2>1. UNCHANGED <<jobs, xfer, queueVars, mainVars>>
    BY <1>3, <1>8
  <2>2. xfer[j].state = "none" /\ ~jobs[j].attached
    BY <1>2, <1>8 DEF FindActive, InductiveInvariant, JobsInvariant, JobPlaced, JobInvariant
  <2>3. Acked(j)' <= Acked(j)
    BY <1>4, <1>5
  <2>4. \A i \in Jobs : \/ Acked(i)' = Acked(i)
                        \/ /\ Acked(i)' <= Acked(i)
                           /\ xfer'[i].state = "none" /\ ~jobs[i].attached
    BY <1>6, <2>1, <2>2, <2>3
  <2> QED
    BY <2>1, <2>4, SameTransfer, WorkerKeepsFlow
<1> QED
  BY <1>7, <1>8

LEMMA RemoveFinishedFlow ==
  ASSUME InductiveInvariant, InductiveInvariant', FlowInvariant, WorkerStep(RemoveFinished)
  PROVE  FlowInvariant'
<1>1. /\ jobs' = [j \in Jobs |-> IF j \in active \ active' THEN DestroyedJob(j) ELSE jobs[j]]
      /\ \A j \in active \ active' : jobs[j].finished
      /\ UNCHANGED <<xfer, queueVars, mainVars, consumeRequests, taken>>
  BY DEF WorkerStep, RemoveFinished, mailbox
<1>2. \A j \in Jobs : jobs[j].finished => ~xfer[j].paused
  <2>1. \A j \in Jobs : jobs[j].finished => xfer[j].state = "none"
    BY DEF InductiveInvariant, JobsInvariant, JobPlaced, JobInvariant
  <2> QED
    BY <2>1 DEF FlowInvariant, Balanced
<1>3. \A j \in Jobs : DestroyedJob(j).finished /\ DestroyedJob(j).streamBuffer = 0
  BY DEF DestroyedJob, FreshJob
<1>4. \A j \in Jobs : \/ jobs'[j] = jobs[j] /\ KeptTransfer(xfer'[j], xfer[j])
                      \/ jobs'[j].finished /\ jobs'[j].streamBuffer = 0 /\ ~xfer'[j].paused
  BY <1>1, <1>2, <1>3 DEF KeptTransfer
<1>5. \A j \in Jobs : Acked(j)' = Acked(j)
  BY <1>1, KeptAcks
<1> QED
  BY <1>1, <1>4, <1>5, WorkerKeepsFlow

\* What a callback of curl finds.
LEMMA CurlStepFlow ==
  ASSUME InductiveInvariant, OrderInvariant, Delivery, FlowInvariant, NEW j \in Jobs,
         xfer[j].state # "none"
  PROVE  /\ Carries(jobs[j], jobs[j], j) /\ ~jobs[j].finished /\ jobs[j].id = j
         /\ xfer \in [Jobs -> Transfers] /\ xfer[j].status \in Nat
         /\ Going(jobs[j], xfer[j], Listening(j), DataBytes(InFlight, j), Acked(j),
                  Passed(j), HeadersGiven(j))
<1>1. Carries(jobs[j], jobs[j], j) /\ ~jobs[j].finished
  BY TransferCarries
<1>2. xfer \in [Jobs -> Transfers]
  BY DEF InductiveInvariant, TypeOK, WorkerTypeOK
<1> QED
  BY <1>1, <1>2, CurrentGoing, TransferFields

LEMMA CurlHeadersFlow ==
  ASSUME InductiveInvariant, InductiveInvariant', OrderInvariant, Delivery, FlowInvariant,
         NEW j \in Jobs, NEW status \in Statuses, WorkerStep(CurlHeaders(j, status))
  PROVE  FlowInvariant'
<1>1. PICK redirected \in BOOLEAN :
        /\ Apply(j, OnHeaderBlock(jobs[j], status, redirected))
        /\ xfer' = [xfer EXCEPT ![j].status = status,
                                ![j].state = IF status < 200 \/ redirected
                                             THEN "open" ELSE "body"]
  BY DEF WorkerStep, CurlHeaders
<1>2. /\ Posted /\ UNCHANGED mainVars /\ xfer[j].state = "open" /\ status \in Nat
      /\ UNCHANGED consumeRequests /\ UNCHANGED taken
  BY TransferThreadAssumption DEF WorkerStep, CurlHeaders, Receiving, mailbox
<1> DEFINE job == OnHeaderBlock(jobs[j], status, redirected)
<1>3. Carries(job, jobs[j], j)
  <2>1. Carries(jobs[j], jobs[j], j) /\ (j \in HeaderJobs => jobs[j].streamBuffer = 0)
    BY <1>2, TransferCarries DEF Delivery, HeadersInvariant, HeadersFirst
  <2> QED
    BY <1>2, <2>1, OnHeaderBlockCarries
<1>4. /\ xfer'[j].paused = xfer[j].paused
      /\ xfer'[j].state = IF status < 200 \/ redirected THEN "open" ELSE "body"
      /\ \A i \in Jobs \ {j} : xfer'[i] = xfer[i]
  <2>1. xfer \in [Jobs -> Transfers] /\ xfer[j] \in Transfers
    BY DEF InductiveInvariant, TypeOK, WorkerTypeOK
  <2> QED
    BY <1>1, <2>1 DEF Transfers
<1>5. Accounted(job, xfer'[j], Listening(j), DataBytes(InFlight, j), Acked(j), Passed(j),
                HeadersGiven(j))
  BY <1>2, <1>4, CurlStepFlow, OnHeaderBlockAccounts
<1>6. Apply(j, job)
  BY <1>1
<1>7. \A i \in Jobs : Acked(i)' = Acked(i)
  BY <1>2, KeptAcks
<1> HIDE DEF job
<1> QED
  BY <1>2, <1>3, <1>4, <1>5, <1>6, <1>7, CurlStepFlow, JobStepFlow DEF Carries

\* Trailers of a stream whose headers were reported report nothing.
LEMMA CurlTrailersFlow ==
  ASSUME InductiveInvariant, InductiveInvariant', OrderInvariant, Delivery, FlowInvariant,
         NEW j \in Jobs, WorkerStep(CurlTrailers(j))
  PROVE  FlowInvariant'
<1> DEFINE job == OnHeadersComplete(jobs[j], xfer[j].status, FALSE)
<1>1. /\ Apply(j, job) /\ Posted /\ UNCHANGED mainVars /\ xfer[j].state = "body"
      /\ UNCHANGED xfer /\ UNCHANGED consumeRequests /\ UNCHANGED taken
  BY DEF WorkerStep, CurlTrailers, Receiving, mailbox
<1>2. Carries(jobs[j], jobs[j], j) /\ ~jobs[j].finished /\ (j \in HeaderJobs => jobs[j].headersPosted)
  BY <1>1, TransferCarries DEF Delivery, HeadersInvariant, HeadersFirst
<1>3. job = jobs[j]
  BY <1>2 DEF OnHeadersComplete, Carries
<1>4. jobs[j].out = <<>>
  BY DEF OrderInvariant
<1>5. Accounted(jobs[j], xfer[j], Listening(j), DataBytes(InFlight, j), Acked(j), Passed(j),
                HeadersGiven(j))
  BY <1>1, <1>4, CurlStepFlow, IdleAccounts
<1>6. \A i \in Jobs : Acked(i)' = Acked(i)
  BY <1>1, KeptAcks
<1> HIDE DEF job
<1> QED
  BY <1>1, <1>2, <1>3, <1>5, <1>6, JobStepFlow DEF Carries

\* What was written is not the stream's.
LEMMA CurlWriteFlow ==
  ASSUME InductiveInvariant, InductiveInvariant', OrderInvariant, Delivery, FlowInvariant,
         NEW j \in Jobs, NEW total \in 1..MaxWrite, WorkerStep(CurlWrite(j, total))
  PROVE  FlowInvariant'
<1>1. /\ Posted /\ UNCHANGED mainVars /\ xfer[j].state = "body"
      /\ UNCHANGED consumeRequests /\ UNCHANGED taken /\ total \in Nat
  BY TransferThreadAssumption DEF WorkerStep, CurlWrite, Receiving, mailbox
<1>2. \A i \in Jobs : Acked(i)' = Acked(i)
  BY <1>1, KeptAcks
<1>3. /\ xfer \in [Jobs -> Transfers] /\ xfer[j] \in Transfers
      /\ Carries(jobs[j], jobs[j], j) /\ ~jobs[j].finished
      /\ Going(jobs[j], xfer[j], Listening(j), DataBytes(InFlight, j), Acked(j),
               Passed(j), HeadersGiven(j))
  BY <1>1, CurlStepFlow
<1>4. ASSUME xfer' = [xfer EXCEPT ![j].state = "done", ![j].code = "WRITE_ERROR"]
               \/ UNCHANGED xfer
      PROVE  /\ xfer'[j].state \in {"body", "done"} /\ xfer'[j].paused = xfer[j].paused
             /\ xfer'[j].status = xfer[j].status
             /\ \A i \in Jobs \ {j} : xfer'[i] = xfer[i]
  BY <1>1, <1>3, <1>4 DEF Transfers
<1>5. CASE /\ SinkFor(jobs[j], xfer[j].status) = "Memory"
           /\ Apply(j, WriteMemory(jobs[j], total))
           /\ xfer' = [xfer EXCEPT ![j].state = "done", ![j].code = "WRITE_ERROR"]
                \/ UNCHANGED xfer
  <2> DEFINE job == WriteMemory(jobs[j], total)
  <2>1. Accounted(job, xfer'[j], Listening(j), DataBytes(InFlight, j), Acked(j), Passed(j),
                  HeadersGiven(j))
    BY <1>1, <1>3, <1>4, <1>5, WriteMemoryAccounts
  <2>2. Carries(job, jobs[j], j)
    BY <1>1, <1>3, WriteMemoryCarries
  <2>3. Apply(j, job)
    BY <1>5
  <2> HIDE DEF job
  <2> QED
    BY <1>1, <1>2, <1>3, <1>4, <1>5, <2>1, <2>2, <2>3, JobStepFlow DEF Carries
<1>6. ASSUME NEW written \in 0..total, SinkFor(jobs[j], xfer[j].status) = "File",
             Apply(j, WriteFile(jobs[j], written)),
             xfer' = [xfer EXCEPT ![j].state = "done", ![j].code = "WRITE_ERROR"]
               \/ UNCHANGED xfer
      PROVE  FlowInvariant'
  <2> DEFINE job == WriteFile(jobs[j], written)
  <2>1. written \in Nat /\ j \in FileJobs
    BY <1>1, <1>3, <1>6 DEF SinkFor, Carries
  <2>2. Accounted(job, xfer'[j], Listening(j), DataBytes(InFlight, j), Acked(j), Passed(j),
                  HeadersGiven(j))
    BY <1>1, <1>3, <1>4, <1>6, <2>1, WriteFileAccounts
  <2>3. Carries(job, jobs[j], j)
    BY <1>3, <2>1, WriteFileCarries
  <2>4. Apply(j, job)
    BY <1>6
  <2> HIDE DEF job
  <2> QED
    BY <1>1, <1>2, <1>3, <1>4, <1>6, <2>2, <2>3, <2>4, JobStepFlow DEF Carries
<1> QED
  BY <1>5, <1>6 DEF WorkerStep, CurlWrite

LEMMA CurlWriteStreamFlow ==
  ASSUME InductiveInvariant, InductiveInvariant', OrderInvariant, Delivery, FlowInvariant,
         NEW j \in Jobs, NEW total \in 1..MaxWrite, WorkerStep(CurlWriteStream(j, total))
  PROVE  FlowInvariant'
<1> DEFINE job == WriteStream(jobs[j], total)
<1>1. /\ Posted /\ UNCHANGED mainVars /\ xfer[j].state = "body"
      /\ UNCHANGED consumeRequests /\ UNCHANGED taken /\ total \in Nat /\ total <= MaxWrite
      /\ SinkFor(jobs[j], xfer[j].status) = "Stream"
      /\ Apply(j, job) /\ xfer' = [xfer EXCEPT ![j].paused = job.paused]
  BY TransferThreadAssumption DEF WorkerStep, CurlWriteStream, Receiving, mailbox
<1>2. /\ xfer \in [Jobs -> Transfers] /\ xfer[j] \in Transfers
      /\ Carries(jobs[j], jobs[j], j) /\ ~jobs[j].finished
      /\ Going(jobs[j], xfer[j], Listening(j), DataBytes(InFlight, j), Acked(j),
               Passed(j), HeadersGiven(j))
  BY <1>1, CurlStepFlow
<1>3. Carries(job, jobs[j], j)
  <2>1. j \in StreamJobs /\ (j \in HeaderJobs => jobs[j].headersPosted)
    BY <1>1, <1>2 DEF SinkFor, Carries, Delivery, HeadersInvariant, HeadersFirst
  <2> QED
    BY <1>1, <1>2, <2>1, WriteStreamCarries
<1>4. /\ xfer'[j].state = xfer[j].state /\ xfer'[j].status = xfer[j].status
      /\ xfer'[j].paused = job.paused
      /\ \A i \in Jobs \ {j} : xfer'[i] = xfer[i]
  <2> HIDE DEF job
  <2> QED
    BY <1>1, <1>2 DEF Transfers
<1>5. Accounted(job, xfer'[j], Listening(j), DataBytes(InFlight, j), Acked(j), Passed(j),
                HeadersGiven(j))
  BY <1>1, <1>2, <1>4, WriteStreamAccounts
<1>6. \A i \in Jobs : Acked(i)' = Acked(i)
  BY <1>1, KeptAcks
<1> HIDE DEF job
<1> QED
  BY <1>1, <1>2, <1>3, <1>4, <1>5, <1>6, JobStepFlow DEF Carries

LEMMA CurlProgressFlow ==
  ASSUME InductiveInvariant, InductiveInvariant', OrderInvariant, Delivery, FlowInvariant,
         NEW j \in Jobs, WorkerStep(CurlProgress(j))
  PROVE  FlowInvariant'
<1> DEFINE job == PostProgress(jobs[j])
<1>1. /\ Posted /\ UNCHANGED mainVars /\ xfer[j].state # "none"
      /\ UNCHANGED consumeRequests /\ UNCHANGED taken
  BY DEF WorkerStep, CurlProgress, mailbox
<1>2. /\ xfer \in [Jobs -> Transfers] /\ xfer[j] \in Transfers
      /\ Carries(jobs[j], jobs[j], j) /\ ~jobs[j].finished
      /\ Going(jobs[j], xfer[j], Listening(j), DataBytes(InFlight, j), Acked(j),
               Passed(j), HeadersGiven(j))
  BY <1>1, CurlStepFlow
<1>3. ~jobs[j].cancelRequested
  BY <1>2 DEF InductiveInvariant, JobsInvariant, JobPlaced, JobInvariant
<1>4. xfer' = [xfer EXCEPT ![j].progress = @ + 1] /\ Apply(j, job)
  BY <1>3 DEF WorkerStep, CurlProgress
<1>5. /\ xfer'[j].state = xfer[j].state /\ xfer'[j].status = xfer[j].status
      /\ xfer'[j].paused = xfer[j].paused
      /\ \A i \in Jobs \ {j} : xfer'[i] = xfer[i]
  BY <1>2, <1>4 DEF Transfers
<1>6. Carries(job, jobs[j], j)
  BY <1>2, ProgressCarries
<1>7. Accounted(job, xfer'[j], Listening(j), DataBytes(InFlight, j), Acked(j), Passed(j),
                HeadersGiven(j))
  BY <1>1, <1>2, <1>5, PostProgressAccounts
<1>8. \A i \in Jobs : Acked(i)' = Acked(i)
  BY <1>1, KeptAcks
<1> HIDE DEF job
<1> QED
  BY <1>1, <1>2, <1>4, <1>5, <1>6, <1>7, <1>8, JobStepFlow DEF Carries

LEMMA CurlDoneFlow ==
  ASSUME InductiveInvariant, InductiveInvariant', FlowInvariant,
         NEW j \in Jobs, WorkerStep(CurlDone(j))
  PROVE  FlowInvariant'
<1>1. /\ UNCHANGED <<jobs, queueVars, mainVars, consumeRequests, taken>>
      /\ xfer[j].state # "none"
      /\ \E code \in CurlCode : xfer' = [xfer EXCEPT ![j].state = "done", ![j].code = code]
  BY TransferThreadAssumption DEF WorkerStep, CurlDone, mailbox, CurlCode
<1>2. \A i \in Jobs : KeptTransfer(xfer'[i], xfer[i])
  <2>1. xfer \in [Jobs -> Transfers] /\ xfer[j] \in Transfers
    BY DEF InductiveInvariant, TypeOK, WorkerTypeOK
  <2> QED
    BY <1>1, <2>1 DEF KeptTransfer, Transfers
<1> QED
  BY <1>1, <1>2, KeptAcks, SilentStepFlow

----------------------------------------------------------------------------
(* Events on their way *)

\* What is under way for job j, as a function of the events.
LEMMA SameEvents ==
  ASSUME NEW j, NEW S, NEW T, InFlight' = S, Undelivered' = T
  PROVE  /\ DataBytes(InFlight, j)' = DataBytes(S, j)
         /\ DataBytes(Undelivered, j)' = DataBytes(T, j)
         /\ HeadersIn(Undelivered, j)' = HeadersIn(T, j)
BY DEF DataBytes, HeadersIn, SumOf, IsOf

\* A step that neither runs a method of a job nor touches its transfer.
LEMMA MainStepFlow ==
  ASSUME InductiveInvariant, InductiveInvariant', FlowInvariant, UNCHANGED <<jobs, xfer>>,
         \A j \in Jobs :
           /\ DataBytes(InFlight, j)' <= DataBytes(InFlight, j)
           /\ DataBytes(InFlight, j)' + Acked(j)' <= DataBytes(InFlight, j) + Acked(j)
           /\ Passed(j)' <= Passed(j) /\ HeadersGiven(j)' <= HeadersGiven(j)
           /\ Listening(j)' => \/ /\ Listening(j)
                                  /\ DataBytes(InFlight, j)' + Acked(j)' =
                                       DataBytes(InFlight, j) + Acked(j)
                                  /\ Passed(j)' = Passed(j)
                               \/ xfer'[j].state = "none" /\ ~jobs[j].attached
           /\ Streamed(j) => WholeTold(j)'
  PROVE  FlowInvariant'
<1> SUFFICES ASSUME NEW j \in Jobs PROVE JobFlow(j)'
  BY FlowOfJobs
<1>1. JobFlow(j) /\ Typed(j) /\ Typed(j)'
  BY FlowOfJobs, AllTyped, AllTypedNext
<1>2. jobs'[j] = jobs[j] /\ KeptTransfer(xfer'[j], xfer[j])
  BY DEF KeptTransfer
<1> QED
  BY <1>1, <1>2, KeptFlow

\* Nothing moves; jobs that were not sent before may be listened to now.
LEMMA StillFlow ==
  ASSUME InductiveInvariant, InductiveInvariant', OrderInvariant, FlowInvariant,
         UNCHANGED <<jobs, xfer, consumeRequests, taken>>,
         InFlight' = InFlight, Undelivered' = Undelivered,
         \A j \in Jobs : Listening(j)' => Listening(j) \/ j >= nextJobId,
         \A j \in Jobs :
           /\ log'[j].headersHandled = log[j].headersHandled /\ log'[j].bytesHandled = log[j].bytesHandled
           /\ log'[j].outcome = "Ok" => log[j].outcome = "Ok" /\ log'[j].length = log[j].length
  PROVE  FlowInvariant'
<1>1. ASSUME NEW j \in Jobs
      PROVE  /\ DataBytes(InFlight, j)' = DataBytes(InFlight, j) /\ Acked(j)' = Acked(j)
             /\ Passed(j)' = Passed(j) /\ HeadersGiven(j)' = HeadersGiven(j)
  BY SameEvents, KeptAcks DEF Passed, HeadersGiven
<1>2. \A j \in Jobs : /\ DataBytes(InFlight, j) \in Nat /\ Acked(j) \in Nat
                      /\ Passed(j) \in Nat /\ HeadersGiven(j) \in Nat
  BY AllTyped DEF Typed
<1>3. ASSUME NEW j \in Jobs, j >= nextJobId
      PROVE  xfer[j].state = "none" /\ ~jobs[j].attached /\ ~jobs[j].finished
  BY <1>3 DEF InductiveInvariant, JobsInvariant, JobPlaced
<1>4. ASSUME NEW j \in Jobs, Streamed(j) PROVE WholeTold(j)'
  <2>1. WholeTold(j)
    BY <1>4 DEF FlowInvariant
  <2>2. CASE Listening(j)' => Listening(j)
    BY <1>1, <2>1, <2>2, KeptWhole
  <2>3. CASE j >= nextJobId
    <3>1. \A i \in DOMAIN Undelivered' : ~IsOf(Undelivered'[i], j, "Complete")
      BY <1>3, <2>3, NoOldComplete
    <3> QED
      BY <2>1, <3>1 DEF WholeTold, IsOf
  <2> QED
    BY <2>2, <2>3
<1>5. \A j \in Jobs :
        /\ DataBytes(InFlight, j)' <= DataBytes(InFlight, j)
        /\ DataBytes(InFlight, j)' + Acked(j)' <= DataBytes(InFlight, j) + Acked(j)
        /\ Passed(j)' <= Passed(j) /\ HeadersGiven(j)' <= HeadersGiven(j)
  BY <1>1, <1>2
<1>6. \A j \in Jobs :
        Listening(j)' => \/ /\ Listening(j)
                            /\ DataBytes(InFlight, j)' + Acked(j)' =
                                 DataBytes(InFlight, j) + Acked(j)
                            /\ Passed(j)' = Passed(j)
                         \/ xfer'[j].state = "none" /\ ~jobs[j].attached
  BY <1>1, <1>3
<1> QED
  BY <1>4, <1>5, <1>6, MainStepFlow

\* The sequence without its head.
LEMMA TailOfEvents ==
  ASSUME NEW U \in Seq(TransferEvent), U # <<>>
  PROVE  /\ 1 \in DOMAIN U /\ U[1] = Head(U) /\ Tail(U) \in Seq(TransferEvent)
         /\ \A i \in DOMAIN Tail(U) :
              i + 1 \in DOMAIN U /\ 1 < i + 1 /\ Tail(U)[i] = U[i + 1]
<1>1. /\ Len(U) \in Nat \ {0} /\ DOMAIN U = 1..Len(U)
      /\ DOMAIN Tail(U) = 1..(Len(U) - 1) /\ Tail(U) \in Seq(TransferEvent)
      /\ \A i \in 1..(Len(U) - 1) : Tail(U)[i] = U[i + 1]
  BY EmptySeq, HeadTailProperties, LenProperties
<1> QED
  BY <1>1

\* The event that the main thread comes to next, or whose callback it runs.
LEMMA NextAdds ==
  ASSUME InductiveInvariant, batch # <<>>, NEW j \in Jobs
  PROVE  /\ NextEvent \in TransferEvent /\ InFlight[1] = NextEvent
         /\ InFlight \in Seq(TransferEvent) /\ InFlight # <<>>
         /\ Tail(InFlight) \in Seq(TransferEvent)
         /\ DataBytes(Tail(InFlight), j) \in Nat /\ HeadersIn(Tail(InFlight), j) \in Nat
         /\ DataBytes(InFlight, j) =
              (IF IsOf(NextEvent, j, "Data") THEN NextEvent.n ELSE 0)
                + DataBytes(Tail(InFlight), j)
         /\ HeadersIn(InFlight, j) =
              (IF IsOf(NextEvent, j, "Headers") THEN 1 ELSE 0) + HeadersIn(Tail(InFlight), j)
<1>1. /\ InFlight \in Seq(TransferEvent) /\ InFlight # <<>> /\ InFlight[1] = NextEvent
      /\ NextEvent \in TransferEvent
  BY InFlightType, OldestInFlight
<1>2. Head(InFlight) = NextEvent
  BY <1>1, TailOfEvents
<1> QED
  BY <1>1, <1>2, FirstEventAdds

\* Where the events are once the main thread has taken the next one, and before.
LEMMA NextTaken ==
  ASSUME InductiveInvariant, batch # <<>>, UNCHANGED <<events, outbox>>
  PROVE  /\ mpc = "batch" => Undelivered = InFlight
         /\ mpc = "callback" => Undelivered = Tail(InFlight)
         /\ mpc' = "batch" /\ batch' = Tail(batch) =>
              InFlight' = Tail(InFlight) /\ Undelivered' = Tail(InFlight)
         /\ mpc' = "callback" /\ batch' = batch =>
              InFlight' = InFlight /\ Undelivered' = Tail(InFlight)
<1>1. Tail(batch) \o events \o outbox = Tail(InFlight)
  BY OldestInFlight
<1>2. ASSUME mpc' = "batch", batch' = Tail(batch)
      PROVE  InFlight' = Tail(InFlight) /\ Undelivered' = Tail(InFlight)
  BY <1>1, <1>2 DEF InFlight, Undelivered
<1>3. ASSUME mpc' = "callback", batch' = batch
      PROVE  InFlight' = InFlight /\ Undelivered' = Tail(InFlight)
  BY <1>3 DEF InFlight, Undelivered
<1> QED
  BY <1>2, <1>3 DEF Undelivered

\* The results on their way are those that were, or all but the first.
LEMMA TailWhole ==
  ASSUME NEW j \in Jobs, WholeTold(j),
         Undelivered \in Seq(TransferEvent), Undelivered # <<>>,
         Undelivered' = Tail(Undelivered),
         Listening(j)' => Listening(j) /\ Passed(j)' = Passed(j),
         log'[j].outcome = "Ok" =>
           /\ log[j].outcome = "Ok"
           /\ log'[j].bytesHandled = log[j].bytesHandled /\ log'[j].length = log[j].length
  PROVE  WholeTold(j)'
<1>1. \A k \in DOMAIN Undelivered' :
        \E i \in DOMAIN Undelivered : Undelivered[i] = Undelivered'[k]
  BY TailOfEvents
<1> QED
  BY <1>1, KeptWhole

LEMMA OutboxTail ==
  ASSUME NEW j, NEW seq \in Seq(TransferEvent), seq # <<>>
  PROVE  /\ DataBytes(Tail(seq), j) <= DataBytes(seq, j)
         /\ HeadersIn(Tail(seq), j) <= HeadersIn(seq, j)
         /\ DataBytes(Tail(seq), j) \in Nat /\ DataBytes(seq, j) \in Nat
         /\ HeadersIn(Tail(seq), j) \in Nat /\ HeadersIn(seq, j) \in Nat
<1>1. Head(seq) \in TransferEvent
  BY HeadTailProperties
<1>2. Head(seq).n \in Nat
  BY <1>1 DEF TransferEvent
<1>3. /\ DataBytes(Tail(seq), j) \in Nat /\ DataBytes(seq, j) \in Nat
      /\ HeadersIn(Tail(seq), j) \in Nat /\ HeadersIn(seq, j) \in Nat
      /\ DataBytes(seq, j) =
           (IF IsOf(Head(seq), j, "Data") THEN Head(seq).n ELSE 0) + DataBytes(Tail(seq), j)
      /\ HeadersIn(seq, j) =
           (IF IsOf(Head(seq), j, "Headers") THEN 1 ELSE 0) + HeadersIn(Tail(seq), j)
  BY FirstEventAdds, EventsAdd
<1> QED
  BY <1>2, <1>3

\* Nobody listens, and less is under way; jobs may be destroyed.
LEMMA UnheardFlow ==
  ASSUME InductiveInvariant, InductiveInvariant', FlowInvariant, ~enabled',
         \A j \in Jobs : \/ jobs'[j] = jobs[j] /\ KeptTransfer(xfer'[j], xfer[j])
                         \/ jobs'[j].finished /\ jobs'[j].streamBuffer = 0 /\ ~xfer'[j].paused,
         \A j \in Jobs :
           /\ DataBytes(InFlight, j)' <= DataBytes(InFlight, j) /\ Acked(j)' = Acked(j)
           /\ DataBytes(Undelivered, j)' <= DataBytes(Undelivered, j)
           /\ HeadersIn(Undelivered, j)' <= HeadersIn(Undelivered, j),
         \A j \in Jobs :
           /\ log'[j].headersHandled = log[j].headersHandled /\ log'[j].bytesHandled = log[j].bytesHandled
           /\ log'[j].outcome = "Ok" => log[j].outcome = "Ok" /\ log'[j].length = log[j].length
  PROVE  FlowInvariant'
<1> SUFFICES ASSUME NEW j \in Jobs PROVE JobFlow(j)'
  BY FlowOfJobs
<1>1. JobFlow(j) /\ Typed(j) /\ Typed(j)'
  BY FlowOfJobs, AllTyped, AllTypedNext
<1>2. /\ DataBytes(InFlight, j) \in Nat /\ DataBytes(InFlight, j)' \in Nat
      /\ DataBytes(Undelivered, j) \in Nat /\ DataBytes(Undelivered, j)' \in Nat
      /\ HeadersIn(Undelivered, j) \in Nat /\ HeadersIn(Undelivered, j)' \in Nat
      /\ log[j].bytesHandled \in Nat /\ log[j].headersHandled \in Nat /\ Acked(j) \in Nat
  BY <1>1 DEF Typed
<1>3. Passed(j)' <= Passed(j) /\ HeadersGiven(j)' <= HeadersGiven(j)
  BY <1>2 DEF Passed, HeadersGiven
<1>4. DataBytes(InFlight, j)' + Acked(j)' <= DataBytes(InFlight, j) + Acked(j)
  BY <1>2
<1>5. ~Listening(j)'
  BY DEF Listening
<1>6. Streamed(j) => WholeTold(j)'
  BY <1>1, <1>5, KeptWhole DEF JobFlow
<1> QED
  BY <1>1, <1>3, <1>4, <1>5, <1>6, KeptFlow

\* The worker moves an event into the queue, or finds that disabled.
LEMMA PostFlow ==
  ASSUME InductiveInvariant, InductiveInvariant', OrderInvariant, FlowInvariant,
         WorkerStep((PostCheck \/ PostPush) /\ UNCHANGED workerVars)
  PROVE  FlowInvariant'
<1>1. /\ UNCHANGED <<jobs, xfer, consumeRequests, taken, batch, mpc, records, log, nextJobId>>
      /\ UNCHANGED enabled
  BY DEF WorkerStep, workerVars, mainVars, PostCheck, PostPush
<1>2. CASE enabled \/ PostPush
  <2>1. InFlight' = InFlight
    <3>1. CASE PostPush
      BY <3>1, InFlightPushed DEF WorkerStep
    <3>2. CASE PostCheck /\ enabled
      BY <1>1, <3>2 DEF PostCheck, InFlight
    <3> QED
      BY <1>2, <3>1, <3>2 DEF WorkerStep
  <2>2. Undelivered' = Undelivered
    BY <1>1, <2>1 DEF Undelivered
  <2>3. \A j \in Jobs : Listening(j)' => Listening(j)
    BY <1>1 DEF Listening, Found
  <2> QED
    BY <1>1, <2>1, <2>2, <2>3, StillFlow
<1>3. CASE ~enabled /\ ~PostPush
  <2>1. outbox # <<>> /\ outbox' = Tail(outbox) /\ UNCHANGED events
    BY <1>3 DEF WorkerStep, PostCheck, Posted
  <2> DEFINE before == batch \o events
             rest   == Tail(outbox)
  <2>2. /\ batch \in Seq(TransferEvent) /\ events \in Seq(TransferEvent)
        /\ outbox \in Seq(TransferEvent) /\ before \in Seq(TransferEvent)
        /\ rest \in Seq(TransferEvent)
    BY <2>1, InFlightType, ConcatProperties, HeadTailProperties
  <2>3. InFlight = before \o outbox /\ InFlight' = before \o rest
    BY <1>1, <2>1 DEF InFlight
  <2>4. ASSUME mpc = "callback"
        PROVE  Undelivered = Tail(before) \o outbox /\ Undelivered' = Tail(before) \o rest
               /\ Tail(before) \in Seq(TransferEvent)
    <3>1. before # <<>>
      <4>1. batch # <<>>
        BY <2>4 DEF InductiveInvariant, MainInvariant
      <4>2. Len(before) = Len(batch) + Len(events) /\ Len(events) \in Nat /\ Len(batch) \in Nat
            /\ Len(batch) # 0
        BY <2>2, <4>1, ConcatProperties, LenProperties, EmptySeq
      <4>3. Len(before) # 0
        BY <4>2
      <4> QED
        BY <2>2, <4>3, EmptySeq
    <3> HIDE DEF before, rest
    <3> QED
      BY <1>1, <2>2, <2>3, <2>4, <3>1, TailOfPosts, HeadTailProperties DEF Undelivered
  <2>5. ASSUME mpc # "callback"
        PROVE  Undelivered = before \o outbox /\ Undelivered' = before \o rest
    BY <1>1, <2>3, <2>5 DEF Undelivered
  <2> HIDE DEF before, rest
  <2>6. ASSUME NEW j \in Jobs, NEW left \in Seq(TransferEvent),
               Undelivered = left \o outbox, Undelivered' = left \o rest
        PROVE  /\ DataBytes(Undelivered, j)' <= DataBytes(Undelivered, j)
               /\ HeadersIn(Undelivered, j)' <= HeadersIn(Undelivered, j)
    <3>1. /\ DataBytes(Undelivered, j)' = DataBytes(left \o rest, j)
          /\ HeadersIn(Undelivered, j)' = HeadersIn(left \o rest, j)
      BY <2>6 DEF DataBytes, HeadersIn, SumOf, IsOf
    <3>2. /\ DataBytes(rest, j) <= DataBytes(outbox, j)
          /\ HeadersIn(rest, j) <= HeadersIn(outbox, j)
          /\ DataBytes(rest, j) \in Nat /\ DataBytes(outbox, j) \in Nat
          /\ HeadersIn(rest, j) \in Nat /\ HeadersIn(outbox, j) \in Nat
      BY <2>1, <2>2, OutboxTail DEF rest
    <3>3. /\ DataBytes(left \o rest, j) = DataBytes(left, j) + DataBytes(rest, j)
          /\ DataBytes(left \o outbox, j) = DataBytes(left, j) + DataBytes(outbox, j)
          /\ HeadersIn(left \o rest, j) = HeadersIn(left, j) + HeadersIn(rest, j)
          /\ HeadersIn(left \o outbox, j) = HeadersIn(left, j) + HeadersIn(outbox, j)
          /\ DataBytes(left, j) \in Nat /\ HeadersIn(left, j) \in Nat
      BY <2>2, <2>6, EventsAdd
    <3> QED
      BY <2>6, <3>1, <3>2, <3>3
  <2>7. ASSUME NEW j \in Jobs
        PROVE  /\ DataBytes(Undelivered, j)' <= DataBytes(Undelivered, j)
               /\ HeadersIn(Undelivered, j)' <= HeadersIn(Undelivered, j)
    <3>1. PICK left \in Seq(TransferEvent) :
            Undelivered = left \o outbox /\ Undelivered' = left \o rest
      <4>1. CASE mpc = "callback"
        BY <2>4, <4>1
      <4>2. CASE mpc # "callback"
        BY <2>2, <2>5, <4>2
      <4> QED
        BY <4>1, <4>2
    <3> QED
      BY <2>6, <3>1
  <2>8. ASSUME NEW j \in Jobs
        PROVE  DataBytes(InFlight, j)' <= DataBytes(InFlight, j)
    <3>1. DataBytes(InFlight, j)' = DataBytes(before \o rest, j)
      BY <2>3 DEF DataBytes, SumOf, IsOf
    <3>2. /\ DataBytes(rest, j) <= DataBytes(outbox, j)
          /\ DataBytes(rest, j) \in Nat /\ DataBytes(outbox, j) \in Nat
      BY <2>1, <2>2, OutboxTail DEF rest
    <3>3. /\ DataBytes(before \o rest, j) = DataBytes(before, j) + DataBytes(rest, j)
          /\ DataBytes(before \o outbox, j) = DataBytes(before, j) + DataBytes(outbox, j)
          /\ DataBytes(before, j) \in Nat
      BY <2>2, EventsAdd
    <3> QED
      BY <2>3, <3>1, <3>2, <3>3
  <2>9. /\ ~enabled' /\ (\A j \in Jobs : jobs'[j] = jobs[j] /\ KeptTransfer(xfer'[j], xfer[j]))
        /\ \A j \in Jobs : log'[j] = log[j]
    BY <1>1, <1>3, SameTransfer
  <2>10. \A j \in Jobs : Acked(j)' = Acked(j)
    BY <1>1, KeptAcks
  <2> QED
    BY <2>7, <2>8, <2>9, <2>10, UnheardFlow
<1> QED
  BY <1>2, <1>3

----------------------------------------------------------------------------
(* The steps of the main thread *)

\* A native only makes requests of the worker, and adds or drops records.
LEMMA NativeFlow ==
  ASSUME InductiveInvariant, InductiveInvariant', OrderInvariant, FlowInvariant,
         UNCHANGED unchangedByNatives,
         \A j \in Jobs : Found(j)' => Found(j) \/ j >= nextJobId,
         \A j \in Jobs :
           /\ log'[j].headersHandled = log[j].headersHandled /\ log'[j].bytesHandled = log[j].bytesHandled
           /\ log'[j].outcome = "Ok" => log[j].outcome = "Ok" /\ log'[j].length = log[j].length
  PROVE  FlowInvariant'
<1>1. UNCHANGED <<jobs, xfer, consumeRequests, taken, mpc, batch, events, outbox, enabled>>
  BY DEF unchangedByNatives, queueVars
<1>2. InFlight' = InFlight /\ Undelivered' = Undelivered
  BY <1>1 DEF InFlight, Undelivered
<1>3. \A j \in Jobs : Listening(j)' => Listening(j) \/ j >= nextJobId
  BY <1>1 DEF Listening
<1> QED
  BY <1>1, <1>2, <1>3, StillFlow

LEMMA NativesFlow ==
  ASSUME InductiveInvariant, InductiveInvariant', OrderInvariant, FlowInvariant, Natives
  PROVE  FlowInvariant'
<1>0. /\ log \in [Jobs -> Log] /\ \A j \in Jobs : log[j] \in Log
      /\ records \in [Jobs -> RecordState] /\ nextJobId \in Nat
  BY DEF InductiveInvariant, TypeOK, RecordTypeOK
<1>1. ASSUME SubmitJob PROVE FlowInvariant'
  <2>1. /\ UNCHANGED log /\ UNCHANGED unchangedByNatives
        /\ records' = [records EXCEPT ![nextJobId] = "idle"]
    BY <1>1 DEF SubmitJob
  <2>2. \A j \in Jobs : Found(j)' => Found(j) \/ j >= nextJobId
    BY <1>0, <2>1 DEF Found
  <2> QED
    BY <2>1, <2>2, NativeFlow
<1>2. ASSUME NEW S, Cancelled(S), UNCHANGED records, UNCHANGED unchangedByNatives
      PROVE  FlowInvariant'
  <2>1. \A j \in Jobs : /\ log'[j].headersHandled = log[j].headersHandled /\ log'[j].bytesHandled = log[j].bytesHandled
                        /\ log'[j].outcome = log[j].outcome /\ log'[j].length = log[j].length
    BY <1>0, <1>2 DEF Cancelled, Log
  <2> QED
    BY <1>2, <2>1, NativeFlow DEF Found
<1>3. ASSUME NEW S, \A j \in S : Found(j), DropJobs(S), UNCHANGED unchangedByNatives
      PROVE  FlowInvariant'
  <2>1. \A j \in Jobs : log'[j] = log[j] \/ log'[j] = [log[j] EXCEPT !.outcome = "dropped"]
    BY <1>3 DEF DropJobs
  <2>2. \A j \in Jobs :
          /\ log'[j].headersHandled = log[j].headersHandled /\ log'[j].bytesHandled = log[j].bytesHandled
          /\ log'[j].outcome = "Ok" => log[j].outcome = "Ok" /\ log'[j].length = log[j].length
    BY <1>0, <2>1 DEF Log
  <2>3. \A j \in Jobs : Found(j)' => Found(j)
    BY <1>3 DEF DropJobs, Found
  <2> QED
    BY <1>3, <2>2, <2>3, NativeFlow
<1>4. ASSUME NEW j \in Jobs, CancelJob(j) PROVE FlowInvariant'
  BY <1>2, <1>4 DEF CancelJob
<1>5. ASSUME NEW c \in Clients, NEW p \in Plugins, CancelJobsForClient(c, p)
      PROVE  FlowInvariant'
  BY <1>2, <1>5 DEF CancelJobsForClient
<1>6. ASSUME NEW c \in Clients, OnHandleDestroy(c) PROVE FlowInvariant'
  BY <1>3, <1>6 DEF OnHandleDestroy, FoundForClient
<1>7. ASSUME NEW p \in Plugins, OnPluginUnloaded(p) PROVE FlowInvariant'
  BY <1>3, <1>7 DEF OnPluginUnloaded
<1> QED
  BY <1>1, <1>4, <1>5, <1>6, <1>7 DEF Natives

\* The main thread goes on without handling an event.
LEMMA IdleMainFlow ==
  ASSUME InductiveInvariant, InductiveInvariant', OrderInvariant, FlowInvariant,
         OnGameFrame \/ EndFrame \/ BeginUnload \/ StopWorker
  PROVE  FlowInvariant'
<1>1. /\ UNCHANGED <<jobs, xfer, consumeRequests, taken, log, records>>
      /\ mpc # "callback" /\ mpc' # "callback" /\ (enabled' => enabled)
  BY DEF OnGameFrame, EndFrame, BeginUnload, StopWorker, SetEnabled, workerVars, queueVars, mailbox
<1>2. InFlight' = InFlight
  <2>1. CASE OnGameFrame
    BY <2>1, InFlightDrained
  <2>2. CASE EndFrame \/ BeginUnload \/ StopWorker
    BY <2>2 DEF InFlight, EndFrame, BeginUnload, StopWorker, queueVars
  <2> QED
    BY <2>1, <2>2
<1>3. Undelivered' = Undelivered
  BY <1>1, <1>2 DEF Undelivered
<1>4. \A j \in Jobs : Listening(j)' => Listening(j)
  BY <1>1 DEF Listening, Found
<1> QED
  BY <1>1, <1>2, <1>3, <1>4, StillFlow

LEMMA SkipEventFlow ==
  ASSUME InductiveInvariant, InductiveInvariant', FlowInvariant, SkipEvent
  PROVE  FlowInvariant'
<1>1. /\ UNCHANGED <<jobs, xfer, consumeRequests, taken, log, records, enabled>>
      /\ UNCHANGED <<events, outbox>>
      /\ batch # <<>> /\ mpc = "batch" /\ mpc' = "batch" /\ batch' = Tail(batch)
      /\ ~Found(NextEvent.id)
  BY DEF SkipEvent, workerVars, queueVars, mailbox
<1>2. /\ Undelivered = InFlight /\ InFlight' = Tail(InFlight) /\ Undelivered' = Tail(InFlight)
  BY <1>1, NextTaken
<1>3. ASSUME NEW j \in Jobs
      PROVE  /\ DataBytes(InFlight, j)' <= DataBytes(InFlight, j) /\ Acked(j)' = Acked(j)
             /\ Passed(j)' <= Passed(j) /\ HeadersGiven(j)' <= HeadersGiven(j)
             /\ Listening(j)' => /\ Listening(j)
                                 /\ DataBytes(InFlight, j)' = DataBytes(InFlight, j)
                                 /\ Passed(j)' = Passed(j)
  <2>1. /\ DataBytes(InFlight, j)' = DataBytes(Tail(InFlight), j)
        /\ DataBytes(Undelivered, j)' = DataBytes(Tail(InFlight), j)
        /\ HeadersIn(Undelivered, j)' = HeadersIn(Tail(InFlight), j)
    BY <1>2, SameEvents
  <2>2. /\ NextEvent \in TransferEvent
        /\ DataBytes(Tail(InFlight), j) \in Nat /\ HeadersIn(Tail(InFlight), j) \in Nat
        /\ DataBytes(InFlight, j) =
             (IF IsOf(NextEvent, j, "Data") THEN NextEvent.n ELSE 0)
               + DataBytes(Tail(InFlight), j)
        /\ HeadersIn(InFlight, j) =
             (IF IsOf(NextEvent, j, "Headers") THEN 1 ELSE 0) + HeadersIn(Tail(InFlight), j)
    BY <1>1, NextAdds
  <2>3. NextEvent.n \in Nat
    BY <2>2 DEF TransferEvent
  <2>4. log[j].bytesHandled \in Nat /\ log[j].headersHandled \in Nat
    BY AllTyped DEF Typed
  <2>5. Listening(j)' => Listening(j) /\ j # NextEvent.id
    BY <1>1 DEF Listening, Found
  <2>6. j # NextEvent.id => DataBytes(InFlight, j) = DataBytes(Tail(InFlight), j)
    BY <2>2 DEF IsOf
  <2>7. /\ DataBytes(Tail(InFlight), j) <= DataBytes(InFlight, j)
        /\ HeadersIn(Tail(InFlight), j) <= HeadersIn(InFlight, j)
        /\ DataBytes(InFlight, j) \in Nat /\ HeadersIn(InFlight, j) \in Nat
    BY <2>2, <2>3
  <2>8. /\ Passed(j) = log[j].bytesHandled + DataBytes(InFlight, j)
        /\ Passed(j)' = log[j].bytesHandled + DataBytes(Tail(InFlight), j)
        /\ HeadersGiven(j) = log[j].headersHandled + HeadersIn(InFlight, j)
        /\ HeadersGiven(j)' = log[j].headersHandled + HeadersIn(Tail(InFlight), j)
    BY <1>1, <1>2, <2>1 DEF Passed, HeadersGiven
  <2>9. Acked(j)' = Acked(j)
    BY <1>1, KeptAcks
  <2> QED
    BY <2>1, <2>2, <2>4, <2>5, <2>6, <2>7, <2>8, <2>9
<1>4. ASSUME NEW j \in Jobs, Streamed(j) PROVE WholeTold(j)'
  BY <1>1, <1>2, <1>3, <1>4, NextAdds, TailWhole DEF FlowInvariant
<1>5. \A j \in Jobs : /\ DataBytes(InFlight, j) \in Nat /\ DataBytes(InFlight, j)' \in Nat
                      /\ Acked(j) \in Nat
  BY AllTyped, AllTypedNext DEF Typed
<1>6. \A j \in Jobs :
        /\ DataBytes(InFlight, j)' + Acked(j)' <= DataBytes(InFlight, j) + Acked(j)
        /\ Listening(j)' => DataBytes(InFlight, j)' + Acked(j)' =
                              DataBytes(InFlight, j) + Acked(j)
  BY <1>3, <1>5
<1> QED
  BY <1>1, <1>3, <1>4, <1>6, MainStepFlow

\* What the log gains is what the event carries.
LEMMA Logged ==
  ASSUME InductiveInvariant, Delivery, batch # <<>>, NextEvent.kind # "Complete",
         NEW ran, LogIntermediate(NextEvent, ran), NEW j \in Jobs
  PROVE  /\ log'[j].bytesHandled =
              log[j].bytesHandled + (IF IsOf(NextEvent, j, "Data") THEN NextEvent.n ELSE 0)
         /\ log'[j].headersHandled =
              log[j].headersHandled + (IF IsOf(NextEvent, j, "Headers") THEN 1 ELSE 0)
         /\ log'[j].outcome = log[j].outcome /\ log'[j].length = log[j].length
         /\ j # NextEvent.id => log'[j] = log[j]
<1> DEFINE id == NextEvent.id
           n  == NextEvent.n
           more == IF NextEvent.kind = "Headers" THEN 1 ELSE 0
           heard == ran /\ NextEvent.kind = "Headers"
<1>1. /\ NextEvent \in PlainEvent /\ id \in Jobs /\ n \in Nat
      /\ log \in [Jobs -> Log] /\ \A i \in Jobs : log[i] \in Log
  BY NextEventPlain, NextEventType DEF InductiveInvariant, TypeOK, RecordTypeOK
<1>2. NextEvent.kind # "Data" => n = 0
  BY <1>1 DEF PlainEvent, TransferEvent, EventKind
<1>3. log' = [log EXCEPT ![id].headersHandled = @ + more, ![id].bytesHandled = @ + n,
                         ![id].headersHeard = @ \/ heard]
  BY DEF LogIntermediate
<1>4. /\ NextEvent.id = id /\ NextEvent.n = n
      /\ more = IF NextEvent.kind = "Headers" THEN 1 ELSE 0
  OBVIOUS
<1> HIDE DEF id, n, more, heard
<1>5. /\ log'[id].headersHandled = log[id].headersHandled + more
      /\ log'[id].bytesHandled = log[id].bytesHandled + n
      /\ log'[id].outcome = log[id].outcome /\ log'[id].length = log[id].length
      /\ \A i \in Jobs \ {id} : log'[i] = log[i]
  BY <1>1, <1>3 DEF Log
<1>6. log[j].headersHandled \in Nat /\ log[j].bytesHandled \in Nat
  BY <1>1 DEF Log
<1>7. CASE j = id
  BY <1>2, <1>4, <1>5, <1>6, <1>7 DEF IsOf
<1>8. CASE j # id
  BY <1>4, <1>5, <1>6, <1>8 DEF IsOf
<1> QED
  BY <1>7, <1>8

\* The plugin is told of the next event: what it was given in all is the same.
LEMMA ToldFlow ==
  ASSUME InductiveInvariant, Delivery, FlowInvariant, mpc = "batch", batch # <<>>,
         NextEvent.kind # "Complete", Found(NextEvent.id), NEW ran,
         LogIntermediate(NextEvent, ran), UNCHANGED <<events, outbox>>, Undelivered' = Tail(InFlight),
         \A j \in Jobs : Listening(j)' => Listening(j), NEW j \in Jobs
  PROVE  /\ Passed(j)' = Passed(j) /\ HeadersGiven(j)' = HeadersGiven(j)
         /\ Streamed(j) => WholeTold(j)'
<1> DEFINE n    == IF IsOf(NextEvent, j, "Data") THEN NextEvent.n ELSE 0
           h    == IF IsOf(NextEvent, j, "Headers") THEN 1 ELSE 0
           rest == Tail(InFlight)
<1>1. /\ log'[j].bytesHandled = log[j].bytesHandled + n
      /\ log'[j].headersHandled = log[j].headersHandled + h
      /\ log'[j].outcome = log[j].outcome /\ log'[j].length = log[j].length
      /\ j # NextEvent.id => log'[j] = log[j]
  BY Logged
<1>2. /\ NextEvent \in TransferEvent /\ InFlight \in Seq(TransferEvent) /\ InFlight # <<>>
      /\ DataBytes(rest, j) \in Nat /\ HeadersIn(rest, j) \in Nat
      /\ DataBytes(InFlight, j) = n + DataBytes(rest, j)
      /\ HeadersIn(InFlight, j) = h + HeadersIn(rest, j)
  BY NextAdds
<1>3. n \in Nat /\ h \in Nat /\ log[j].bytesHandled \in Nat /\ log[j].headersHandled \in Nat
  <2>1. NextEvent.n \in Nat
    BY <1>2 DEF TransferEvent
  <2> QED
    BY <2>1, AllTyped DEF Typed
<1>4. Undelivered = InFlight /\ Undelivered' = rest
  BY NextTaken
<1>5. DataBytes(Undelivered, j)' = DataBytes(rest, j) /\ HeadersIn(Undelivered, j)' = HeadersIn(rest, j)
  BY <1>4 DEF DataBytes, HeadersIn, SumOf, IsOf
<1>6. /\ Passed(j) = log[j].bytesHandled + DataBytes(InFlight, j)
      /\ HeadersGiven(j) = log[j].headersHandled + HeadersIn(InFlight, j)
      /\ Passed(j)' = log'[j].bytesHandled + DataBytes(rest, j)
      /\ HeadersGiven(j)' = log'[j].headersHandled + HeadersIn(rest, j)
  BY <1>4, <1>5 DEF Passed, HeadersGiven
<1>7. Passed(j)' = Passed(j) /\ HeadersGiven(j)' = HeadersGiven(j)
  <2> HIDE DEF n, h, rest
  <2>1. \A a, b, c \in Nat : (a + b) + c = a + (b + c)
    OBVIOUS
  <2>2. /\ Passed(j) = log[j].bytesHandled + (n + DataBytes(rest, j))
        /\ HeadersGiven(j) = log[j].headersHandled + (h + HeadersIn(rest, j))
    BY <1>2, <1>6
  <2>3. /\ Passed(j)' = (log[j].bytesHandled + n) + DataBytes(rest, j)
        /\ HeadersGiven(j)' = (log[j].headersHandled + h) + HeadersIn(rest, j)
    BY <1>1, <1>6
  <2> QED
    BY <1>2, <1>3, <2>1, <2>2, <2>3
<1>8. log[j].outcome = "Ok" => j # NextEvent.id
  BY DEF InductiveInvariant, MainInvariant, RecordPlaced, TypeOK, RecordTypeOK, RecordState, Found
<1>9. Streamed(j) => WholeTold(j)'
  BY <1>1, <1>2, <1>4, <1>7, <1>8, TailWhole DEF FlowInvariant
<1> QED
  BY <1>7, <1>9

\* Once an event has been handled its bytes are acknowledged to the job.
LEMMA AckedFlow ==
  ASSUME InductiveInvariant, batch # <<>>, InFlight' = Tail(InFlight), UNCHANGED taken,
         IF NextEvent.kind = "Data"
           THEN Consume(NextEvent.id, NextEvent.n) ELSE UNCHANGED consumeRequests,
         NEW j \in Jobs
  PROVE  /\ DataBytes(InFlight, j)' <= DataBytes(InFlight, j)
         /\ DataBytes(InFlight, j)' + Acked(j)' = DataBytes(InFlight, j) + Acked(j)
<1> DEFINE n     == IF IsOf(NextEvent, j, "Data") THEN NextEvent.n ELSE 0
           rest  == Tail(InFlight)
           acks  == taken.consumes
           all   == consumeRequests'
<1>1. /\ NextEvent \in TransferEvent /\ DataBytes(rest, j) \in Nat
      /\ DataBytes(InFlight, j) = n + DataBytes(rest, j)
  BY NextAdds
<1>2. NextEvent.n \in Nat /\ NextEvent.id \in Jobs
  BY <1>1 DEF TransferEvent
<1>3. n \in Nat
  BY <1>2
<1>4. DataBytes(InFlight, j)' = DataBytes(rest, j)
  BY DEF DataBytes, SumOf, IsOf
<1>5. consumeRequests \in Seq(Jobs \X Nat) /\ acks \in Seq(Jobs \X Nat)
  BY DEF InductiveInvariant, TypeOK, WorkerTypeOK
<1>6. all \in Seq(Jobs \X Nat) /\ ConsumedBytes(all, j) = ConsumedBytes(consumeRequests, j) + n
  <2>1. CASE NextEvent.kind = "Data"
    <3>1. all = Append(consumeRequests, <<NextEvent.id, NextEvent.n>>)
      BY <2>1 DEF Consume
    <3>2. n = IF NextEvent.id = j THEN NextEvent.n ELSE 0
      BY <2>1 DEF IsOf
    <3> HIDE DEF all, n
    <3> QED
      BY <1>2, <1>5, <3>1, <3>2, LastAckAdds
  <2>2. CASE NextEvent.kind # "Data"
    <3>1. all = consumeRequests /\ n = 0
      BY <2>2 DEF IsOf
    <3>2. ConsumedBytes(consumeRequests, j) \in Nat
      BY <1>5, AcksAdd
    <3> HIDE DEF all, n
    <3> QED
      BY <1>5, <3>1, <3>2
  <2> QED
    BY <2>1, <2>2
<1>7. /\ Acked(j) = ConsumedBytes(consumeRequests \o acks, j)
      /\ Acked(j)' = ConsumedBytes(all \o acks, j)
  BY DEF Acked, ConsumedBytes, SumOf
<1> HIDE DEF n, rest, acks, all
<1>8. /\ ConsumedBytes(consumeRequests \o acks, j) =
           ConsumedBytes(consumeRequests, j) + ConsumedBytes(acks, j)
      /\ ConsumedBytes(all \o acks, j) = ConsumedBytes(all, j) + ConsumedBytes(acks, j)
      /\ ConsumedBytes(consumeRequests, j) \in Nat /\ ConsumedBytes(acks, j) \in Nat
  BY <1>5, <1>6, AcksAdd
<1> QED
  BY <1>1, <1>3, <1>4, <1>6, <1>7, <1>8

LEMMA HandleIntermediateFlow ==
  ASSUME InductiveInvariant, InductiveInvariant', Delivery, FlowInvariant, HandleIntermediate
  PROVE  FlowInvariant'
<1>1. /\ UNCHANGED <<jobs, xfer, consumeRequests, taken, enabled, events, outbox>>
      /\ batch # <<>> /\ mpc = "batch" /\ mpc' = "callback" /\ batch' = batch
      /\ NextEvent.kind # "Complete" /\ Found(NextEvent.id) /\ LogIntermediate(NextEvent, TRUE)
      /\ records' = [records EXCEPT ![NextEvent.id] = "dispatching"]
  BY DEF HandleIntermediate, workerVars, queueVars, mailbox
<1>2. InFlight' = InFlight /\ Undelivered' = Tail(InFlight)
  BY <1>1, NextTaken
<1>3. \A j \in Jobs : Listening(j)' => Listening(j)
  BY <1>1 DEF Listening, Found, InductiveInvariant, TypeOK, RecordTypeOK
<1>4. ASSUME NEW j \in Jobs
      PROVE  /\ DataBytes(InFlight, j)' = DataBytes(InFlight, j) /\ Acked(j)' = Acked(j)
             /\ Passed(j)' = Passed(j) /\ HeadersGiven(j)' = HeadersGiven(j)
             /\ Streamed(j) => WholeTold(j)'
  BY <1>1, <1>2, <1>3, KeptAcks, SameEvents, ToldFlow
<1>5. \A j \in Jobs : /\ DataBytes(InFlight, j) \in Nat /\ Acked(j) \in Nat
                      /\ Passed(j) \in Nat /\ HeadersGiven(j) \in Nat
  BY AllTyped DEF Typed
<1>6. \A j \in Jobs :
        /\ DataBytes(InFlight, j)' <= DataBytes(InFlight, j)
        /\ DataBytes(InFlight, j)' + Acked(j)' <= DataBytes(InFlight, j) + Acked(j)
        /\ Passed(j)' <= Passed(j) /\ HeadersGiven(j)' <= HeadersGiven(j)
  BY <1>4, <1>5
<1> QED
  BY <1>1, <1>3, <1>4, <1>6, MainStepFlow

LEMMA HandleIntermediateUnheardFlow ==
  ASSUME InductiveInvariant, InductiveInvariant', Delivery, FlowInvariant,
         HandleIntermediateUnheard
  PROVE  FlowInvariant'
<1>1. /\ UNCHANGED <<jobs, xfer, taken, enabled, events, outbox, records>>
      /\ batch # <<>> /\ mpc = "batch" /\ mpc' = "batch" /\ batch' = Tail(batch)
      /\ NextEvent.kind # "Complete" /\ Found(NextEvent.id) /\ LogIntermediate(NextEvent, FALSE)
      /\ IF NextEvent.kind = "Data"
           THEN Consume(NextEvent.id, NextEvent.n) ELSE UNCHANGED consumeRequests
  BY DEF HandleIntermediateUnheard, queueVars
<1>2. InFlight' = Tail(InFlight) /\ Undelivered' = Tail(InFlight)
  BY <1>1, NextTaken
<1>3. \A j \in Jobs : Listening(j)' => Listening(j)
  BY <1>1 DEF Listening, Found
<1>4. ASSUME NEW j \in Jobs
      PROVE  /\ DataBytes(InFlight, j)' <= DataBytes(InFlight, j)
             /\ DataBytes(InFlight, j)' + Acked(j)' = DataBytes(InFlight, j) + Acked(j)
  BY <1>1, <1>2, AckedFlow
<1>5. ASSUME NEW j \in Jobs
      PROVE  /\ Passed(j)' = Passed(j) /\ HeadersGiven(j)' = HeadersGiven(j)
             /\ Streamed(j) => WholeTold(j)'
  BY <1>1, <1>2, <1>3, ToldFlow
<1>6. \A j \in Jobs : /\ DataBytes(InFlight, j) \in Nat /\ Acked(j) \in Nat
                      /\ Passed(j) \in Nat /\ HeadersGiven(j) \in Nat
  BY AllTyped DEF Typed
<1>7. \A j \in Jobs :
        /\ DataBytes(InFlight, j)' + Acked(j)' <= DataBytes(InFlight, j) + Acked(j)
        /\ Passed(j)' <= Passed(j) /\ HeadersGiven(j)' <= HeadersGiven(j)
  BY <1>4, <1>5, <1>6
<1> QED
  BY <1>1, <1>3, <1>4, <1>5, <1>7, MainStepFlow

LEMMA ReturnFromCallbackFlow ==
  ASSUME InductiveInvariant, InductiveInvariant', FlowInvariant, NEW handled \in BOOLEAN,
         ReturnFromCallback(handled)
  PROVE  FlowInvariant'
<1>1. /\ UNCHANGED <<jobs, xfer, taken, enabled, events, outbox>>
      /\ mpc = "callback" /\ mpc' = "batch" /\ batch' = Tail(batch)
      /\ IF NextEvent.kind = "Data"
           THEN Consume(NextEvent.id, NextEvent.n) ELSE UNCHANGED consumeRequests
      /\ log' = log \/ log' = [log EXCEPT ![NextEvent.id].cancelled = TRUE]
      /\ records' = [records EXCEPT ![NextEvent.id] = AfterDispatch(@)]
  BY DEF ReturnFromCallback, queueVars
<1>2. batch # <<>>
  BY <1>1 DEF InductiveInvariant, MainInvariant
<1>3. InFlight' = Tail(InFlight) /\ Undelivered' = Tail(InFlight) /\ Undelivered = Tail(InFlight)
  BY <1>1, <1>2, NextTaken
<1>4. \A j \in Jobs : Listening(j)' => Listening(j)
  BY <1>1 DEF Listening, Found, AfterDispatch, InductiveInvariant, TypeOK, RecordTypeOK
<1>5. \A j \in Jobs : /\ log'[j].headersHandled = log[j].headersHandled /\ log'[j].bytesHandled = log[j].bytesHandled
                      /\ log'[j].outcome = log[j].outcome /\ log'[j].length = log[j].length
  <2>1. log \in [Jobs -> Log] /\ \A j \in Jobs : log[j] \in Log
    BY DEF InductiveInvariant, TypeOK, RecordTypeOK
  <2>2. CASE log' = log
    BY <2>2
  <2>3. CASE log' = [log EXCEPT ![NextEvent.id].cancelled = TRUE]
    BY <2>1, <2>3 DEF Log
  <2> QED
    BY <1>1, <2>2, <2>3
<1>6. ASSUME NEW j \in Jobs
      PROVE  /\ DataBytes(InFlight, j)' <= DataBytes(InFlight, j)
             /\ DataBytes(InFlight, j)' + Acked(j)' = DataBytes(InFlight, j) + Acked(j)
  BY <1>1, <1>2, <1>3, AckedFlow
<1>7. ASSUME NEW j \in Jobs
      PROVE  Passed(j)' = Passed(j) /\ HeadersGiven(j)' = HeadersGiven(j)
  <2>1. /\ DataBytes(Undelivered, j)' = DataBytes(Undelivered, j)
        /\ HeadersIn(Undelivered, j)' = HeadersIn(Undelivered, j)
    BY <1>3 DEF DataBytes, HeadersIn, SumOf, IsOf
  <2> QED
    BY <1>5, <2>1 DEF Passed, HeadersGiven
<1>8. ASSUME NEW j \in Jobs, Streamed(j) PROVE WholeTold(j)'
  BY <1>3, <1>4, <1>5, <1>7, <1>8, KeptWhole DEF FlowInvariant
<1>9. \A j \in Jobs : /\ DataBytes(InFlight, j) \in Nat /\ Acked(j) \in Nat
                      /\ Passed(j) \in Nat /\ HeadersGiven(j) \in Nat
  BY AllTyped DEF Typed
<1>10. \A j \in Jobs :
         /\ DataBytes(InFlight, j)' + Acked(j)' <= DataBytes(InFlight, j) + Acked(j)
         /\ Passed(j)' <= Passed(j) /\ HeadersGiven(j)' <= HeadersGiven(j)
  BY <1>6, <1>7, <1>9
<1> QED
  BY <1>1, <1>4, <1>6, <1>7, <1>8, <1>10, MainStepFlow

\* Nothing of a request follows its result, which reports all that was passed.
LEMMA DispatchCompleteFlow ==
  ASSUME InductiveInvariant, InductiveInvariant', OrderInvariant, Delivery, FlowInvariant,
         DispatchComplete \/ DispatchCompleteUnheard
  PROVE  FlowInvariant'
<1> DEFINE id   == NextEvent.id
           rest == Tail(InFlight)
<1>1. /\ UNCHANGED <<jobs, xfer, consumeRequests, taken, enabled, events, outbox>>
      /\ batch # <<>> /\ mpc = "batch" /\ NextEvent.kind = "Complete" /\ Found(id)
      /\ \/ mpc' = "callback" /\ batch' = batch
         \/ mpc' = "batch" /\ batch' = Tail(batch)
      /\ records' = [records EXCEPT ![id] = "absent"]
  BY DEF DispatchComplete, DispatchCompleteUnheard, workerVars, queueVars, mailbox
<1>2. /\ Undelivered = InFlight /\ Undelivered' = rest /\ InFlight' \in {InFlight, rest}
      /\ InFlight \in Seq(TransferEvent) /\ InFlight # <<>> /\ InFlight[1] = NextEvent
      /\ NextEvent \in TransferEvent /\ id \in Jobs /\ enabled
  <2>1. enabled
    BY <1>1 DEF Delivery, HeadersInvariant
  <2> QED
    BY <1>1, <2>1, NextTaken, OldestInFlight, InFlightType DEF TransferEvent
<1>3. /\ \A j \in Jobs : log'[j].headersHandled = log[j].headersHandled /\ log'[j].bytesHandled = log[j].bytesHandled
      /\ \A j \in Jobs \ {id} : log'[j] = log[j]
      /\ log'[id].outcome = "Ok" => NextEvent.status = "Ok" /\ log'[id].length = NextEvent.n
  <2>1. /\ log \in [Jobs -> Log] /\ \A j \in Jobs : log[j] \in Log
    BY DEF InductiveInvariant, TypeOK, RecordTypeOK
  <2>2. \/ log' = [log EXCEPT ![id].outcome = NextEvent.status, ![id].length = NextEvent.n]
        \/ log' = [log EXCEPT ![id].outcome = "lost"]
    BY DEF DispatchComplete, DispatchCompleteUnheard
  <2> HIDE DEF id
  <2>3. CASE log' = [log EXCEPT ![id].outcome = NextEvent.status, ![id].length = NextEvent.n]
    BY <1>2, <2>1, <2>3 DEF Log
  <2>4. CASE log' = [log EXCEPT ![id].outcome = "lost"]
    BY <1>2, <2>1, <2>4 DEF Log
  <2> QED
    BY <2>2, <2>3, <2>4
<1>4. ASSUME NEW j \in Jobs
      PROVE  /\ DataBytes(InFlight, j) = DataBytes(rest, j) /\ DataBytes(rest, j) \in Nat
             /\ HeadersIn(InFlight, j) = HeadersIn(rest, j)
  <2>1. /\ DataBytes(rest, j) \in Nat /\ HeadersIn(rest, j) \in Nat
        /\ DataBytes(InFlight, j) =
             (IF IsOf(NextEvent, j, "Data") THEN NextEvent.n ELSE 0) + DataBytes(rest, j)
        /\ HeadersIn(InFlight, j) =
             (IF IsOf(NextEvent, j, "Headers") THEN 1 ELSE 0) + HeadersIn(rest, j)
    BY <1>1, NextAdds
  <2>2. ~IsOf(NextEvent, j, "Data") /\ ~IsOf(NextEvent, j, "Headers")
    BY <1>1 DEF IsOf
  <2> HIDE DEF rest
  <2> QED
    BY <2>1, <2>2
<1>5. ASSUME NEW j \in Jobs
      PROVE  /\ DataBytes(InFlight, j)' = DataBytes(InFlight, j) /\ Acked(j)' = Acked(j)
             /\ Passed(j)' = Passed(j) /\ HeadersGiven(j)' = HeadersGiven(j)
  <2>1. /\ DataBytes(Undelivered, j)' = DataBytes(rest, j)
        /\ HeadersIn(Undelivered, j)' = HeadersIn(rest, j)
    BY <1>2 DEF DataBytes, HeadersIn, SumOf, IsOf
  <2>2. DataBytes(InFlight, j)' \in {DataBytes(InFlight, j), DataBytes(rest, j)}
    <3>1. CASE InFlight' = InFlight
      BY <3>1, SameEvents
    <3>2. CASE InFlight' = rest
      BY <3>2, SameEvents
    <3> QED
      BY <1>2, <3>1, <3>2
  <2>3. Acked(j)' = Acked(j)
    BY <1>1, KeptAcks
  <2> QED
    BY <1>2, <1>3, <1>4, <2>1, <2>2, <2>3 DEF Passed, HeadersGiven
<1>6. \A j \in Jobs : Listening(j)' => Listening(j) /\ j # id
  BY <1>1, <1>2 DEF Listening, Found, InductiveInvariant, TypeOK, RecordTypeOK
<1>7. ASSUME NEW j \in Jobs, Streamed(j) PROVE WholeTold(j)'
  <2>1. WholeTold(j)
    BY <1>7 DEF FlowInvariant
  <2>2. CASE j # id
    BY <1>2, <1>3, <1>5, <1>6, <2>1, <2>2, TailWhole
  <2>3. CASE j = id
    <3>1. ASSUME log'[j].outcome = "Ok" PROVE log'[j].bytesHandled = log'[j].length
      <4>1. 1 \in DOMAIN Undelivered /\ Undelivered[1] = NextEvent
        BY <1>2, TailOfEvents
      <4>2. /\ IsOf(Undelivered[1], j, "Complete") /\ Undelivered[1].status = "Ok"
            /\ Listening(j)
        BY <1>1, <1>2, <1>3, <2>3, <3>1, <4>1 DEF IsOf, Listening
      <4>3. NextEvent.n = Passed(j)
        BY <2>1, <4>1, <4>2 DEF WholeTold
      <4>4. DataBytes(rest, j) = 0
        <5>1. \A i \in DOMAIN rest : ~IsOf(rest[i], j, "Data")
          <6>1. \A i \in DOMAIN rest :
                  i + 1 \in DOMAIN InFlight /\ 1 < i + 1 /\ rest[i] = InFlight[i + 1]
            BY <1>2, TailOfEvents
          <6>2. \A k \in DOMAIN InFlight : 1 < k => InFlight[k].id # j
            <7>1. 1 \in DOMAIN InFlight /\ InFlight[1].kind = "Complete" /\ InFlight[1].id = j
              BY <1>1, <1>2, <2>3, <4>1
            <7> QED
              BY <7>1 DEF OrderInvariant, Ordered
          <6> HIDE DEF rest
          <6> QED
            BY <6>1, <6>2 DEF IsOf
        <5>2. rest \in Seq(TransferEvent)
          BY <1>2, TailOfEvents
        <5> QED
          BY <5>1, <5>2, EventsOfOthers
      <4>5. log[j].bytesHandled \in Nat
        BY AllTyped DEF Typed
      <4> HIDE DEF rest
      <4>6. Passed(j) = log[j].bytesHandled
        BY <1>2, <1>4, <4>4, <4>5 DEF Passed
      <4> QED
        BY <1>3, <2>3, <3>1, <4>3, <4>6
    <3> QED
      BY <1>6, <2>3, <3>1 DEF WholeTold
  <2> QED
    BY <2>2, <2>3
<1>8. \A j \in Jobs : /\ DataBytes(InFlight, j) \in Nat /\ Acked(j) \in Nat
                      /\ Passed(j) \in Nat /\ HeadersGiven(j) \in Nat
  BY AllTyped DEF Typed
<1>9. \A j \in Jobs :
        /\ DataBytes(InFlight, j)' <= DataBytes(InFlight, j)
        /\ DataBytes(InFlight, j)' + Acked(j)' <= DataBytes(InFlight, j) + Acked(j)
        /\ Passed(j)' <= Passed(j) /\ HeadersGiven(j)' <= HeadersGiven(j)
  BY <1>5, <1>8
<1> QED
  BY <1>1, <1>5, <1>6, <1>7, <1>9, MainStepFlow

LEMMA FinishUnloadFlow ==
  ASSUME InductiveInvariant, InductiveInvariant', Delivery, FlowInvariant, FinishUnload
  PROVE  FlowInvariant'
<1>1. /\ jobs' = [j \in Jobs |-> IF j \in active \cup incoming THEN DestroyedJob(j) ELSE jobs[j]]
      /\ xfer' = [j \in Jobs |-> IF j \in active THEN NoTransfer ELSE xfer[j]]
      /\ log' = [j \in Jobs |-> IF Found(j) THEN [log[j] EXCEPT !.outcome = "dropped"]
                                ELSE log[j]]
      /\ mpc = "joining" /\ mpc' = "unloaded" /\ events' = <<>> /\ wpc = "exited"
      /\ UNCHANGED <<enabled, outbox, batch, consumeRequests, taken>>
  BY DEF FinishUnload, Drain, ThreadJoined
<1>2. ~enabled'
  BY <1>1 DEF Delivery, HeadersInvariant
<1>3. \A j \in Jobs : \/ jobs'[j] = jobs[j] /\ KeptTransfer(xfer'[j], xfer[j])
                      \/ jobs'[j].finished /\ jobs'[j].streamBuffer = 0 /\ ~xfer'[j].paused
  <2>1. \A j \in Jobs : xfer[j].paused => j \in active
    BY DEF InductiveInvariant, JobsInvariant, JobPlaced, FlowInvariant, Balanced
  <2>2. \A j \in Jobs : DestroyedJob(j).finished /\ DestroyedJob(j).streamBuffer = 0
    BY DEF DestroyedJob, FreshJob
  <2>3. ~NoTransfer.paused
    BY DEF NoTransfer
  <2> QED
    BY <1>1, <2>1, <2>2, <2>3 DEF KeptTransfer
<1>4. InFlight' = <<>> /\ Undelivered' = <<>>
  <2>1. batch = <<>> /\ outbox = <<>>
    BY <1>1 DEF InductiveInvariant, MainInvariant, WorkerInvariant, Posted
  <2>2. <<>> \o <<>> = <<>>
    BY ConcatEmptySeq, EmptySeq
  <2>3. InFlight' = <<>>
    BY <1>1, <2>1, <2>2 DEF InFlight
  <2> QED
    BY <1>1, <2>3 DEF Undelivered
<1>5. ASSUME NEW j \in Jobs
      PROVE  /\ DataBytes(InFlight, j)' <= DataBytes(InFlight, j) /\ Acked(j)' = Acked(j)
             /\ DataBytes(Undelivered, j)' <= DataBytes(Undelivered, j)
             /\ HeadersIn(Undelivered, j)' <= HeadersIn(Undelivered, j)
  <2>1. /\ DataBytes(InFlight, j)' = 0 /\ DataBytes(Undelivered, j)' = 0
        /\ HeadersIn(Undelivered, j)' = 0
    <3>1. /\ DataBytes(InFlight, j)' = DataBytes(<<>>, j)
          /\ DataBytes(Undelivered, j)' = DataBytes(<<>>, j)
          /\ HeadersIn(Undelivered, j)' = HeadersIn(<<>>, j)
      BY <1>4, SameEvents
    <3> QED
      BY <3>1, NothingAdds
  <2>2. /\ DataBytes(InFlight, j) \in Nat /\ DataBytes(Undelivered, j) \in Nat
        /\ HeadersIn(Undelivered, j) \in Nat
    BY AllTyped DEF Typed
  <2>3. Acked(j)' = Acked(j)
    BY <1>1, KeptAcks
  <2> QED
    BY <2>1, <2>2, <2>3
<1>6. \A j \in Jobs :
        /\ log'[j].headersHandled = log[j].headersHandled /\ log'[j].bytesHandled = log[j].bytesHandled
        /\ log'[j].outcome = "Ok" => log[j].outcome = "Ok" /\ log'[j].length = log[j].length
  <2>1. \A j \in Jobs : log[j] \in Log
    BY DEF InductiveInvariant, TypeOK, RecordTypeOK
  <2>2. \A j \in Jobs : log'[j] = log[j] \/ log'[j] = [log[j] EXCEPT !.outcome = "dropped"]
    BY <1>1
  <2> QED
    BY <2>1, <2>2 DEF Log
<1> QED
  BY <1>2, <1>3, <1>5, <1>6, UnheardFlow

----------------------------------------------------------------------------
(* Every step *)

LEMMA InitFlow == Init => FlowInvariant
<1> SUFFICES ASSUME Init, NEW j \in Jobs PROVE JobFlow(j)
  BY FlowOfJobs
<1>1. /\ batch = <<>> /\ events = <<>> /\ outbox = <<>> /\ mpc = "idle"
      /\ consumeRequests = <<>> /\ taken.consumes = <<>>
      /\ log[j].outcome = "none" /\ log[j].bytesHandled = 0 /\ log[j].headersHandled = 0 /\ ~Found(j)
      /\ xfer[j].state = "none" /\ ~xfer[j].paused
      /\ jobs[j] = FreshJob(j)
  BY DEF Init, QueueInit, WorkerInit, NothingTaken, NoTransfer, Found
<1>2. <<>> \o <<>> = <<>>
  BY ConcatEmptySeq, EmptySeq
<1>3. InFlight = <<>> /\ Undelivered = <<>>
  BY <1>1, <1>2 DEF InFlight, Undelivered
<1>4. /\ DataBytes(InFlight, j) = 0 /\ Acked(j) = 0
      /\ Passed(j) = 0 /\ HeadersGiven(j) = 0
  BY <1>1, <1>2, <1>3, NothingAdds DEF Acked, Passed, HeadersGiven
<1>5. StreamCap \in Nat
  BY RestJobAssumption, TransferThreadAssumption DEF StreamCap
<1>6. Balanced(jobs[j], xfer[j], 0, 0, 0, 0)
  <2>1. /\ jobs[j].pendingStreamBytes = 0 /\ jobs[j].streamBuffer = 0 /\ jobs[j].bodyLength = 0
        /\ jobs[j].attempt = 0 /\ ~jobs[j].paused
    BY <1>1 DEF FreshJob
  <2> QED
    BY <1>1, <1>5, <2>1 DEF Balanced
<1>7. ~Listening(j) /\ WholeTold(j)
  BY <1>1 DEF Listening, WholeTold
<1> QED
  BY <1>4, <1>6, <1>7 DEF JobFlow

LEMMA MainControlFlow ==
  ASSUME InductiveInvariant, InductiveInvariant', OrderInvariant, Delivery, FlowInvariant,
         MainControl
  PROVE  FlowInvariant'
<1>1. ASSUME NEW handled \in BOOLEAN, ReturnFromCallback(handled) PROVE FlowInvariant'
  BY <1>1, ReturnFromCallbackFlow
<1> QED
  BY <1>1, IdleMainFlow, SkipEventFlow, HandleIntermediateFlow, HandleIntermediateUnheardFlow,
     DispatchCompleteFlow, FinishUnloadFlow
     DEF MainControl

LEMMA WorkerNextFlow ==
  ASSUME InductiveInvariant, InductiveInvariant', OrderInvariant, Delivery, FlowInvariant,
         WorkerNext
  PROVE  FlowInvariant'
<1>1. ASSUME NEW j \in Jobs,
             \/ WorkerStep(AdmitIncoming(j)) \/ WorkerStep(ApplyCancellation(j))
             \/ WorkerStep(StartDueRetry(j)) \/ WorkerStep(ReapCompleted(j))
      PROVE  FlowInvariant'
  BY <1>1, AdmitIncomingFlow, ApplyCancellationFlow, StartDueRetryFlow, ReapCompletedFlow
<1>2. ASSUME NEW j \in Jobs,
             \/ \E status \in Statuses : WorkerStep(CurlHeaders(j, status))
             \/ WorkerStep(CurlTrailers(j))
             \/ WorkerStep(CurlProgress(j)) \/ WorkerStep(CurlDone(j))
      PROVE  FlowInvariant'
  BY <1>2, CurlHeadersFlow, CurlTrailersFlow, CurlProgressFlow, CurlDoneFlow
<1>3. ASSUME NEW j \in Jobs, NEW total \in 1..MaxWrite,
             WorkerStep(CurlWrite(j, total)) \/ WorkerStep(CurlWriteStream(j, total))
      PROVE  FlowInvariant'
  BY <1>3, CurlWriteFlow, CurlWriteStreamFlow
<1> QED
  BY <1>1, <1>2, <1>3, PostFlow, SilentWorkerFlow, ApplyConsumedFlow, RemoveFinishedFlow
     DEF WorkerNext

LEMMA NextFlow ==
  InductiveInvariant /\ OrderInvariant /\ Delivery /\ FlowInvariant /\ [Next]_vars
    => FlowInvariant'
<1> SUFFICES ASSUME InductiveInvariant, OrderInvariant, Delivery, FlowInvariant, [Next]_vars
             PROVE  FlowInvariant'
  OBVIOUS
<1>0. InductiveInvariant'
  BY NextInvariant
<1>1. ASSUME UNCHANGED vars PROVE FlowInvariant'
  <2>1. UNCHANGED <<jobs, xfer, queueVars, mainVars, consumeRequests, taken>>
    BY <1>1 DEF vars, workerVars
  <2> QED
    BY <1>0, <2>1, SameTransfer, KeptAcks, SilentStepFlow
<1> QED
  BY <1>0, <1>1, NativesFlow, MainControlFlow, IdleMainFlow, WorkerNextFlow DEF Next, Unloaded

LEMMA FlowHolds == Spec => []FlowInvariant
BY InitFlow, NextFlow, InductiveInvariantHolds, EventsInOrder, DeliveryHolds, PTL DEF Spec

----------------------------------------------------------------------------
(* The theorems *)

\* The count of unconsumed bytes of a stream is exact while its plugin listens:
\* what is in the queue, in the batch and in the mailbox (RestJob::FlushStream,
\* RestJob::OnStreamConsumed, RestExtension::HandleIntermediate).
THEOREM FlowIsConserved == Spec => []FlowConserved
<1>1. InductiveInvariant /\ FlowInvariant => FlowConserved
  BY DEF FlowInvariant, FlowConserved, Exact, Listening, Outstanding, Acked,
         InductiveInvariant, JobsInvariant, JobPlaced, JobInvariant
<1> QED
  BY <1>1, FlowHolds, InductiveInvariantHolds, PTL

\* A transfer that curl was told to pause has acknowledgements coming that take
\* its count below the low-water mark, where OnStreamConsumed resumes it.
THEOREM PausesEnd == Spec => []PausedCanResume
<1>1. InductiveInvariant /\ FlowInvariant => PausedCanResume
  BY DEF FlowInvariant, PausedCanResume, Exact, Balanced, Listening, Outstanding, Acked,
         InductiveInvariant, JobsInvariant, JobPlaced, JobInvariant
<1> QED
  BY <1>1, FlowHolds, InductiveInvariantHolds, PTL

\* A stream never holds more than the high-water mark, one write and the rest of
\* a chunk, however slow its plugin is and however many requests there are
\* (RestJob::WriteStream).
THEOREM StreamsBounded == Spec => []StreamBounded
<1>1. FlowInvariant => StreamBounded
  BY DEF FlowInvariant, Balanced, StreamBounded
<1> QED
  BY <1>1, FlowHolds, PTL

\* A stream that ends with RESTStatus_Ok was handed to OnData as a whole: the
\* rest is flushed before the result, and nothing is lost or repeated on the way
\* (RestJob::HandleHttpSuccess, RestJob::CanRetry).
THEOREM OkIsWhole == Spec => []OkMeansWhole
<1>1. FlowInvariant => OkMeansWhole
  <2> SUFFICES ASSUME FlowInvariant, NEW j \in StreamJobs \ FileJobs
               PROVE  log[j].outcome = "Ok" => log[j].bytesHandled = log[j].length
    BY DEF OkMeansWhole
  <2>1. j \in Jobs /\ Streamed(j)
    BY RestJobAssumption DEF Streamed
  <2> QED
    BY <2>1 DEF FlowInvariant, WholeTold
<1> QED
  BY <1>1, FlowHolds, PTL

\* OnHeaders is called once per attempt at most, for any number of redirects,
\* interim responses, trailers and retries (RestJob::OnHeadersComplete).
THEOREM HeadersOnce == Spec => []HeadersOncePerAttempt
<1>1. FlowInvariant => HeadersOncePerAttempt
  BY DEF FlowInvariant, Balanced, HeadersOncePerAttempt, HeadersGiven
<1> QED
  BY <1>1, FlowHolds, PTL

----------------------------------------------------------------------------
(* Attempts *)

\* No attempt begins.
Steady == \A j \in Jobs : jobs'[j].attempt <= jobs[j].attempt

\* An attempt begins only for a job of which nothing was handed over.
NothingReplayed ==
  \A j \in Jobs : jobs'[j].attempt > jobs[j].attempt => log[j].bytesHandled + Outstanding(j) = 0

LEMMA JobTyped ==
  ASSUME InductiveInvariant
  PROVE  /\ jobs \in [Jobs -> RestJobs] /\ \A j \in Jobs : jobs[j].attempt \in Nat
         /\ \A j \in Jobs : jobs[j] \in RestJobs /\ jobs[j].id = j /\ JobInvariant(jobs[j])
<1>1. jobs \in [Jobs -> RestJobs]
  BY DEF InductiveInvariant, TypeOK, WorkerTypeOK
<1> QED
  BY <1>1 DEF InductiveInvariant, JobsInvariant, JobPlaced, RestJobs

LEMMA SteadyReplaysNothing ==
  ASSUME InductiveInvariant, InductiveInvariant', Steady
  PROVE  NothingReplayed
<1>1. \A j \in Jobs : jobs[j].attempt \in Nat
  BY JobTyped
<1>2. \A j \in Jobs : jobs'[j].attempt \in Nat
  <2>1. (InductiveInvariant => \A j \in Jobs : jobs[j].attempt \in Nat)'
    BY JobTyped, PTL
  <2> QED
    BY <2>1
<1> QED
  BY <1>1, <1>2 DEF Steady, NothingReplayed

LEMMA StillSteady ==
  ASSUME InductiveInvariant, UNCHANGED jobs
  PROVE  Steady
BY JobTyped DEF Steady

LEMMA MethodSteady ==
  ASSUME InductiveInvariant, NEW j \in Jobs, NEW job, job.attempt = jobs[j].attempt,
         Apply(j, job)
  PROVE  Steady
<1>1. jobs' = [jobs EXCEPT ![j] = [job EXCEPT !.out = <<>>]]
  BY DEF Apply
<1>2. [job EXCEPT !.out = <<>>].attempt = job.attempt
  OBVIOUS
<1> QED
  BY <1>1, <1>2, JobTyped DEF Steady

\* Jobs that are destroyed forget what they attempted.
LEMMA DestroyedSteady ==
  ASSUME InductiveInvariant, NEW S, jobs' = [j \in Jobs |-> IF j \in S THEN DestroyedJob(j) ELSE jobs[j]]
  PROVE  Steady
<1>1. \A j \in Jobs : DestroyedJob(j).attempt = 0
  BY DEF DestroyedJob, FreshJob
<1> QED
  BY <1>1, JobTyped DEF Steady

LEMMA BeginAttemptReplaysNothing ==
  ASSUME InductiveInvariant, InductiveInvariant', OrderInvariant, Delivery, FlowInvariant,
         NEW j \in Jobs, NEW outcome \in BeginOutcomes(jobs[j]),
         Apply(j, BeginAttempt(jobs[j], outcome)),
         xfer' = IF BeginAttempt(jobs[j], outcome).attached
                 THEN [xfer EXCEPT ![j] = [NoTransfer EXCEPT !.state = "open"]] ELSE xfer,
         ~jobs[j].finished, ~jobs[j].attached
  PROVE  NothingReplayed
<1> DEFINE job == BeginAttempt(jobs[j], outcome)
<1>1. /\ xfer \in [Jobs -> Transfers]
      /\ [NoTransfer EXCEPT !.state = "open"].state = "open"
      /\ ~[NoTransfer EXCEPT !.state = "open"].paused
  BY DEF InductiveInvariant, TypeOK, WorkerTypeOK, NoTransfer
<1>2. IF job.attached THEN xfer'[j].state = "open" /\ ~xfer'[j].paused ELSE xfer'[j] = xfer[j]
  BY <1>1
<1>3. DataBytes(InFlight, j) + Acked(j) = 0 /\ Passed(j) = 0
  <2>1. Going(jobs[j], xfer[j], Listening(j), DataBytes(InFlight, j), Acked(j), Passed(j),
              HeadersGiven(j))
    BY CurrentGoing
  <2> DEFINE y == xfer'[j]
  <2>2. IF job.attached THEN y.state = "open" /\ ~y.paused ELSE y = xfer[j]
    BY <1>2
  <2> HIDE DEF y
  <2> QED
    BY <2>1, <2>2, BeginAttemptAccounts
<1>4. log[j].bytesHandled + Outstanding(j) = 0
  <2>1. log[j].bytesHandled \in Nat /\ DataBytes(Undelivered, j) \in Nat
    BY AllTyped DEF Typed
  <2>2. Passed(j) = log[j].bytesHandled + DataBytes(Undelivered, j)
    BY DEF Passed
  <2>3. log[j].bytesHandled = 0
    BY <1>3, <2>1, <2>2
  <2>4. Outstanding(j) = DataBytes(InFlight, j) + Acked(j)
    BY DEF Outstanding, Acked
  <2> QED
    BY <1>3, <2>3, <2>4
<1>5. \A i \in Jobs \ {j} : jobs'[i] = jobs[i] /\ jobs[i].attempt \in Nat
  BY JobTyped DEF Apply
<1> QED
  BY <1>4, <1>5 DEF NothingReplayed

LEMMA BeginningReplaysNothing ==
  ASSUME InductiveInvariant, InductiveInvariant', OrderInvariant, Delivery, FlowInvariant,
         NEW j \in Jobs, WorkerStep(AdmitIncoming(j)) \/ WorkerStep(StartDueRetry(j))
  PROVE  NothingReplayed
<1>1. ~jobs[j].finished /\ ~jobs[j].attached
  BY DEF WorkerStep, AdmitIncoming, StartDueRetry, InductiveInvariant, JobsInvariant, JobPlaced,
         JobInvariant
<1> QED
  BY <1>1, BeginAttemptReplaysNothing DEF WorkerStep, AdmitIncoming, StartDueRetry

LEMMA CurlSteady ==
  ASSUME InductiveInvariant, NEW j \in Jobs,
         \/ \E status \in Statuses : WorkerStep(CurlHeaders(j, status))
         \/ WorkerStep(CurlTrailers(j))
         \/ \E total \in 1..MaxWrite :
              WorkerStep(CurlWrite(j, total)) \/ WorkerStep(CurlWriteStream(j, total))
         \/ WorkerStep(CurlProgress(j)) \/ WorkerStep(CurlDone(j))
  PROVE  Steady
<1>1. jobs[j] \in RestJobs /\ \A job : SameControl(job, jobs[j]) => job.attempt = jobs[j].attempt
  BY JobTyped DEF SameControl
<1>2. xfer[j].status \in Nat
  BY TransferFields
<1>3. ASSUME NEW status \in Statuses, WorkerStep(CurlHeaders(j, status)) PROVE Steady
  <2>1. status \in Nat
    BY TransferThreadAssumption
  <2>2. PICK redirected \in BOOLEAN : Apply(j, OnHeaderBlock(jobs[j], status, redirected))
    BY <1>3 DEF WorkerStep, CurlHeaders
  <2> QED
    BY <1>1, <2>1, <2>2, OnHeaderBlockEffect, MethodSteady
<1>4. ASSUME WorkerStep(CurlTrailers(j)) PROVE Steady
  <2>1. Apply(j, OnHeadersComplete(jobs[j], xfer[j].status, FALSE))
    BY <1>4 DEF WorkerStep, CurlTrailers
  <2> QED
    BY <1>1, <1>2, <2>1, OnHeadersCompleteEffect, MethodSteady
<1>5. ASSUME NEW total \in 1..MaxWrite, WorkerStep(CurlWrite(j, total)) PROVE Steady
  <2>1. total \in Nat
    BY TransferThreadAssumption
  <2>2. CASE Apply(j, WriteMemory(jobs[j], total))
    BY <1>1, <2>1, <2>2, WriteMemoryEffect, MethodSteady
  <2>3. ASSUME NEW written \in 0..total, Apply(j, WriteFile(jobs[j], written)) PROVE Steady
    <3>1. written \in Nat
      BY <2>1
    <3> QED
      BY <1>1, <2>3, <3>1, WriteFileEffect, MethodSteady
  <2> QED
    BY <1>5, <2>2, <2>3 DEF WorkerStep, CurlWrite
<1>6. ASSUME NEW total \in 1..MaxWrite, WorkerStep(CurlWriteStream(j, total)) PROVE Steady
  <2>1. total \in Nat
    BY TransferThreadAssumption
  <2>2. Apply(j, WriteStream(jobs[j], total))
    BY <1>6 DEF WorkerStep, CurlWriteStream
  <2> QED
    BY <1>1, <2>1, <2>2, WriteStreamEffect, MethodSteady
<1>7. ASSUME WorkerStep(CurlProgress(j)) PROVE Steady
  <2>1. Apply(j, PostProgress(jobs[j])) \/ UNCHANGED jobs
    BY <1>7 DEF WorkerStep, CurlProgress
  <2> QED
    BY <1>1, <2>1, PostProgressEffect, MethodSteady, StillSteady
<1>8. ASSUME WorkerStep(CurlDone(j)) PROVE Steady
  BY <1>8, StillSteady DEF WorkerStep, CurlDone
<1> QED
  BY <1>3, <1>4, <1>5, <1>6, <1>7, <1>8

LEMMA WorkerSteady ==
  ASSUME InductiveInvariant,
         \/ WorkerStep(ApplyConsumed) \/ WorkerStep(RemoveFinished)
         \/ \E j \in Jobs : WorkerStep(ApplyCancellation(j)) \/ WorkerStep(ReapCompleted(j))
         \/ WorkerStep((PostCheck \/ PostPush) /\ UNCHANGED workerVars)
         \/ WorkerStep(TakePending) \/ WorkerStep(ExitLoop)
         \/ WorkerStep(BeginPerform) \/ WorkerStep(EndPerform)
  PROVE  Steady
<1>1. ASSUME NEW j \in Jobs, WorkerStep(ApplyCancellation(j)) PROVE Steady
  <2>1. \/ ~jobs[j].finished /\ Apply(j, Cancel(jobs[j]))
        \/ UNCHANGED jobs
    BY <1>1 DEF WorkerStep, ApplyCancellation, FindActive
  <2> QED
    BY <2>1, JobTyped, CancelEffect, MethodSteady, StillSteady
<1>2. ASSUME NEW j \in Jobs, WorkerStep(ReapCompleted(j)) PROVE Steady
  <2>1. PICK renamed \in BOOLEAN :
          Apply(j, OnAttemptDone(jobs[j], xfer[j].code, xfer[j].status, renamed))
    BY <1>2 DEF WorkerStep, ReapCompleted
  <2>2. xfer[j].code \in CurlCode /\ xfer[j].status \in Nat
    BY TransferFields
  <2>3. ~jobs[j].finished
    <3>1. xfer[j].state # "none"
      BY <1>2 DEF WorkerStep, ReapCompleted
    <3> QED
      BY <3>1 DEF InductiveInvariant, JobsInvariant, JobPlaced, JobInvariant
  <2> DEFINE job == OnAttemptDone(jobs[j], xfer[j].code, xfer[j].status, renamed)
  <2>4. job.attempt = jobs[j].attempt
    BY <2>2, <2>3, JobTyped, OnAttemptDoneEffect
  <2>5. Apply(j, job)
    BY <2>1
  <2> HIDE DEF job
  <2> QED
    BY <2>4, <2>5, MethodSteady
<1>3. ASSUME WorkerStep(ApplyConsumed) PROVE Steady
  <2> DEFINE S == Jobs \X Nat
  <2>1. Head(taken.consumes) \in S
    <3>1. taken.consumes \in Seq(S) /\ taken.consumes # <<>>
      BY <1>3 DEF WorkerStep, ApplyConsumed, InductiveInvariant, TypeOK, WorkerTypeOK
    <3> HIDE DEF S
    <3> QED
      BY <3>1, HeadTailProperties
  <2>2. PICK j \in Jobs, bytes \in Nat :
          j = Head(taken.consumes)[1] /\ bytes = Head(taken.consumes)[2]
    BY <2>1
  <2>3. Apply(j, OnStreamConsumed(jobs[j], bytes)) \/ UNCHANGED jobs
    BY <1>3, <2>2 DEF WorkerStep, ApplyConsumed
  <2>4. jobs[j] \in RestJobs
    BY JobTyped
  <2>5. OnStreamConsumed(jobs[j], bytes).attempt = jobs[j].attempt
    BY <2>4, OnStreamConsumedEffect DEF SameControl
  <2> QED
    BY <2>3, <2>5, MethodSteady, StillSteady
<1>4. ASSUME WorkerStep(RemoveFinished) PROVE Steady
  BY <1>4, DestroyedSteady DEF WorkerStep, RemoveFinished
<1>5. ASSUME \/ WorkerStep((PostCheck \/ PostPush) /\ UNCHANGED workerVars)
             \/ WorkerStep(TakePending) \/ WorkerStep(ExitLoop)
             \/ WorkerStep(BeginPerform) \/ WorkerStep(EndPerform)
      PROVE  Steady
  BY <1>5, StillSteady DEF WorkerStep, TakePending, ExitLoop, BeginPerform, EndPerform, workerVars
<1> QED
  BY <1>1, <1>2, <1>3, <1>4, <1>5

LEMMA NextReplaysNothing ==
  InductiveInvariant /\ OrderInvariant /\ Delivery /\ FlowInvariant /\ [Next]_vars
    => NothingReplayed
<1> SUFFICES ASSUME InductiveInvariant, OrderInvariant, Delivery, FlowInvariant, [Next]_vars
             PROVE  NothingReplayed
  OBVIOUS
<1>0. InductiveInvariant'
  BY NextInvariant
<1>1. CASE WorkerNext
  <2>1. ASSUME NEW j \in Jobs, WorkerStep(AdmitIncoming(j)) \/ WorkerStep(StartDueRetry(j))
        PROVE  NothingReplayed
    BY <1>0, <2>1, BeginningReplaysNothing
  <2>2. Steady \/ \E j \in Jobs : WorkerStep(AdmitIncoming(j)) \/ WorkerStep(StartDueRetry(j))
    BY <1>1, CurlSteady, WorkerSteady DEF WorkerNext
  <2> QED
    BY <1>0, <2>1, <2>2, SteadyReplaysNothing
<1>2. CASE FinishUnload
  BY <1>0, <1>2, DestroyedSteady, SteadyReplaysNothing DEF FinishUnload
<1>3. CASE ~WorkerNext /\ ~FinishUnload
  <2>1. UNCHANGED jobs
    BY <1>3 DEF Next, Unloaded, vars, workerVars, unchangedByNatives,
                Natives, SubmitJob, CancelJob, OnHandleDestroy, CancelJobsForClient,
                OnPluginUnloaded, MainControl, OnGameFrame, SkipEvent, HandleIntermediate,
                HandleIntermediateUnheard, DispatchComplete, DispatchCompleteUnheard,
                ReturnFromCallback, EndFrame, StopWorker, BeginUnload
  <2> QED
    BY <1>0, <2>1, StillSteady, SteadyReplaysNothing
<1> QED
  BY <1>1, <1>2, <1>3

\* A stream begins another attempt only while nothing of it reached its plugin
\* or is on its way there: OnData never gets the beginning of a body twice
\* (RestJob::CanRetry, TransferThread::StartDueRetries).
THEOREM StreamsNotReplayed == Spec => StreamNotReplayed
<1>1. InductiveInvariant /\ OrderInvariant /\ Delivery /\ FlowInvariant /\ [Next]_vars
        => [\A j \in StreamJobs :
              jobs'[j].attempt > jobs[j].attempt => log[j].bytesHandled + Outstanding(j) = 0]_vars
  BY NextReplaysNothing, RestJobAssumption DEF NothingReplayed
<1> QED
  BY <1>1, InductiveInvariantHolds, EventsInOrder, DeliveryHolds, FlowHolds, PTL
     DEF Spec, StreamNotReplayed
=============================================================================
