------------------------- MODULE RestExtensionProofs --------------------------
(***************************************************************************)
(* Proofs about the request pipeline, for every value of the constants:    *)
(* InductiveInvariant is an invariant of Spec, and every step of Spec is a *)
(* step that RequestContract allows, or leaves what a plugin sees alone.   *)
(* A step in which the worker runs one method of one job is a JobStep,     *)
(* whatever the method; the steps of the main thread leave the jobs alone. *)
(***************************************************************************)
EXTENDS RestExtension, TLAPS

----------------------------------------------------------------------------
(* What the methods of a job return and preserve *)

\* The parts of a job's state that the worker and the main thread depend on.
SameControl(new, old) ==
  /\ new.id = old.id
  /\ new.attempt = old.attempt
  /\ new.attached = old.attached
  /\ new.waitingForRetry = old.waitingForRetry
  /\ new.finished = old.finished
  /\ new.cancelRequested = old.cancelRequested

LEMMA EventType ==
  ASSUME NEW kind \in EventKind, NEW id \in Jobs, NEW n \in Nat, NEW status \in RestStatus
  PROVE  Event(kind, id, n, status) \in TransferEvent
BY DEF Event, TransferEvent

LEMMA PostType ==
  ASSUME NEW job \in RestJobs, NEW event \in TransferEvent
  PROVE  /\ Post(job, event) \in RestJobs
         /\ SameControl(Post(job, event), job)
<1> DEFINE new == Post(job, event)
<1>1. Append(job.out, event) \in Seq(TransferEvent)
  BY DEF RestJobs
<1> QED
  BY <1>1 DEF Post, RestJobs, SameControl

LEMMA FinishEffect ==
  ASSUME NEW job \in RestJobs, NEW status \in RestStatus
  PROVE  LET new == Finish(job, status)
         IN  /\ new \in RestJobs
             /\ new.finished
             /\ new.id = job.id /\ new.attempt = job.attempt
             /\ new.attached = job.attached /\ new.cancelRequested = job.cancelRequested
             /\ ~job.finished => ~new.waitingForRetry
             /\ job.finished => new = job
<1>1. CASE job.finished
  BY <1>1 DEF Finish
<1>2. CASE ~job.finished
  <2> DEFINE ended == [job EXCEPT !.finished = TRUE, !.waitingForRetry = FALSE,
                                  !.responseBody = 0]
             event == Event("Complete", job.id, job.bodyLength, status)
  <2>1. ended \in RestJobs
    BY DEF RestJobs
  <2>2. event \in TransferEvent
    <3>1. job.id \in Jobs /\ job.bodyLength \in Nat
      BY DEF RestJobs
    <3> QED
      BY <3>1, EventType DEF EventKind
  <2>3. Finish(job, status) = Post(ended, event)
    BY <1>2 DEF Finish
  <2>4. /\ ended.id = job.id /\ ended.attempt = job.attempt /\ ended.attached = job.attached
        /\ ended.cancelRequested = job.cancelRequested
        /\ ended.finished /\ ~ended.waitingForRetry
    BY DEF RestJobs
  <2>5. Post(ended, event) \in RestJobs /\ SameControl(Post(ended, event), ended)
    BY <2>1, <2>2, PostType
  <2> HIDE DEF ended, event
  <2> QED
    BY <1>2, <2>3, <2>4, <2>5 DEF SameControl
<1> QED
  BY <1>1, <1>2

----------------------------------------------------------------------------
(* Attempts *)

LEMMA ResetAttemptStateEffect ==
  ASSUME NEW job \in RestJobs
  PROVE  LET new == ResetAttemptState(job)
         IN  /\ new \in RestJobs
             /\ new.id = job.id /\ new.attempt = job.attempt
             /\ new.attached = job.attached /\ new.finished = job.finished
             /\ new.cancelRequested = job.cancelRequested
             /\ ~new.waitingForRetry
BY DEF ResetAttemptState, RestJobs

LEMMA BeginAttemptEffect ==
  ASSUME NEW job \in RestJobs, JobInvariant(job),
         NEW outcome \in BeginOutcomes(job),
         ~job.finished, ~job.attached,
         job.attempt = 0 \/ job.waitingForRetry
  PROVE  LET new == BeginAttempt(job, outcome)
         IN  /\ new \in RestJobs
             /\ JobInvariant(new)
             /\ new.id = job.id
             /\ ~new.waitingForRetry
             /\ new.attached \/ new.finished
<1> DEFINE fresh == ResetAttemptState([job EXCEPT !.attempt = @ + 1])
           new   == BeginAttempt(job, outcome)
<1>1. /\ fresh \in RestJobs
      /\ fresh.id = job.id
      /\ fresh.attempt = job.attempt + 1
      /\ ~fresh.attached /\ ~fresh.finished /\ ~fresh.waitingForRetry
      /\ fresh.cancelRequested = job.cancelRequested
  <2> DEFINE counted == [job EXCEPT !.attempt = @ + 1]
  <2>1. /\ counted \in RestJobs /\ counted.id = job.id /\ counted.attempt = job.attempt + 1
        /\ counted.attached = job.attached /\ counted.finished = job.finished
        /\ counted.cancelRequested = job.cancelRequested
    BY DEF RestJobs
  <2>2. fresh = ResetAttemptState(counted)
    OBVIOUS
  <2> HIDE DEF counted, fresh
  <2> QED
    BY <2>1, <2>2, ResetAttemptStateEffect
<1>2. ~job.cancelRequested
  BY DEF JobInvariant
<1>3. fresh.attempt <= (IF MaxRetries > 0 THEN MaxRetries ELSE 0) + 1
  <2>1. job.attempt \in Nat /\ MaxRetries \in Int
    BY RestJobAssumption DEF RestJobs
  <2>2. job.attempt = 0 \/ job.attempt <= MaxRetries
    BY DEF JobInvariant
  <2> HIDE DEF fresh
  <2> QED
    BY <1>1, <2>1, <2>2
<1>4. \/ new = Finish(fresh, "NetworkError")
      \/ new = Finish(fresh, "IoError")
      \/ new = [fresh EXCEPT !.attached = TRUE]
  BY <1>1, <1>2 DEF BeginAttempt
<1>5. ASSUME NEW status \in RestStatus, new = Finish(fresh, status)
      PROVE  /\ new \in RestJobs /\ JobInvariant(new) /\ new.id = job.id
             /\ ~new.waitingForRetry /\ new.finished
  <2> HIDE DEF fresh, new
  <2> QED
    BY <1>1, <1>2, <1>3, <1>5, FinishEffect DEF JobInvariant
<1>6. ASSUME new = [fresh EXCEPT !.attached = TRUE]
      PROVE  /\ new \in RestJobs /\ JobInvariant(new) /\ new.id = job.id
             /\ ~new.waitingForRetry /\ new.attached
  <2> HIDE DEF fresh, new
  <2>1. /\ new \in RestJobs /\ new.id = job.id /\ new.attempt = fresh.attempt
        /\ new.attached /\ ~new.finished /\ ~new.waitingForRetry
        /\ ~new.cancelRequested
    BY <1>1, <1>2, <1>6 DEF RestJobs
  <2> QED
    BY <1>3, <2>1 DEF JobInvariant
<1> HIDE DEF fresh, new
<1>7. "NetworkError" \in RestStatus /\ "IoError" \in RestStatus
  BY DEF RestStatus
<1> QED
  BY <1>4, <1>5, <1>6, <1>7 DEF new

LEMMA CancelEffect ==
  ASSUME NEW job \in RestJobs, JobInvariant(job), ~job.finished
  PROVE  LET new == Cancel(job)
         IN  /\ new \in RestJobs
             /\ JobInvariant(new)
             /\ new.id = job.id /\ new.attempt = job.attempt
             /\ new.finished /\ ~new.attached /\ ~new.waitingForRetry
<1> DEFINE released == [job EXCEPT !.cancelRequested = TRUE, !.attached = FALSE]
<1>1. /\ released \in RestJobs /\ released.id = job.id /\ released.attempt = job.attempt
      /\ ~released.attached /\ ~released.finished
  BY DEF RestJobs
<1>2. "Cancelled" \in RestStatus
  BY DEF RestStatus
<1>3. Cancel(job) = Finish(released, "Cancelled")
  BY DEF Cancel
<1> HIDE DEF released
<1> QED
  BY <1>1, <1>2, <1>3, FinishEffect DEF JobInvariant

LEMMA ScheduleRetryEffect ==
  ASSUME NEW job \in RestJobs, ~job.finished, ~job.attached, ~job.cancelRequested,
         CanRetry(job)
  PROVE  LET new == ScheduleRetry(job)
         IN  /\ new \in RestJobs /\ new.id = job.id
             /\ new.waitingForRetry /\ ~new.finished /\ ~new.attached
             /\ ~new.cancelRequested
             /\ new.attempt = job.attempt /\ new.attempt <= MaxRetries
BY DEF ScheduleRetry, CanRetry, RestJobs

\* How an attempt may leave the job that its handlers are given.
Settled(new, job) ==
  /\ new \in RestJobs /\ new.id = job.id /\ new.attempt = job.attempt
  /\ ~new.attached
  /\ new.finished \/ new.waitingForRetry
  /\ new.finished => ~new.waitingForRetry
  /\ new.cancelRequested => new.finished
  /\ new.waitingForRetry => new.attempt <= MaxRetries

LEMMA FinishSettles ==
  ASSUME NEW job \in RestJobs, ~job.finished, ~job.attached, NEW status \in RestStatus
  PROVE  Settled(Finish(job, status), job)
BY FinishEffect DEF Settled

LEMMA RetrySettles ==
  ASSUME NEW job \in RestJobs, ~job.finished, ~job.attached, ~job.cancelRequested,
         CanRetry(job)
  PROVE  Settled(ScheduleRetry(job), job)
BY ScheduleRetryEffect DEF Settled

LEMMA FlushStreamEffect ==
  ASSUME NEW job \in RestJobs
  PROVE  FlushStream(job) \in RestJobs /\ SameControl(FlushStream(job), job)
<1>1. CASE job.streamBuffer = 0
  BY <1>1 DEF FlushStream, SameControl
<1>2. CASE job.streamBuffer # 0
  <2> DEFINE flushed == [job EXCEPT !.pendingStreamBytes = @ + job.streamBuffer,
                                    !.streamBuffer = 0]
             event == Event("Data", job.id, job.streamBuffer, "Ok")
  <2>1. flushed \in RestJobs /\ SameControl(flushed, job)
    <3>1. job.pendingStreamBytes + job.streamBuffer \in Nat
      BY DEF RestJobs
    <3> QED
      BY <3>1 DEF RestJobs, SameControl
  <2>2. event \in TransferEvent
    <3>1. job.id \in Jobs /\ job.streamBuffer \in Nat
      BY DEF RestJobs
    <3> QED
      BY <3>1, EventType DEF EventKind, RestStatus
  <2>3. FlushStream(job) = Post(flushed, event)
    BY <1>2 DEF FlushStream
  <2> HIDE DEF flushed, event
  <2> QED
    BY <2>1, <2>2, <2>3, PostType DEF SameControl
<1> QED
  BY <1>1, <1>2

LEMMA OnAttemptDoneEffect ==
  ASSUME NEW job \in RestJobs, JobInvariant(job), ~job.finished,
         NEW code \in CurlCode, NEW status \in Nat, NEW renamed \in BOOLEAN
  PROVE  LET new == OnAttemptDone(job, code, status, renamed)
         IN  /\ new \in RestJobs
             /\ JobInvariant(new)
             /\ new.id = job.id /\ new.attempt = job.attempt
             /\ ~new.attached
             /\ new.finished \/ new.waitingForRetry
<1> DEFINE released == [job EXCEPT !.attached = FALSE]
           new      == OnAttemptDone(job, code, status, renamed)
<1>1. /\ released \in RestJobs /\ released.id = job.id /\ released.attempt = job.attempt
      /\ ~released.attached /\ ~released.finished /\ ~released.cancelRequested
  BY DEF RestJobs, JobInvariant
<1>2. \/ new = HandleTransportFailure(released, code)
      \/ new = HandleHttpSuccess(released, renamed)
      \/ new = HandleHttpFailure(released, status)
  BY <1>1 DEF OnAttemptDone
<1> HIDE DEF released, new
<1>3. Settled(HandleTransportFailure(released, code), released)
  <2>1. \/ HandleTransportFailure(released, code) = ScheduleRetry(released) /\ CanRetry(released)
        \/ \E s \in RestStatus : HandleTransportFailure(released, code) = Finish(released, s)
    BY DEF HandleTransportFailure, RestStatus
  <2> QED
    BY <1>1, <2>1, FinishSettles, RetrySettles
<1>4. Settled(HandleHttpFailure(released, status), released)
  <2>1. \/ HandleHttpFailure(released, status) = ScheduleRetry(released) /\ CanRetry(released)
        \/ HandleHttpFailure(released, status) = Finish(released, "HttpError")
    BY DEF HandleHttpFailure
  <2> QED
    BY <1>1, <2>1, FinishSettles, RetrySettles DEF RestStatus
<1>5. Settled(HandleHttpSuccess(released, renamed), released)
  <2>1. \/ HandleHttpSuccess(released, renamed) = Finish(FlushStream(released), "Ok")
        \/ \E s \in RestStatus : HandleHttpSuccess(released, renamed) = Finish(released, s)
    BY DEF HandleHttpSuccess, RestStatus
  <2>2. FlushStream(released) \in RestJobs /\ SameControl(FlushStream(released), released)
    BY <1>1, FlushStreamEffect
  <2>3. Settled(Finish(FlushStream(released), "Ok"), FlushStream(released))
    BY <1>1, <2>2, FinishSettles DEF SameControl, RestStatus
  <2> QED
    BY <1>1, <2>1, <2>2, <2>3, FinishSettles DEF SameControl, Settled
<1>6. Settled(new, released)
  BY <1>2, <1>3, <1>4, <1>5
<1>7. new.attempt <= (IF MaxRetries > 0 THEN MaxRetries ELSE 0) + 1
  BY <1>1, <1>6 DEF Settled, JobInvariant
<1> QED
  BY <1>1, <1>6, <1>7 DEF Settled, JobInvariant, new

----------------------------------------------------------------------------
(* Receiving *)

LEMMA SameControlKeepsInvariant ==
  ASSUME NEW job \in RestJobs, NEW new \in RestJobs, SameControl(new, job), JobInvariant(job)
  PROVE  JobInvariant(new)
BY DEF SameControl, JobInvariant

LEMMA OnHeadersCompleteEffect ==
  ASSUME NEW job \in RestJobs, NEW status \in Nat, NEW redirected \in BOOLEAN
  PROVE  LET new == OnHeadersComplete(job, status, redirected)
         IN  new \in RestJobs /\ SameControl(new, job)
<1> DEFINE posted == [job EXCEPT !.headersPosted = TRUE]
           event  == Event("Headers", job.id, 0, "Ok")
<1>1. posted \in RestJobs /\ SameControl(posted, job)
  BY DEF RestJobs, SameControl
<1>2. event \in TransferEvent
  <2>1. job.id \in Jobs
    BY DEF RestJobs
  <2> QED
    BY <2>1, EventType DEF EventKind, RestStatus
<1>3. OnHeadersComplete(job, status, redirected) \in {job, Post(posted, event)}
  BY DEF OnHeadersComplete
<1> HIDE DEF posted, event
<1> QED
  BY <1>1, <1>2, <1>3, PostType DEF SameControl

LEMMA OnHeaderBlockEffect ==
  ASSUME NEW job \in RestJobs, NEW status \in Nat, NEW redirected \in BOOLEAN
  PROVE  LET new == OnHeaderBlock(job, status, redirected)
         IN  new \in RestJobs /\ SameControl(new, job)
<1> DEFINE started == [job EXCEPT !.headersPosted = FALSE]
<1>1. started \in RestJobs /\ SameControl(started, job)
  BY DEF RestJobs, SameControl
<1>2. OnHeaderBlock(job, status, redirected) = OnHeadersComplete(started, status, redirected)
  BY DEF OnHeaderBlock
<1> HIDE DEF started
<1> QED
  BY <1>1, <1>2, OnHeadersCompleteEffect DEF SameControl

LEMMA WriteMemoryEffect ==
  ASSUME NEW job \in RestJobs, NEW total \in Nat
  PROVE  LET new == WriteMemory(job, total)
         IN  new \in RestJobs /\ SameControl(new, job)
<1>1. Room(job) \in Nat
  BY RestJobAssumption DEF Room, RestJobs
<1> DEFINE kept == IF total <= Room(job) THEN total ELSE Room(job)
<1>2. CASE total > Room(job) /\ IsPrimary(job)
  BY <1>2 DEF WriteMemory, RestJobs, SameControl
<1>3. CASE ~(total > Room(job) /\ IsPrimary(job))
  <2>1. job.responseBody + kept \in Nat /\ job.bodyLength + total \in Nat
    BY <1>1 DEF RestJobs
  <2>2. WriteMemory(job, total) =
          [job EXCEPT !.responseBody = @ + kept, !.bodyLength = @ + total]
    BY <1>3 DEF WriteMemory
  <2> HIDE DEF kept
  <2> QED
    BY <2>1, <2>2 DEF RestJobs, SameControl
<1> QED
  BY <1>2, <1>3

LEMMA WriteFileEffect ==
  ASSUME NEW job \in RestJobs, NEW written \in Nat
  PROVE  LET new == WriteFile(job, written)
         IN  new \in RestJobs /\ SameControl(new, job)
<1>1. job.bodyLength + written \in Nat
  BY DEF RestJobs
<1>2. WriteFile(job, written) = [job EXCEPT !.bodyLength = @ + written]
  BY DEF WriteFile
<1> QED
  BY <1>1, <1>2 DEF RestJobs, SameControl

LEMMA WriteStreamEffect ==
  ASSUME NEW job \in RestJobs, NEW total \in Nat
  PROVE  LET new == WriteStream(job, total)
         IN  new \in RestJobs /\ SameControl(new, job)
<1> DEFINE held     == [job EXCEPT !.paused = TRUE]
           buffered == [job EXCEPT !.streamBuffer = @ + total, !.bodyLength = @ + total]
<1>1. held \in RestJobs /\ SameControl(held, job)
  BY DEF RestJobs, SameControl
<1>2. buffered \in RestJobs /\ SameControl(buffered, job)
  <2>1. job.streamBuffer + total \in Nat /\ job.bodyLength + total \in Nat
    BY DEF RestJobs
  <2> QED
    BY <2>1 DEF RestJobs, SameControl
<1>3. WriteStream(job, total) \in {held, buffered, FlushStream(buffered)}
  BY DEF WriteStream
<1> HIDE DEF held, buffered
<1> QED
  BY <1>1, <1>2, <1>3, FlushStreamEffect DEF SameControl

LEMMA PostProgressEffect ==
  ASSUME NEW job \in RestJobs
  PROVE  PostProgress(job) \in RestJobs /\ SameControl(PostProgress(job), job)
<1>1. Event("Progress", job.id, 0, "Ok") \in TransferEvent
  <2>1. job.id \in Jobs
    BY DEF RestJobs
  <2> QED
    BY <2>1, EventType DEF EventKind, RestStatus
<1> QED
  BY <1>1, PostType DEF PostProgress

LEMMA OnStreamConsumedEffect ==
  ASSUME NEW job \in RestJobs, NEW bytes \in Nat
  PROVE  LET new == OnStreamConsumed(job, bytes)
         IN  new \in RestJobs /\ SameControl(new, job)
<1> DEFINE acked == Acknowledged(job, bytes)
<1>1. acked \in RestJobs /\ SameControl(acked, job)
  BY DEF Acknowledged, RestJobs, SameControl
<1>2. (job.paused /\ ~Resumes(job, bytes)) \in BOOLEAN
  OBVIOUS
<1>3. OnStreamConsumed(job, bytes) = [acked EXCEPT !.paused = job.paused /\ ~Resumes(job, bytes)]
  BY DEF OnStreamConsumed
<1> HIDE DEF acked
<1> QED
  BY <1>1, <1>2, <1>3 DEF RestJobs, SameControl

----------------------------------------------------------------------------
(* The initial state *)

USE RestJobAssumption, TransferThreadAssumption, RestExtensionAssumption

LEMMA FreshJobOK ==
  ASSUME NEW j \in Jobs
  PROVE  /\ FreshJob(j) \in RestJobs /\ DestroyedJob(j) \in RestJobs
         /\ FreshJob(j).id = j /\ DestroyedJob(j).id = j
         /\ FreshJob(j).attempt = 0
         /\ ~FreshJob(j).attached /\ ~FreshJob(j).finished
         /\ ~DestroyedJob(j).attached /\ DestroyedJob(j).finished
         /\ ~DestroyedJob(j).waitingForRetry
         /\ JobInvariant(FreshJob(j)) /\ JobInvariant(DestroyedJob(j))
         /\ ~FreshJob(j).waitingForRetry
<1>1. <<>> \in Seq(TransferEvent)
  OBVIOUS
<1>2. /\ FreshJob(j) \in RestJobs
      /\ FreshJob(j).id = j /\ FreshJob(j).attempt = 0
      /\ ~FreshJob(j).attached /\ ~FreshJob(j).finished
      /\ ~FreshJob(j).waitingForRetry /\ ~FreshJob(j).cancelRequested
  BY <1>1 DEF FreshJob, RestJobs
<1>3. /\ DestroyedJob(j) \in RestJobs
      /\ DestroyedJob(j).id = j /\ DestroyedJob(j).attempt = 0
      /\ ~DestroyedJob(j).attached /\ DestroyedJob(j).finished
      /\ ~DestroyedJob(j).waitingForRetry
  BY <1>2 DEF DestroyedJob, RestJobs
<1> QED
  BY <1>2, <1>3 DEF JobInvariant

LEMMA NoTransferType == NoTransfer \in Transfers /\ NoTransfer.state = "none"
BY DEF NoTransfer, Transfers, CurlCode

LEMMA NothingTakenType ==
  /\ NothingTaken \in [incoming : SUBSET Jobs, cancels : SUBSET Jobs, consumes : Seq(Jobs \X Nat)]
  /\ NothingTaken.incoming = {} /\ NothingTaken.cancels = {}
BY DEF NothingTaken

LEMMA InitInvariant == Init => InductiveInvariant
<1> SUFFICES ASSUME Init PROVE InductiveInvariant
  OBVIOUS
<1> USE DEF Init, QueueInit, WorkerInit
<1>1. QueueTypeOK
  <2>1. <<>> \in Seq(TransferEvent)
    OBVIOUS
  <2> QED
    BY <2>1 DEF QueueTypeOK
<1>2. WorkerTypeOK
  <2>1. jobs \in [Jobs -> RestJobs] /\ xfer \in [Jobs -> Transfers]
    BY FreshJobOK, NoTransferType
  <2> QED
    BY <2>1, NothingTakenType DEF WorkerTypeOK, WorkerPhase
<1>3. RecordTypeOK
  BY DEF RecordTypeOK, RecordState, MainPhase, Log, Outcome
<1>4. JobsInvariant
  <2> SUFFICES ASSUME NEW j \in Jobs PROVE JobPlaced(j)
    BY DEF JobsInvariant
  <2>1. /\ jobs[j] = FreshJob(j) /\ xfer[j] = NoTransfer /\ taken = NothingTaken
        /\ incoming = {} /\ cancelRequests = {} /\ active = {} /\ nextJobId = 1
    OBVIOUS
  <2> HIDE DEF Init, WorkerInit, QueueInit
  <2>2. j \in Nat /\ j >= 1
    BY DEF Jobs
  <2> QED
    BY <2>1, <2>2, FreshJobOK, NoTransferType, NothingTakenType DEF JobPlaced
<1>5. WorkerInvariant
  BY DEF WorkerInvariant, Posted
<1>6. MainInvariant
  BY DEF MainInvariant, RecordPlaced, Found, Jobs
<1>7. CancelNeverLost
  BY DEF CancelNeverLost
<1>8. UnloadedClean
  BY DEF UnloadedClean
<1> QED
  BY <1>1, <1>2, <1>3, <1>4, <1>5, <1>6, <1>7, <1>8 DEF InductiveInvariant, TypeOK

----------------------------------------------------------------------------
(* A method of a job runs on the worker thread *)

\* The worker ran a method of j, which is in its hands before and after, and
\* left the job as job and its easy handle as transfer.
JobStep(j, job, transfer) ==
  /\ Posted
  /\ wpc \in {"apply", "perform", "reap"}
  /\ Apply(j, job)
  /\ xfer' = [xfer EXCEPT ![j] = transfer]
  /\ active' = active \cup {j}
  /\ taken' \in [incoming : SUBSET Jobs, cancels : SUBSET Jobs, consumes : Seq(Jobs \X Nat)]
  /\ taken'.incoming = taken.incoming \ {j}
  /\ \/ taken'.cancels = taken.cancels
     \/ taken'.cancels = taken.cancels \ {j} /\ job.finished
  /\ resuming' \in Jobs \cup {0}
  /\ wpc = "apply" \/ (taken' = taken /\ resuming' = resuming)
  /\ UNCHANGED <<running, mailbox, wpc, mainVars>>

LEMMA JobStepInvariant ==
  ASSUME InductiveInvariant,
         NEW j \in Jobs, NEW job \in RestJobs, NEW transfer \in Transfers,
         JobStep(j, job, transfer),
         j \in active \cup taken.incoming,
         job.id = j,
         JobInvariant(job),
         jobs[j].finished => job.finished,
         transfer.state # "none" <=> job.attached
  PROVE  InductiveInvariant'
<1> USE DEF InductiveInvariant, JobStep
<1> DEFINE kept == [job EXCEPT !.out = <<>>]
<1>1. /\ kept \in RestJobs /\ kept.id = j
      /\ kept.attempt = job.attempt /\ kept.attached = job.attached
      /\ kept.waitingForRetry = job.waitingForRetry /\ kept.finished = job.finished
      /\ kept.cancelRequested = job.cancelRequested
      /\ JobInvariant(kept)
  <2>1. <<>> \in Seq(TransferEvent)
    OBVIOUS
  <2>2. kept \in RestJobs /\ SameControl(kept, job)
    BY <2>1 DEF RestJobs, SameControl
  <2> HIDE DEF kept
  <2> QED
    BY <2>2, SameControlKeepsInvariant DEF SameControl
<1>2. /\ jobs' = [jobs EXCEPT ![j] = kept]
      /\ outbox' = job.out /\ UNCHANGED <<events, enabled, checked>>
  BY DEF Apply
<1> HIDE DEF kept
<1>3. /\ jobs \in [Jobs -> RestJobs] /\ xfer \in [Jobs -> Transfers]
      /\ active \subseteq Jobs
  BY DEF TypeOK, WorkerTypeOK
<1>4. QueueTypeOK'
  BY <1>2 DEF TypeOK, QueueTypeOK, RestJobs
<1>5. WorkerTypeOK'
  BY <1>1, <1>2, <1>3 DEF TypeOK, WorkerTypeOK, mailbox
<1>6. RecordTypeOK'
  BY DEF TypeOK, RecordTypeOK, mainVars
<1>7. JobsInvariant'
  <2> SUFFICES ASSUME NEW i \in Jobs PROVE JobPlaced(i)'
    BY DEF JobsInvariant
  <2>1. JobPlaced(i) /\ JobPlaced(j)
    BY DEF JobsInvariant
  <2>2. UNCHANGED <<incoming, cancelRequests, nextJobId>>
    BY DEF mailbox, mainVars
  <2>3. CASE i = j
    <3>1. jobs'[i] = kept /\ xfer'[i] = transfer
      BY <1>2, <1>3, <2>3
    <3>2. j < nextJobId /\ j \notin incoming /\ ~(j >= nextJobId)
      <4>1. j \in Int /\ nextJobId \in Int
        BY DEF TypeOK, RecordTypeOK, Jobs
      <4> QED
        BY <2>1, <4>1 DEF JobPlaced
    <3> QED
      BY <1>1, <2>1, <2>2, <2>3, <3>1, <3>2 DEF JobPlaced
  <2>4. CASE i # j
    <3>1. jobs'[i] = jobs[i] /\ xfer'[i] = xfer[i]
      BY <1>2, <1>3, <2>4
    <3> QED
      BY <2>1, <2>2, <2>4, <3>1 DEF JobPlaced
  <2> QED
    BY <2>3, <2>4
<1>8. WorkerInvariant'
  BY <1>2 DEF WorkerInvariant, Posted
<1>9. MainInvariant'
  BY DEF MainInvariant, RecordPlaced, Found, NextEvent, mainVars
<1>10. CancelNeverLost'
  <2> SUFFICES ASSUME NEW i \in Jobs, (log[i].cancelled \/ log[i].outcome = "dropped")'
               PROVE  (i \in cancelRequests \/ i \in taken.cancels \/ jobs[i].finished)'
    BY DEF CancelNeverLost
  <2>1. i \in cancelRequests \/ i \in taken.cancels \/ jobs[i].finished
    BY DEF CancelNeverLost, mainVars
  <2>2. jobs[i].finished => jobs'[i].finished
    BY <1>1, <1>2, <1>3
  <2>3. i = j /\ job.finished => jobs'[i].finished
    BY <1>1, <1>2, <1>3
  <2> QED
    BY <2>1, <2>2, <2>3 DEF mailbox
<1>11. UnloadedClean'
  BY DEF UnloadedClean, mainVars
<1> QED
  BY <1>4, <1>5, <1>6, <1>7, <1>8, <1>9, <1>10, <1>11 DEF TypeOK

\* A callback of curl that changes neither where the job is nor its phase.
CurlStep(j, job, transfer) ==
  /\ Posted
  /\ wpc \in {"apply", "perform", "reap"}
  /\ Apply(j, job)
  /\ xfer' = [xfer EXCEPT ![j] = transfer]
  /\ UNCHANGED <<running, mailbox, active, wpc, taken, resuming, mainVars>>

LEMMA CurlStepInvariant ==
  ASSUME InductiveInvariant,
         NEW j \in Jobs, NEW job \in RestJobs, NEW transfer \in Transfers,
         CurlStep(j, job, transfer),
         xfer[j].state # "none", transfer.state # "none",
         SameControl(job, jobs[j])
  PROVE  InductiveInvariant'
<1>1. JobPlaced(j) /\ jobs[j] \in RestJobs
  BY DEF InductiveInvariant, JobsInvariant, TypeOK, WorkerTypeOK
<1>2. /\ jobs[j].attached /\ j \in active
      /\ j \notin taken.incoming
  BY <1>1 DEF JobPlaced
<1>3. job.id = j /\ JobInvariant(job) /\ job.attached /\ job.finished = jobs[j].finished
  BY <1>1, <1>2, SameControlKeepsInvariant DEF SameControl, JobPlaced
<1>4. taken \in [incoming : SUBSET Jobs, cancels : SUBSET Jobs, consumes : Seq(Jobs \X Nat)]
      /\ resuming \in Jobs \cup {0}
  BY DEF InductiveInvariant, TypeOK, WorkerTypeOK
<1>5. JobStep(j, job, transfer)
  BY <1>2, <1>4 DEF JobStep, CurlStep
<1> QED
  BY <1>2, <1>3, <1>5, JobStepInvariant

LEMMA UnchangedTransfer ==
  ASSUME InductiveInvariant, NEW j \in Jobs
  PROVE  xfer[j] \in Transfers /\ xfer = [xfer EXCEPT ![j] = xfer[j]]
BY DEF InductiveInvariant, TypeOK, WorkerTypeOK

LEMMA OpenedTransfer ==
  LET opened == [NoTransfer EXCEPT !.state = "open"]
  IN  opened \in Transfers /\ opened.state # "none"
BY NoTransferType DEF Transfers

\* The beginning of an attempt, by AdmitIncoming or by StartDueRetry.
LEMMA BeginAttemptTransfer ==
  ASSUME InductiveInvariant, NEW j \in Jobs,
         \/ jobs[j].attempt = 0 /\ ~jobs[j].attached /\ ~jobs[j].finished
         \/ jobs[j].waitingForRetry,
         NEW outcome \in BeginOutcomes(jobs[j]),
         xfer' = IF BeginAttempt(jobs[j], outcome).attached
                 THEN [xfer EXCEPT ![j] = [NoTransfer EXCEPT !.state = "open"]]
                 ELSE xfer
  PROVE  LET job == BeginAttempt(jobs[j], outcome)
         IN  /\ job \in RestJobs /\ job.id = j /\ JobInvariant(job)
             /\ ~jobs[j].finished
             /\ \E transfer \in Transfers :
                  /\ xfer' = [xfer EXCEPT ![j] = transfer]
                  /\ transfer.state # "none" <=> job.attached
<1> DEFINE job == BeginAttempt(jobs[j], outcome)
<1>1. JobPlaced(j) /\ jobs[j] \in RestJobs
  BY DEF InductiveInvariant, JobsInvariant, TypeOK, WorkerTypeOK
<1>2. JobInvariant(jobs[j]) /\ jobs[j].id = j /\ ~jobs[j].attached /\ ~jobs[j].finished
      /\ xfer[j].state = "none"
  BY <1>1 DEF JobPlaced, JobInvariant
<1>3. job \in RestJobs /\ JobInvariant(job) /\ job.id = j
  BY <1>1, <1>2, BeginAttemptEffect
<1>4. CASE job.attached
  BY <1>2, <1>3, <1>4, OpenedTransfer
<1>5. CASE ~job.attached
  BY <1>2, <1>3, <1>5, UnchangedTransfer
<1> QED
  BY <1>4, <1>5

LEMMA AdmitIncomingInvariant ==
  ASSUME InductiveInvariant, NEW j \in Jobs, WorkerStep(AdmitIncoming(j))
  PROVE  InductiveInvariant'
<1> USE DEF WorkerStep, AdmitIncoming
<1>1. PICK outcome \in BeginOutcomes(jobs[j]) :
        /\ Apply(j, BeginAttempt(jobs[j], outcome))
        /\ xfer' = IF BeginAttempt(jobs[j], outcome).attached
                   THEN [xfer EXCEPT ![j] = [NoTransfer EXCEPT !.state = "open"]]
                   ELSE xfer
  OBVIOUS
<1>2. jobs[j].attempt = 0 /\ ~jobs[j].attached /\ ~jobs[j].finished
  BY DEF InductiveInvariant, JobsInvariant, JobPlaced
<1> DEFINE job == BeginAttempt(jobs[j], outcome)
<1>3. PICK transfer \in Transfers :
        /\ xfer' = [xfer EXCEPT ![j] = transfer]
        /\ transfer.state # "none" <=> job.attached
  BY <1>1, <1>2, BeginAttemptTransfer
<1>4. job \in RestJobs /\ job.id = j /\ JobInvariant(job)
  BY <1>1, <1>2, BeginAttemptTransfer
<1>5. /\ taken' \in [incoming : SUBSET Jobs, cancels : SUBSET Jobs, consumes : Seq(Jobs \X Nat)]
      /\ taken'.incoming = taken.incoming \ {j}
      /\ taken'.cancels = taken.cancels
      /\ resuming \in Jobs \cup {0}
  BY DEF InductiveInvariant, TypeOK, WorkerTypeOK
<1>6. JobStep(j, job, transfer)
  BY <1>1, <1>3, <1>5 DEF JobStep
<1> QED
  BY <1>2, <1>3, <1>4, <1>6, JobStepInvariant

LEMMA StartDueRetryInvariant ==
  ASSUME InductiveInvariant, NEW j \in Jobs, WorkerStep(StartDueRetry(j))
  PROVE  InductiveInvariant'
<1> USE DEF WorkerStep, StartDueRetry
<1>1. PICK outcome \in BeginOutcomes(jobs[j]) :
        /\ Apply(j, BeginAttempt(jobs[j], outcome))
        /\ xfer' = IF BeginAttempt(jobs[j], outcome).attached
                   THEN [xfer EXCEPT ![j] = [NoTransfer EXCEPT !.state = "open"]]
                   ELSE xfer
  OBVIOUS
<1> DEFINE job == BeginAttempt(jobs[j], outcome)
<1>2. PICK transfer \in Transfers :
        /\ xfer' = [xfer EXCEPT ![j] = transfer]
        /\ transfer.state # "none" <=> job.attached
  BY <1>1, BeginAttemptTransfer
<1>3. job \in RestJobs /\ job.id = j /\ JobInvariant(job) /\ ~jobs[j].finished
  BY <1>1, BeginAttemptTransfer
<1>4. /\ taken \in [incoming : SUBSET Jobs, cancels : SUBSET Jobs, consumes : Seq(Jobs \X Nat)]
      /\ taken.incoming = {}
  BY NothingTakenType DEF InductiveInvariant, TypeOK, WorkerTypeOK, PendingApplied
<1>5. JobStep(j, job, transfer)
  BY <1>1, <1>2, <1>4 DEF JobStep
<1> QED
  BY <1>2, <1>3, <1>5, JobStepInvariant

LEMMA ReapCompletedInvariant ==
  ASSUME InductiveInvariant, NEW j \in Jobs, WorkerStep(ReapCompleted(j))
  PROVE  InductiveInvariant'
<1> USE DEF WorkerStep, ReapCompleted
<1>1. PICK renamed \in BOOLEAN :
        LET job == OnAttemptDone(jobs[j], xfer[j].code, xfer[j].status, renamed)
        IN  Apply(j, job) /\ Release(j, job)
  OBVIOUS
<1> DEFINE job == OnAttemptDone(jobs[j], xfer[j].code, xfer[j].status, renamed)
<1>2. JobPlaced(j) /\ jobs[j] \in RestJobs /\ xfer[j] \in Transfers
  BY DEF InductiveInvariant, JobsInvariant, TypeOK, WorkerTypeOK
<1>3. /\ JobInvariant(jobs[j]) /\ jobs[j].id = j /\ jobs[j].attached /\ ~jobs[j].finished
      /\ j \in active
  BY <1>2 DEF JobPlaced, JobInvariant
<1>4. xfer[j].code \in CurlCode /\ xfer[j].status \in Nat
  <2>1. xfer[j].code \in CurlCode /\ xfer[j].status \in Statuses \cup {0}
    BY <1>2 DEF Transfers
  <2>2. Statuses \cup {0} \subseteq Nat
    BY TransferThreadAssumption
  <2> QED
    BY <2>1, <2>2
<1>5. job \in RestJobs /\ JobInvariant(job) /\ job.id = j /\ ~job.attached
  BY <1>2, <1>3, <1>4, OnAttemptDoneEffect
<1>6. xfer' = [xfer EXCEPT ![j] = NoTransfer]
  BY <1>1, <1>5 DEF Release
<1>7. /\ taken \in [incoming : SUBSET Jobs, cancels : SUBSET Jobs, consumes : Seq(Jobs \X Nat)]
      /\ taken.incoming = {}
      /\ resuming \in Jobs \cup {0}
  BY NothingTakenType DEF InductiveInvariant, TypeOK, WorkerTypeOK, WorkerInvariant
<1>8. JobStep(j, job, NoTransfer)
  BY <1>1, <1>3, <1>6, <1>7 DEF JobStep
<1> HIDE DEF job
<1> QED
  BY <1>3, <1>5, <1>8, NoTransferType, JobStepInvariant

\* The worker drops one of the requests it took, without a job to apply it to.
LEMMA ForgottenRequestInvariant ==
  ASSUME InductiveInvariant, NEW j \in Jobs,
         wpc = "apply",
         taken' \in [incoming : SUBSET Jobs, cancels : SUBSET Jobs, consumes : Seq(Jobs \X Nat)],
         taken'.incoming = taken.incoming,
         \/ taken'.cancels = taken.cancels
         \/ taken'.cancels = taken.cancels \ {j} /\ (j \in taken.cancels => jobs[j].finished),
         resuming' \in Jobs \cup {0},
         UNCHANGED <<running, mailbox, active, jobs, xfer, wpc, queueVars, mainVars>>
  PROVE  InductiveInvariant'
<1> USE DEF InductiveInvariant
<1>1. TypeOK'
  BY DEF TypeOK, RecordTypeOK, WorkerTypeOK, QueueTypeOK, mailbox, queueVars, mainVars
<1>2. JobsInvariant'
  <2> SUFFICES ASSUME NEW i \in Jobs PROVE JobPlaced(i)'
    BY DEF JobsInvariant
  <2> QED
    BY DEF JobsInvariant, JobPlaced, mailbox, mainVars
<1>3. WorkerInvariant'
  BY DEF WorkerInvariant, Posted, queueVars
<1>4. MainInvariant'
  BY DEF MainInvariant, RecordPlaced, Found, NextEvent, mainVars
<1>5. CancelNeverLost'
  BY DEF CancelNeverLost, mailbox, mainVars
<1>6. UnloadedClean'
  BY DEF UnloadedClean, mainVars
<1> QED
  BY <1>1, <1>2, <1>3, <1>4, <1>5, <1>6

LEMMA ApplyCancellationInvariant ==
  ASSUME InductiveInvariant, NEW j \in Jobs, WorkerStep(ApplyCancellation(j))
  PROVE  InductiveInvariant'
<1> USE DEF WorkerStep, ApplyCancellation
<1>1. JobPlaced(j) /\ jobs[j] \in RestJobs
  BY DEF InductiveInvariant, JobsInvariant, TypeOK, WorkerTypeOK
<1>2. /\ taken' \in [incoming : SUBSET Jobs, cancels : SUBSET Jobs, consumes : Seq(Jobs \X Nat)]
      /\ taken'.incoming = {} /\ taken.incoming = {}
      /\ taken'.cancels = taken.cancels \ {j}
      /\ resuming \in Jobs \cup {0}
  BY DEF InductiveInvariant, TypeOK, WorkerTypeOK
<1>3. CASE FindActive(j)
  <2> DEFINE job == Cancel(jobs[j])
  <2>1. j \in active /\ ~jobs[j].finished /\ JobInvariant(jobs[j]) /\ jobs[j].id = j
    BY <1>1, <1>3 DEF FindActive, JobPlaced
  <2>2. job \in RestJobs /\ JobInvariant(job) /\ job.id = j /\ job.finished /\ ~job.attached
    BY <1>1, <2>1, CancelEffect
  <2>3. Apply(j, job) /\ xfer' = [xfer EXCEPT ![j] = NoTransfer]
    BY <1>3, <2>2 DEF Release
  <2> HIDE DEF job
  <2>4. JobStep(j, job, NoTransfer)
    BY <1>2, <2>1, <2>2, <2>3 DEF JobStep
  <2> QED
    BY <2>1, <2>2, <2>4, NoTransferType, JobStepInvariant
<1>4. CASE ~FindActive(j)
  <2>1. j \in taken.cancels => jobs[j].finished
    BY <1>1, <1>2, <1>4 DEF FindActive, JobPlaced
  <2> QED
    BY <1>2, <1>4, <2>1, ForgottenRequestInvariant DEF mailbox
<1> QED
  BY <1>3, <1>4

LEMMA ApplyConsumedInvariant ==
  ASSUME InductiveInvariant, WorkerStep(ApplyConsumed)
  PROVE  InductiveInvariant'
<1> USE DEF WorkerStep, ApplyConsumed
<1> DEFINE j     == Head(taken.consumes)[1]
           bytes == Head(taken.consumes)[2]
<1>1. taken \in [incoming : SUBSET Jobs, cancels : SUBSET Jobs, consumes : Seq(Jobs \X Nat)]
  BY DEF InductiveInvariant, TypeOK, WorkerTypeOK
<1>2. Head(taken.consumes) \in Jobs \X Nat /\ Tail(taken.consumes) \in Seq(Jobs \X Nat)
  BY <1>1
<1>3. j \in Jobs /\ bytes \in Nat
  BY <1>2
<1>4. /\ taken' \in [incoming : SUBSET Jobs, cancels : SUBSET Jobs, consumes : Seq(Jobs \X Nat)]
      /\ taken'.incoming = {} /\ taken.incoming = {} /\ taken'.cancels = taken.cancels
  BY <1>1, <1>2
<1>5. JobPlaced(j) /\ jobs[j] \in RestJobs /\ xfer[j] \in Transfers
  BY <1>3 DEF InductiveInvariant, JobsInvariant, TypeOK, WorkerTypeOK
<1>6. CASE FindActive(j)
  <2> DEFINE job      == OnStreamConsumed(jobs[j], bytes)
             transfer == IF Resumes(jobs[j], bytes) THEN [xfer[j] EXCEPT !.paused = FALSE]
                         ELSE xfer[j]
  <2>1. /\ Apply(j, job)
        /\ IF Resumes(jobs[j], bytes)
           THEN xfer' = [xfer EXCEPT ![j].paused = FALSE] /\ resuming' = j
           ELSE UNCHANGED xfer /\ resuming' = 0
    BY <1>6
  <2>2. resuming' \in Jobs \cup {0}
    BY <1>3, <2>1
  <2>3. transfer \in Transfers /\ transfer.state = xfer[j].state
    BY <1>5 DEF Transfers
  <2>4. xfer' = [xfer EXCEPT ![j] = transfer]
    <3>1. xfer = [xfer EXCEPT ![j] = xfer[j]]
      BY <1>3, UnchangedTransfer
    <3> QED
      BY <2>1, <3>1
  <2>5. job \in RestJobs /\ SameControl(job, jobs[j])
    BY <1>3, <1>5, OnStreamConsumedEffect
  <2>6. job.id = j /\ JobInvariant(job) /\ job.attached = jobs[j].attached
        /\ job.finished = jobs[j].finished
    BY <1>5, <2>5, SameControlKeepsInvariant DEF SameControl, JobPlaced
  <2>7. transfer.state # "none" <=> job.attached
    BY <1>5, <2>3, <2>6 DEF JobPlaced
  <2>8. j \in active
    BY <1>6 DEF FindActive
  <2> HIDE DEF job, transfer
  <2>9. JobStep(j, job, transfer)
    BY <1>4, <2>1, <2>2, <2>4, <2>8 DEF JobStep
  <2> QED
    BY <1>3, <2>3, <2>5, <2>6, <2>7, <2>8, <2>9, JobStepInvariant
<1>7. CASE ~FindActive(j)
  BY <1>3, <1>4, <1>7, ForgottenRequestInvariant DEF mailbox
<1> QED
  BY <1>6, <1>7

----------------------------------------------------------------------------
(* curl's callbacks *)

LEMMA CurlHeadersInvariant ==
  ASSUME InductiveInvariant, NEW j \in Jobs, NEW status \in Statuses,
         WorkerStep(CurlHeaders(j, status))
  PROVE  InductiveInvariant'
<1> USE DEF WorkerStep, CurlHeaders
<1>1. PICK redirected \in BOOLEAN :
        /\ Apply(j, OnHeaderBlock(jobs[j], status, redirected))
        /\ xfer' = [xfer EXCEPT ![j].status = status,
                                ![j].state = IF status < 200 \/ redirected
                                             THEN "open" ELSE "body"]
  OBVIOUS
<1> DEFINE job      == OnHeaderBlock(jobs[j], status, redirected)
           transfer == [xfer[j] EXCEPT !.status = status,
                                       !.state = IF status < 200 \/ redirected
                                                 THEN "open" ELSE "body"]
<1>2. jobs[j] \in RestJobs /\ xfer[j] \in Transfers /\ xfer \in [Jobs -> Transfers]
  BY DEF InductiveInvariant, TypeOK, WorkerTypeOK
<1>3. status \in Nat
  BY TransferThreadAssumption
<1>4. job \in RestJobs /\ SameControl(job, jobs[j])
  BY <1>2, <1>3, OnHeaderBlockEffect
<1>5. transfer \in Transfers /\ transfer.state # "none"
  BY <1>2 DEF Transfers
<1>6. xfer' = [xfer EXCEPT ![j] = transfer]
  BY <1>1, <1>2
<1> HIDE DEF transfer, job
<1>7. CurlStep(j, job, transfer)
  BY <1>1, <1>6 DEF CurlStep, Receiving, job
<1> QED
  BY <1>4, <1>5, <1>7, CurlStepInvariant

LEMMA CurlTrailersInvariant ==
  ASSUME InductiveInvariant, NEW j \in Jobs, WorkerStep(CurlTrailers(j))
  PROVE  InductiveInvariant'
<1> USE DEF WorkerStep, CurlTrailers
<1> DEFINE job == OnHeadersComplete(jobs[j], xfer[j].status, FALSE)
<1>1. jobs[j] \in RestJobs /\ xfer[j] \in Transfers
  BY DEF InductiveInvariant, TypeOK, WorkerTypeOK
<1>2. xfer[j].status \in Nat
  <2>1. xfer[j].status \in Statuses \cup {0}
    BY <1>1 DEF Transfers
  <2>2. Statuses \cup {0} \subseteq Nat
    BY TransferThreadAssumption
  <2> QED
    BY <2>1, <2>2
<1>3. job \in RestJobs /\ SameControl(job, jobs[j])
  BY <1>1, <1>2, OnHeadersCompleteEffect
<1>4. CurlStep(j, job, xfer[j])
  BY UnchangedTransfer DEF CurlStep, Receiving
<1> QED
  BY <1>1, <1>3, <1>4, CurlStepInvariant

LEMMA EndedTransfer ==
  ASSUME InductiveInvariant, NEW j \in Jobs, NEW code \in CurlCode
  PROVE  LET ended == [xfer[j] EXCEPT !.state = "done", !.code = code]
         IN  /\ ended \in Transfers /\ ended.state # "none"
             /\ [xfer EXCEPT ![j].state = "done", ![j].code = code]
                  = [xfer EXCEPT ![j] = ended]
<1>1. xfer[j] \in Transfers /\ xfer \in [Jobs -> Transfers]
  BY DEF InductiveInvariant, TypeOK, WorkerTypeOK
<1> QED
  BY <1>1 DEF Transfers

LEMMA CurlWriteInvariant ==
  ASSUME InductiveInvariant, NEW j \in Jobs, NEW total \in Nat,
         WorkerStep(CurlWrite(j, total))
  PROVE  InductiveInvariant'
<1> USE DEF WorkerStep, CurlWrite
<1> DEFINE ended == [xfer[j] EXCEPT !.state = "done", !.code = "WRITE_ERROR"]
<1>1. jobs[j] \in RestJobs /\ xfer[j] \in Transfers
  BY DEF InductiveInvariant, TypeOK, WorkerTypeOK
<1>2. /\ ended \in Transfers /\ ended.state # "none"
      /\ [xfer EXCEPT ![j].state = "done", ![j].code = "WRITE_ERROR"]
           = [xfer EXCEPT ![j] = ended]
  BY EndedTransfer DEF CurlCode
<1> HIDE DEF ended
<1>3. PICK job \in RestJobs :
        /\ Apply(j, job) /\ SameControl(job, jobs[j])
        /\ xfer' \in {[xfer EXCEPT ![j].state = "done", ![j].code = "WRITE_ERROR"], xfer}
  <2>1. CASE /\ Apply(j, WriteMemory(jobs[j], total))
             /\ xfer' \in {[xfer EXCEPT ![j].state = "done", ![j].code = "WRITE_ERROR"], xfer}
    BY <1>1, <2>1, WriteMemoryEffect
  <2>2. CASE \E written \in 0..total :
               /\ Apply(j, WriteFile(jobs[j], written))
               /\ xfer' \in {[xfer EXCEPT ![j].state = "done", ![j].code = "WRITE_ERROR"], xfer}
    <3>1. PICK written \in 0..total :
            /\ Apply(j, WriteFile(jobs[j], written))
            /\ xfer' \in {[xfer EXCEPT ![j].state = "done", ![j].code = "WRITE_ERROR"], xfer}
      BY <2>2
    <3>2. written \in Nat
      OBVIOUS
    <3> QED
      BY <1>1, <3>1, <3>2, WriteFileEffect
  <2> QED
    BY <2>1, <2>2
<1>4. PICK transfer \in Transfers : /\ xfer' = [xfer EXCEPT ![j] = transfer]
                                    /\ transfer.state # "none"
  BY <1>1, <1>2, <1>3, UnchangedTransfer
<1>5. CurlStep(j, job, transfer)
  BY <1>3, <1>4 DEF CurlStep, Receiving
<1> QED
  BY <1>3, <1>4, <1>5, CurlStepInvariant

LEMMA CurlWriteStreamInvariant ==
  ASSUME InductiveInvariant, NEW j \in Jobs, NEW total \in Nat,
         WorkerStep(CurlWriteStream(j, total))
  PROVE  InductiveInvariant'
<1> USE DEF WorkerStep, CurlWriteStream
<1> DEFINE job      == WriteStream(jobs[j], total)
           transfer == [xfer[j] EXCEPT !.paused = job.paused]
<1>1. jobs[j] \in RestJobs /\ xfer[j] \in Transfers /\ xfer \in [Jobs -> Transfers]
  BY DEF InductiveInvariant, TypeOK, WorkerTypeOK
<1>2. job \in RestJobs /\ SameControl(job, jobs[j])
  BY <1>1, WriteStreamEffect
<1>3. job.paused \in BOOLEAN
  BY <1>2 DEF RestJobs
<1>4. Apply(j, job) /\ xfer' = [xfer EXCEPT ![j].paused = job.paused]
  OBVIOUS
<1>5. wpc \in {"apply", "perform", "reap"} /\ Posted
  <2>1. j # 0
    BY DEF Jobs
  <2> QED
    BY <2>1 DEF InductiveInvariant, WorkerInvariant, Receiving
<1> HIDE DEF job
<1>6. transfer \in Transfers /\ transfer.state # "none"
  BY <1>1, <1>3 DEF Transfers
<1>7. xfer' = [xfer EXCEPT ![j] = transfer]
  BY <1>1, <1>4
<1> HIDE DEF transfer
<1>8. CurlStep(j, job, transfer)
  BY <1>4, <1>5, <1>7 DEF CurlStep
<1> QED
  BY <1>2, <1>6, <1>8, CurlStepInvariant

\* curl changed a transfer without calling back.
LEMMA TransferStepInvariant ==
  ASSUME InductiveInvariant, NEW j \in Jobs, NEW transfer \in Transfers,
         xfer[j].state # "none", transfer.state # "none",
         wpc = "perform",
         xfer' = [xfer EXCEPT ![j] = transfer],
         UNCHANGED <<running, mailbox, active, jobs, wpc, taken, resuming, queueVars,
                     mainVars>>
  PROVE  InductiveInvariant'
<1> USE DEF InductiveInvariant, mailbox, queueVars, mainVars
<1>1. TypeOK'
  BY DEF TypeOK, RecordTypeOK, WorkerTypeOK, QueueTypeOK
<1>2. JobsInvariant'
  <2> SUFFICES ASSUME NEW i \in Jobs PROVE JobPlaced(i)'
    BY DEF JobsInvariant
  <2>1. xfer'[i].state # "none" <=> xfer[i].state # "none"
    BY DEF TypeOK, WorkerTypeOK
  <2> QED
    BY <2>1 DEF JobsInvariant, JobPlaced
<1>3. WorkerInvariant'
  BY DEF WorkerInvariant, Posted
<1>4. MainInvariant'
  BY DEF MainInvariant, RecordPlaced, Found, NextEvent
<1>5. CancelNeverLost'
  BY DEF CancelNeverLost
<1>6. UnloadedClean'
  BY DEF UnloadedClean
<1> QED
  BY <1>1, <1>2, <1>3, <1>4, <1>5, <1>6

LEMMA CurlProgressInvariant ==
  ASSUME InductiveInvariant, NEW j \in Jobs, WorkerStep(CurlProgress(j))
  PROVE  InductiveInvariant'
<1> USE DEF WorkerStep, CurlProgress
<1>1. jobs[j] \in RestJobs /\ xfer[j] \in Transfers /\ xfer \in [Jobs -> Transfers]
  BY DEF InductiveInvariant, TypeOK, WorkerTypeOK
<1>2. CASE jobs[j].cancelRequested
  <2> DEFINE ended == [xfer[j] EXCEPT !.state = "done", !.code = "ABORTED_BY_CALLBACK"]
  <2>1. /\ ended \in Transfers /\ ended.state # "none"
        /\ xfer' = [xfer EXCEPT ![j] = ended]
    BY <1>2, EndedTransfer DEF CurlCode
  <2> HIDE DEF ended
  <2> QED
    BY <1>2, <2>1, TransferStepInvariant
<1>3. CASE ~jobs[j].cancelRequested
  <2> DEFINE job      == PostProgress(jobs[j])
             transfer == [xfer[j] EXCEPT !.progress = @ + 1]
  <2>1. job \in RestJobs /\ SameControl(job, jobs[j])
    BY <1>1, PostProgressEffect
  <2>2. /\ transfer \in Transfers /\ transfer.state # "none"
        /\ xfer' = [xfer EXCEPT ![j] = transfer]
    BY <1>1, <1>3 DEF Transfers
  <2> HIDE DEF transfer
  <2>3. CurlStep(j, job, transfer)
    BY <1>3, <2>2 DEF CurlStep
  <2> QED
    BY <2>1, <2>2, <2>3, CurlStepInvariant
<1> QED
  BY <1>2, <1>3

LEMMA CurlDoneInvariant ==
  ASSUME InductiveInvariant, NEW j \in Jobs, WorkerStep(CurlDone(j))
  PROVE  InductiveInvariant'
<1> USE DEF WorkerStep, CurlDone
<1>1. PICK code \in CurlCode : xfer' = [xfer EXCEPT ![j].state = "done", ![j].code = code]
  <2>1. CurlFailures \subseteq CurlCode /\ "OK" \in CurlCode
    BY TransferThreadAssumption DEF CurlCode
  <2> QED
    BY <2>1
<1> DEFINE ended == [xfer[j] EXCEPT !.state = "done", !.code = code]
<1>2. /\ ended \in Transfers /\ ended.state # "none"
      /\ xfer' = [xfer EXCEPT ![j] = ended]
  BY <1>1, EndedTransfer
<1>3. xfer[j].state # "none"
  OBVIOUS
<1> HIDE DEF ended
<1> QED
  BY <1>2, <1>3, TransferStepInvariant

----------------------------------------------------------------------------
(* The steps of Run() around the jobs *)

LEMMA TakePendingInvariant ==
  ASSUME InductiveInvariant, WorkerStep(TakePending)
  PROVE  InductiveInvariant'
<1> USE DEF InductiveInvariant, WorkerStep, TakePending, queueVars, mainVars
<1>1. taken = NothingTaken /\ resuming = 0
  BY DEF WorkerInvariant
<1>2. TypeOK'
  <2>1. WorkerTypeOK'
    <3>1. <<>> \in Seq(Jobs \X Nat)
      OBVIOUS
    <3> QED
      BY <3>1 DEF TypeOK, WorkerTypeOK, WorkerPhase
  <2> QED
    BY <2>1 DEF TypeOK, RecordTypeOK, QueueTypeOK
<1>3. JobsInvariant'
  <2> SUFFICES ASSUME NEW i \in Jobs PROVE JobPlaced(i)'
    BY DEF JobsInvariant
  <2>1. JobPlaced(i)
    BY DEF JobsInvariant
  <2>2. /\ taken'.incoming = incoming /\ taken'.cancels = cancelRequests
        /\ incoming' = {} /\ cancelRequests' = {}
    OBVIOUS
  <2> QED
    BY <1>1, <2>1, <2>2, NothingTakenType DEF JobPlaced
<1>4. WorkerInvariant'
  BY DEF WorkerInvariant, Posted
<1>5. MainInvariant'
  BY DEF MainInvariant, RecordPlaced, Found, NextEvent
<1>6. CancelNeverLost'
  BY <1>1, NothingTakenType DEF CancelNeverLost
<1>7. UnloadedClean'
  BY DEF UnloadedClean
<1> QED
  BY <1>2, <1>3, <1>4, <1>5, <1>6, <1>7

\* A step that changes only where the worker is.
LEMMA WorkerPhaseInvariant ==
  ASSUME InductiveInvariant, Posted,
         wpc # "exited", wpc' \in WorkerPhase,
         wpc' = "exited" => ~running,
         wpc' # "apply" => PendingApplied /\ resuming' = 0,
         resuming' \in {resuming, 0},
         UNCHANGED <<running, mailbox, active, jobs, xfer, taken, queueVars, mainVars>>
  PROVE  InductiveInvariant'
<1> USE DEF InductiveInvariant, mailbox, queueVars, mainVars
<1>1. TypeOK'
  BY DEF TypeOK, RecordTypeOK, WorkerTypeOK, QueueTypeOK
<1>2. JobsInvariant'
  BY DEF JobsInvariant, JobPlaced
<1>3. WorkerInvariant'
  BY DEF WorkerInvariant, Posted, PendingApplied
<1>4. MainInvariant'
  BY DEF MainInvariant, RecordPlaced, Found, NextEvent
<1>5. CancelNeverLost'
  BY DEF CancelNeverLost
<1>6. UnloadedClean'
  BY DEF UnloadedClean
<1> QED
  BY <1>1, <1>2, <1>3, <1>4, <1>5, <1>6

LEMMA ExitLoopInvariant ==
  ASSUME InductiveInvariant, WorkerStep(ExitLoop)
  PROVE  InductiveInvariant'
<1>1. Posted /\ PendingApplied /\ resuming = 0
  BY DEF InductiveInvariant, WorkerInvariant, PendingApplied, WorkerStep, ExitLoop
<1> QED
  BY <1>1, WorkerPhaseInvariant DEF WorkerStep, ExitLoop, WorkerPhase

LEMMA BeginPerformInvariant ==
  ASSUME InductiveInvariant, WorkerStep(BeginPerform)
  PROVE  InductiveInvariant'
BY WorkerPhaseInvariant DEF WorkerStep, BeginPerform, WorkerPhase

LEMMA EndPerformInvariant ==
  ASSUME InductiveInvariant, WorkerStep(EndPerform)
  PROVE  InductiveInvariant'
<1>1. PendingApplied /\ resuming = 0
  BY DEF InductiveInvariant, WorkerInvariant, PendingApplied, WorkerStep, EndPerform
<1> QED
  BY <1>1, WorkerPhaseInvariant DEF WorkerStep, EndPerform, WorkerPhase

LEMMA RemoveFinishedInvariant ==
  ASSUME InductiveInvariant, WorkerStep(RemoveFinished)
  PROVE  InductiveInvariant'
<1> USE DEF InductiveInvariant, WorkerStep, RemoveFinished, mailbox, queueVars, mainVars
<1>1. jobs \in [Jobs -> RestJobs] /\ active \subseteq Jobs
  BY DEF TypeOK, WorkerTypeOK
<1>2. \A i \in Jobs :
        \/ jobs'[i] = jobs[i] /\ (i \in active' <=> i \in active)
        \/ jobs'[i] = DestroyedJob(i) /\ jobs[i].finished /\ i \in active /\ i \notin active'
  BY <1>1
<1>3. TypeOK'
  <2>1. WorkerTypeOK'
    BY <1>1, FreshJobOK DEF TypeOK, WorkerTypeOK, WorkerPhase
  <2> QED
    BY <2>1 DEF TypeOK, RecordTypeOK, QueueTypeOK
<1>4. JobsInvariant'
  <2> SUFFICES ASSUME NEW i \in Jobs PROVE JobPlaced(i)'
    BY DEF JobsInvariant
  <2>1. JobPlaced(i)
    BY DEF JobsInvariant
  <2>2. CASE jobs'[i] = jobs[i] /\ (i \in active' <=> i \in active)
    BY <2>1, <2>2 DEF JobPlaced
  <2>3. CASE jobs'[i] = DestroyedJob(i) /\ jobs[i].finished /\ i \in active /\ i \notin active'
    <3>1. /\ i < nextJobId /\ ~(i >= nextJobId) /\ ~jobs[i].attached
          /\ i \notin incoming /\ i \notin taken.incoming
      <4>1. i \in Int /\ nextJobId \in Int
        BY DEF TypeOK, RecordTypeOK, Jobs
      <4> QED
        BY <2>1, <2>3, <4>1 DEF JobPlaced, JobInvariant
    <3> QED
      BY <2>1, <2>3, <3>1, FreshJobOK DEF JobPlaced
  <2> QED
    BY <1>2, <2>2, <2>3
<1>5. WorkerInvariant'
  BY DEF WorkerInvariant, Posted
<1>6. MainInvariant'
  BY DEF MainInvariant, RecordPlaced, Found, NextEvent
<1>7. CancelNeverLost'
  BY <1>2, FreshJobOK DEF CancelNeverLost
<1>8. UnloadedClean'
  BY DEF UnloadedClean
<1> QED
  BY <1>3, <1>4, <1>5, <1>6, <1>7, <1>8

LEMMA PostInvariant ==
  ASSUME InductiveInvariant, WorkerStep((PostCheck \/ PostPush) /\ UNCHANGED workerVars)
  PROVE  InductiveInvariant'
<1> USE DEF InductiveInvariant, WorkerStep, PostCheck, PostPush, workerVars, mainVars
<1>1. ~Posted
  BY DEF WorkerInvariant
<1>2. TypeOK'
  <2>1. outbox # <<>> /\ outbox \in Seq(TransferEvent) /\ events \in Seq(TransferEvent)
    BY <1>1 DEF Posted, TypeOK, QueueTypeOK
  <2>2. Tail(outbox) \in Seq(TransferEvent) /\ Head(outbox) \in TransferEvent
    BY <2>1
  <2>3. Append(events, Head(outbox)) \in Seq(TransferEvent)
    BY <2>1, <2>2
  <2>4. QueueTypeOK'
    BY <2>1, <2>2, <2>3 DEF TypeOK, QueueTypeOK
  <2> QED
    BY <2>4 DEF TypeOK, RecordTypeOK, WorkerTypeOK
<1>3. JobsInvariant'
  BY DEF JobsInvariant, JobPlaced
<1>4. WorkerInvariant'
  BY <1>1 DEF WorkerInvariant, Posted
<1>5. MainInvariant'
  BY DEF MainInvariant, RecordPlaced, Found, NextEvent
<1>6. CancelNeverLost'
  BY DEF CancelNeverLost
<1>7. UnloadedClean'
  BY <1>1 DEF UnloadedClean
<1> QED
  BY <1>2, <1>3, <1>4, <1>5, <1>6, <1>7

----------------------------------------------------------------------------
(* The main thread *)

\* The event in hand names a request.
LEMMA NextEventType ==
  ASSUME TypeOK, batch # <<>>
  PROVE  /\ NextEvent \in TransferEvent /\ NextEvent.id \in Jobs
         /\ NextEvent.n \in Nat /\ NextEvent.status \in RestStatus
         /\ Tail(batch) \in Seq(TransferEvent)
<1>1. Head(batch) \in TransferEvent /\ Tail(batch) \in Seq(TransferEvent)
  BY DEF TypeOK, RecordTypeOK
<1> QED
  BY <1>1 DEF NextEvent, TransferEvent

LEMMA SubmitJobInvariant ==
  ASSUME InductiveInvariant, SubmitJob
  PROVE  InductiveInvariant'
<1> USE DEF InductiveInvariant, SubmitJob, unchangedByNatives, queueVars, Enqueue,
            NativesCallable
<1>1. nextJobId \in Jobs /\ nextJobId \in Nat /\ nextJobId + 1 \in 1..(MaxJobs + 1)
  BY RestJobAssumption DEF TypeOK, RecordTypeOK, Jobs
<1>2. TypeOK'
  <2>1. RecordTypeOK'
    BY <1>1 DEF TypeOK, RecordTypeOK, RecordState
  <2> QED
    BY <1>1, <2>1 DEF TypeOK, WorkerTypeOK, QueueTypeOK
<1>3. JobsInvariant'
  <2> SUFFICES ASSUME NEW i \in Jobs PROVE JobPlaced(i)'
    BY DEF JobsInvariant
  <2>1. JobPlaced(i) /\ i \in Nat
    BY DEF JobsInvariant, Jobs
  <2>2. CASE i = nextJobId
    <3>1. i < nextJobId' /\ ~(i < nextJobId)
      BY <1>1, <2>2
    <3>2. i \notin active \cup taken.incoming \cup taken.cancels \cup incoming
      BY <2>1, <3>1 DEF JobPlaced
    <3>3. jobs[i].attempt = 0 /\ ~jobs[i].attached /\ ~jobs[i].finished
      BY <1>1, <2>1, <2>2 DEF JobPlaced
    <3> QED
      BY <1>1, <2>1, <2>2, <3>1, <3>2, <3>3 DEF JobPlaced
  <2>3. CASE i # nextJobId
    <3>1. (i < nextJobId' <=> i < nextJobId) /\ (i >= nextJobId' <=> i >= nextJobId)
      BY <1>1, <2>1, <2>3
    <3> QED
      BY <2>1, <2>3, <3>1 DEF JobPlaced
  <2> QED
    BY <2>2, <2>3
<1>4. WorkerInvariant'
  BY DEF WorkerInvariant, Posted
<1>5. MainInvariant'
  <2>1. \A i \in Jobs : RecordPlaced(i)'
    <3> SUFFICES ASSUME NEW i \in Jobs PROVE RecordPlaced(i)'
      OBVIOUS
    <3>1. RecordPlaced(i) /\ i \in Nat
      BY DEF MainInvariant, Jobs
    <3>2. records \in [Jobs -> RecordState]
      BY DEF TypeOK, RecordTypeOK
    <3>3. CASE i = nextJobId
      BY <1>1, <3>1, <3>2, <3>3 DEF RecordPlaced, Found, NextEvent
    <3>4. CASE i # nextJobId
      <4>1. (i < nextJobId' <=> i < nextJobId) /\ (i >= nextJobId' <=> i >= nextJobId)
        BY <1>1, <3>1, <3>4
      <4> QED
        BY <3>1, <3>2, <3>4, <4>1 DEF RecordPlaced, Found, NextEvent
    <3> QED
      BY <3>3, <3>4
  <2>2. ~Found(nextJobId)
    BY <1>1 DEF MainInvariant, RecordPlaced
  <2>3. mpc = "callback" => batch # <<>> /\ NextEvent.id \in Jobs
    BY NextEventType DEF MainInvariant
  <2>4. records \in [Jobs -> RecordState]
    BY DEF TypeOK, RecordTypeOK
  <2> QED
    BY <1>1, <2>1, <2>2, <2>3, <2>4 DEF MainInvariant, Found, NextEvent
<1>6. CancelNeverLost'
  BY DEF CancelNeverLost
<1>7. UnloadedClean'
  BY DEF UnloadedClean
<1> QED
  BY <1>2, <1>3, <1>4, <1>5, <1>6, <1>7

\* A native or a callback asks the worker to cancel the requests S.
LEMMA CancelInvariant ==
  ASSUME InductiveInvariant, NEW S \in SUBSET Jobs, \A j \in S : Found(j),
         NativesCallable, RequestCancel(S), Cancelled(S),
         UNCHANGED <<incoming, nextJobId, records, clients, plugins, unchangedByNatives>>
  PROVE  InductiveInvariant'
<1> USE DEF InductiveInvariant, unchangedByNatives, queueVars, RequestCancel, Cancelled,
            NativesCallable
<1>1. \A i \in Jobs : log'[i].outcome = log[i].outcome
                      /\ (log'[i].cancelled => log[i].cancelled \/ i \in S)
  BY DEF TypeOK, RecordTypeOK, Log
<1>2. TypeOK'
  <2>1. log' \in [Jobs -> Log]
    BY DEF TypeOK, RecordTypeOK, Log
  <2> QED
    BY <2>1 DEF TypeOK, RecordTypeOK, WorkerTypeOK, QueueTypeOK
<1>3. JobsInvariant'
  <2> SUFFICES ASSUME NEW i \in Jobs PROVE JobPlaced(i)'
    BY DEF JobsInvariant
  <2>1. JobPlaced(i) /\ RecordPlaced(i)
    BY DEF JobsInvariant, MainInvariant
  <2>2. i \in S => i < nextJobId
    BY <2>1 DEF RecordPlaced
  <2> QED
    BY <2>1, <2>2 DEF JobPlaced
<1>4. WorkerInvariant'
  BY DEF WorkerInvariant, Posted
<1>5. MainInvariant'
  <2>1. \A i \in Jobs : RecordPlaced(i)'
    BY <1>1 DEF MainInvariant, RecordPlaced, Found, NextEvent
  <2>2. mpc = "callback" => NextEvent.id \in Jobs
    BY NextEventType DEF MainInvariant
  <2> QED
    BY <1>1, <2>1, <2>2 DEF MainInvariant, NextEvent
<1>6. CancelNeverLost'
  BY <1>1 DEF CancelNeverLost
<1>7. UnloadedClean'
  BY DEF UnloadedClean
<1> QED
  BY <1>2, <1>3, <1>4, <1>5, <1>6, <1>7

LEMMA DropJobsInvariant ==
  ASSUME InductiveInvariant, NEW S \in SUBSET Jobs, \A j \in S : Found(j),
         NativesCallable, DropJobs(S), clients' \subseteq Clients, plugins' \subseteq Plugins,
         UNCHANGED <<incoming, nextJobId, unchangedByNatives>>
  PROVE  InductiveInvariant'
<1> USE DEF InductiveInvariant, unchangedByNatives, queueVars, RequestCancel, DropJobs,
            NativesCallable
<1>1. records \in [Jobs -> RecordState] /\ log \in [Jobs -> Log]
  BY DEF TypeOK, RecordTypeOK
<1>2. \A i \in Jobs :
        /\ i \notin S => records'[i] = records[i] /\ log'[i] = log[i]
        /\ i \in S => /\ log'[i].outcome = "dropped"
                      /\ log'[i].cancelled = log[i].cancelled
                      /\ records[i] = "idle" => records'[i] = "absent"
                      /\ records[i] # "idle" => records'[i] = "dropped"
  BY <1>1 DEF Log
<1>3. TypeOK'
  <2>1. log' \in [Jobs -> Log] /\ records' \in [Jobs -> RecordState]
    BY <1>1 DEF Log, Outcome, RecordState
  <2> QED
    BY <2>1 DEF TypeOK, RecordTypeOK, WorkerTypeOK, QueueTypeOK
<1>4. JobsInvariant'
  <2> SUFFICES ASSUME NEW i \in Jobs PROVE JobPlaced(i)'
    BY DEF JobsInvariant
  <2>1. JobPlaced(i) /\ RecordPlaced(i)
    BY DEF JobsInvariant, MainInvariant
  <2>2. i \in S => i < nextJobId
    BY <2>1 DEF RecordPlaced
  <2> QED
    BY <2>1, <2>2 DEF JobPlaced
<1>5. WorkerInvariant'
  BY DEF WorkerInvariant, Posted
<1>6. MainInvariant'
  <2>1. \A i \in Jobs : RecordPlaced(i)'
    <3> SUFFICES ASSUME NEW i \in Jobs PROVE RecordPlaced(i)'
      OBVIOUS
    <3>1. RecordPlaced(i) /\ i \in Nat /\ nextJobId \in Nat
      BY DEF MainInvariant, TypeOK, RecordTypeOK, Jobs
    <3>2. CASE i \notin S
      BY <1>2, <3>1, <3>2 DEF RecordPlaced, Found, NextEvent
    <3>3. CASE i \in S
      <4>1. i < nextJobId /\ ~(i >= nextJobId)
        BY <3>1, <3>3 DEF RecordPlaced
      <4>2. records[i] \in {"idle", "dispatching", "dropped"}
        BY <1>1, <3>3 DEF Found, RecordState
      <4> QED
        BY <1>2, <3>1, <3>3, <4>1, <4>2 DEF RecordPlaced, Found, NextEvent
    <3> QED
      BY <3>2, <3>3
  <2>2. mpc = "callback" => NextEvent.id \in Jobs
    BY NextEventType DEF MainInvariant
  <2> QED
    BY <1>2, <2>1, <2>2 DEF MainInvariant, NextEvent
<1>7. CancelNeverLost'
  BY <1>2 DEF CancelNeverLost
<1>8. UnloadedClean'
  BY DEF UnloadedClean
<1> QED
  BY <1>3, <1>4, <1>5, <1>6, <1>7, <1>8

LEMMA NativesInvariant ==
  ASSUME InductiveInvariant, Natives
  PROVE  InductiveInvariant'
<1>1. CASE SubmitJob
  BY <1>1, SubmitJobInvariant
<1>2. ASSUME NEW j \in Jobs, CancelJob(j) PROVE InductiveInvariant'
  BY <1>2, CancelInvariant DEF CancelJob
<1>3. ASSUME NEW c \in Clients, NEW p \in Plugins, CancelJobsForClient(c, p)
      PROVE  InductiveInvariant'
  BY <1>3, CancelInvariant DEF CancelJobsForClient, FoundForClient
<1>4. ASSUME NEW c \in Clients, OnHandleDestroy(c) PROVE InductiveInvariant'
  <2>1. clients' \subseteq Clients /\ plugins' \subseteq Plugins
    BY <1>4 DEF OnHandleDestroy, InductiveInvariant, TypeOK, RecordTypeOK
  <2> QED
    BY <1>4, <2>1, DropJobsInvariant DEF OnHandleDestroy, FoundForClient
<1>5. ASSUME NEW p \in Plugins, OnPluginUnloaded(p) PROVE InductiveInvariant'
  <2>1. clients' \subseteq Clients /\ plugins' \subseteq Plugins
    BY <1>5 DEF OnPluginUnloaded, InductiveInvariant, TypeOK, RecordTypeOK
  <2> QED
    BY <1>5, <2>1, DropJobsInvariant DEF OnPluginUnloaded
<1> QED
  BY <1>1, <1>2, <1>3, <1>4, <1>5 DEF Natives

----------------------------------------------------------------------------
(* The game frame and the unloading of the extension *)

\* The worker's side does not depend on what the main thread does in a frame.
LEMMA FrameStepInvariant ==
  ASSUME InductiveInvariant, RecordTypeOK', MainInvariant', CancelNeverLost',
         mpc' # "unloaded", events' \in {events, <<>>}, consumeRequests' \in Seq(Jobs \X Nat),
         cancelRequests' \subseteq {j \in Jobs : j < nextJobId},
         running' \in {running, FALSE}, enabled' \in BOOLEAN,
         UNCHANGED <<incoming, active, jobs, xfer, wpc, taken, resuming, outbox,
                     checked, nextJobId>>
  PROVE  InductiveInvariant'
<1> USE DEF InductiveInvariant
<1>1. WorkerTypeOK'
  BY DEF TypeOK, WorkerTypeOK
<1>2. QueueTypeOK'
  <2>1. <<>> \in Seq(TransferEvent)
    OBVIOUS
  <2> QED
    BY <2>1 DEF TypeOK, QueueTypeOK
<1>3. JobsInvariant'
  <2> SUFFICES ASSUME NEW i \in Jobs PROVE JobPlaced(i)'
    BY DEF JobsInvariant
  <2>1. i \in cancelRequests' => i < nextJobId
    OBVIOUS
  <2> QED
    BY <2>1 DEF JobsInvariant, JobPlaced
<1>4. WorkerInvariant'
  <2>1. running' => running
    BY DEF TypeOK, WorkerTypeOK
  <2> QED
    BY <2>1 DEF WorkerInvariant, Posted
<1>5. UnloadedClean'
  BY DEF UnloadedClean
<1> QED
  BY <1>1, <1>2, <1>3, <1>4, <1>5 DEF TypeOK

\* Every id in the mailbox is that of a request that was sent.
LEMMA CancelRequestsSent ==
  ASSUME InductiveInvariant
  PROVE  cancelRequests \subseteq {j \in Jobs : j < nextJobId}
BY DEF InductiveInvariant, TypeOK, WorkerTypeOK, JobsInvariant, JobPlaced

LEMMA OnGameFrameInvariant ==
  ASSUME InductiveInvariant, OnGameFrame
  PROVE  InductiveInvariant'
<1> USE DEF OnGameFrame, workerVars, Drain
<1>1. RecordTypeOK'
  BY DEF InductiveInvariant, TypeOK, RecordTypeOK, QueueTypeOK, MainPhase
<1>2. MainInvariant'
  BY DEF InductiveInvariant, MainInvariant, RecordPlaced, Found
<1>3. CancelNeverLost'
  BY DEF InductiveInvariant, CancelNeverLost
<1>4. consumeRequests' \in Seq(Jobs \X Nat) /\ enabled' \in BOOLEAN
  BY DEF InductiveInvariant, TypeOK, WorkerTypeOK, QueueTypeOK
<1> QED
  BY <1>1, <1>2, <1>3, <1>4, CancelRequestsSent, FrameStepInvariant

LEMMA SkipEventInvariant ==
  ASSUME InductiveInvariant, SkipEvent
  PROVE  InductiveInvariant'
<1> USE DEF SkipEvent, workerVars, queueVars
<1>1. RecordTypeOK'
  BY NextEventType DEF InductiveInvariant, TypeOK, RecordTypeOK
<1>2. MainInvariant'
  BY DEF InductiveInvariant, MainInvariant, RecordPlaced, Found
<1>3. CancelNeverLost'
  BY DEF InductiveInvariant, CancelNeverLost
<1>4. consumeRequests' \in Seq(Jobs \X Nat) /\ enabled' \in BOOLEAN
  BY DEF InductiveInvariant, TypeOK, WorkerTypeOK, QueueTypeOK
<1> QED
  BY <1>1, <1>2, <1>3, <1>4, CancelRequestsSent, FrameStepInvariant

\* What a headers, data or progress event adds to the log.
LEMMA LogIntermediateEffect ==
  ASSUME TypeOK, batch # <<>>, NEW ran \in BOOLEAN, LogIntermediate(NextEvent, ran)
  PROVE  /\ log' \in [Jobs -> Log]
         /\ \A i \in Jobs : log'[i].outcome = log[i].outcome
                            /\ log'[i].cancelled = log[i].cancelled
<1>1. log \in [Jobs -> Log]
  BY DEF TypeOK, RecordTypeOK
<1> DEFINE j     == NextEvent.id
           more  == IF NextEvent.kind = "Headers" THEN 1 ELSE 0
           heard == ran /\ NextEvent.kind = "Headers"
           entry == [log[j] EXCEPT !.headersHandled = @ + more, !.bytesHandled = @ + NextEvent.n,
                                   !.headersHeard = @ \/ heard]
<1>2. j \in Jobs /\ NextEvent.n \in Nat /\ more \in Nat /\ heard \in BOOLEAN
  BY NextEventType
<1>3. log' = [log EXCEPT ![j] = entry]
  BY <1>1, <1>2 DEF LogIntermediate
<1>4. log[j] \in Log
  BY <1>1, <1>2
<1> HIDE DEF more, j, heard
<1>5. /\ entry \in Log /\ entry.outcome = log[j].outcome
      /\ entry.cancelled = log[j].cancelled
  <2> DEFINE headers == log[j].headersHandled + more
             bytes   == log[j].bytesHandled + NextEvent.n
             told    == log[j].headersHeard \/ heard
  <2>1. headers \in Nat /\ bytes \in Nat /\ told \in BOOLEAN
    BY <1>2, <1>4 DEF Log
  <2>2. entry = [log[j] EXCEPT !.headersHandled = headers, !.bytesHandled = bytes,
                               !.headersHeard = told]
    BY <1>4 DEF Log
  <2> HIDE DEF headers, bytes, told, entry
  <2> QED
    BY <1>4, <2>1, <2>2 DEF Log
<1> HIDE DEF entry
<1> QED
  BY <1>1, <1>2, <1>3, <1>5

LEMMA HandleIntermediateInvariant ==
  ASSUME InductiveInvariant, HandleIntermediate
  PROVE  InductiveInvariant'
<1> USE DEF HandleIntermediate, workerVars, queueVars
<1> DEFINE j == NextEvent.id
<1>1. /\ log' \in [Jobs -> Log]
      /\ \A i \in Jobs : log'[i].outcome = log[i].outcome
                         /\ log'[i].cancelled = log[i].cancelled
  BY LogIntermediateEffect DEF InductiveInvariant
<1>2. j \in Jobs /\ records \in [Jobs -> RecordState]
  BY NextEventType DEF InductiveInvariant, TypeOK, RecordTypeOK
<1>3. RecordTypeOK'
  BY <1>1, <1>2 DEF InductiveInvariant, TypeOK, RecordTypeOK, RecordState, MainPhase
<1>4. MainInvariant'
  <2>1. records[j] = "idle"
    BY <1>2 DEF InductiveInvariant, MainInvariant, RecordPlaced, Found, RecordState
  <2>2. \A i \in Jobs : RecordPlaced(i)'
    BY <1>1, <1>2, <2>1
       DEF InductiveInvariant, MainInvariant, RecordPlaced, Found, NextEvent
  <2> QED
    BY <1>1, <1>2, <2>2 DEF InductiveInvariant, MainInvariant, NextEvent
<1>5. CancelNeverLost'
  BY <1>1 DEF InductiveInvariant, CancelNeverLost
<1>6. consumeRequests' \in Seq(Jobs \X Nat) /\ enabled' \in BOOLEAN
  BY DEF InductiveInvariant, TypeOK, WorkerTypeOK, QueueTypeOK
<1> QED
  BY <1>3, <1>4, <1>5, <1>6, CancelRequestsSent, FrameStepInvariant

\* DispatchData acknowledges the bytes of a Data event.
LEMMA ConsumeNextEvent ==
  ASSUME TypeOK, batch # <<>>,
         IF NextEvent.kind = "Data"
         THEN Consume(NextEvent.id, NextEvent.n) ELSE UNCHANGED consumeRequests
  PROVE  consumeRequests' \in Seq(Jobs \X Nat)
<1>1. consumeRequests \in Seq(Jobs \X Nat)
  BY DEF TypeOK, WorkerTypeOK
<1>2. Append(consumeRequests, <<NextEvent.id, NextEvent.n>>) \in Seq(Jobs \X Nat)
  <2>1. <<NextEvent.id, NextEvent.n>> \in Jobs \X Nat
    BY NextEventType
  <2> QED
    BY <1>1, <2>1
<1> QED
  BY <1>1, <1>2 DEF Consume

LEMMA HandleIntermediateUnheardInvariant ==
  ASSUME InductiveInvariant, HandleIntermediateUnheard
  PROVE  InductiveInvariant'
<1> USE DEF HandleIntermediateUnheard, queueVars
<1>1. /\ log' \in [Jobs -> Log]
      /\ \A i \in Jobs : log'[i].outcome = log[i].outcome
                         /\ log'[i].cancelled = log[i].cancelled
  BY LogIntermediateEffect DEF InductiveInvariant
<1>2. NextEvent.id \in Jobs /\ NextEvent.n \in Nat
  BY NextEventType DEF InductiveInvariant
<1>3. RecordTypeOK'
  BY <1>1, NextEventType DEF InductiveInvariant, TypeOK, RecordTypeOK
<1>4. MainInvariant'
  BY <1>1 DEF InductiveInvariant, MainInvariant, RecordPlaced, Found
<1>5. CancelNeverLost'
  BY <1>1 DEF InductiveInvariant, CancelNeverLost
<1>6. consumeRequests' \in Seq(Jobs \X Nat) /\ enabled' \in BOOLEAN
  BY ConsumeNextEvent DEF InductiveInvariant, TypeOK, QueueTypeOK
<1> QED
  BY <1>3, <1>4, <1>5, <1>6, CancelRequestsSent, FrameStepInvariant

\* The record of a Complete event is erased and its request's outcome decided.
LEMMA CompletionInvariant ==
  ASSUME InductiveInvariant, mpc = "batch", batch # <<>>, Found(NextEvent.id),
         NEW outcome \in Outcome \ {"none", "dropped"}, NEW length \in Nat,
         records' = [records EXCEPT ![NextEvent.id] = "absent"],
         log' = [log EXCEPT ![NextEvent.id].outcome = outcome,
                            ![NextEvent.id].length = length],
         \/ mpc' = "callback" /\ NextEvent.kind = "Complete" /\ batch' = batch
         \/ mpc' = "batch" /\ batch' = Tail(batch),
         UNCHANGED <<workerVars, queueVars, nextJobId, clients, plugins>>
  PROVE  InductiveInvariant'
<1> USE DEF workerVars, queueVars
<1> DEFINE j     == NextEvent.id
           entry == [log[j] EXCEPT !.outcome = outcome, !.length = length]
<1>1. /\ j \in Jobs /\ Tail(batch) \in Seq(TransferEvent)
      /\ records \in [Jobs -> RecordState] /\ log \in [Jobs -> Log]
  BY NextEventType DEF InductiveInvariant, TypeOK, RecordTypeOK
<1>2. entry \in Log /\ entry.outcome = outcome /\ entry.cancelled = log[j].cancelled
  BY <1>1 DEF Log
<1>3. log' = [log EXCEPT ![j] = entry]
  BY <1>1
<1> HIDE DEF entry
<1>4. RecordTypeOK'
  <2>1. RecordTypeOK
    BY DEF InductiveInvariant, TypeOK
  <2>2. records' \in [Jobs -> RecordState] /\ log' \in [Jobs -> Log]
    BY <1>1, <1>2, <1>3 DEF RecordState
  <2>3. mpc' \in MainPhase /\ batch' \in Seq(TransferEvent)
    BY <1>1, <2>1 DEF RecordTypeOK, MainPhase
  <2> QED
    BY <2>1, <2>2, <2>3 DEF RecordTypeOK
<1>5. MainInvariant'
  <2>1. records[j] = "idle" /\ j < nextJobId /\ ~(j >= nextJobId)
    <3>1. j \in Nat /\ nextJobId \in Nat
      BY <1>1 DEF InductiveInvariant, TypeOK, RecordTypeOK, Jobs
    <3> QED
      BY <1>1, <3>1 DEF InductiveInvariant, MainInvariant, RecordPlaced, Found, RecordState
  <2>2. \A i \in Jobs : RecordPlaced(i)'
    <3> SUFFICES ASSUME NEW i \in Jobs PROVE RecordPlaced(i)'
      OBVIOUS
    <3>1. RecordPlaced(i) /\ records[i] \notin {"dispatching", "dropped"}
      BY DEF InductiveInvariant, MainInvariant, RecordPlaced
    <3> QED
      BY <1>1, <1>2, <1>3, <2>1, <3>1 DEF RecordPlaced, Found, NextEvent
  <2> QED
    BY <1>1, <1>2, <1>3, <2>2 DEF InductiveInvariant, MainInvariant, NextEvent
<1>6. CancelNeverLost'
  BY <1>1, <1>2, <1>3 DEF InductiveInvariant, CancelNeverLost
<1>7. consumeRequests' \in Seq(Jobs \X Nat) /\ enabled' \in BOOLEAN
  BY DEF InductiveInvariant, TypeOK, WorkerTypeOK, QueueTypeOK
<1> QED
  BY <1>4, <1>5, <1>6, <1>7, CancelRequestsSent, FrameStepInvariant

LEMMA DispatchCompleteInvariant ==
  ASSUME InductiveInvariant, DispatchComplete
  PROVE  InductiveInvariant'
<1>1. /\ NextEvent.status \in Outcome \ {"none", "dropped"} /\ NextEvent.n \in Nat
  BY NextEventType DEF InductiveInvariant, DispatchComplete, Outcome, RestStatus
<1> QED
  BY <1>1, CompletionInvariant DEF DispatchComplete

LEMMA DispatchCompleteUnheardInvariant ==
  ASSUME InductiveInvariant, DispatchCompleteUnheard
  PROVE  InductiveInvariant'
<1> DEFINE j == NextEvent.id
<1>1. "lost" \in Outcome \ {"none", "dropped"}
  BY DEF Outcome
<1>2. log \in [Jobs -> Log] /\ j \in Jobs
  BY NextEventType DEF InductiveInvariant, TypeOK, RecordTypeOK, DispatchCompleteUnheard
<1>3. log[j].length \in Nat
  BY <1>2 DEF Log
<1>4. [log EXCEPT ![j].outcome = "lost"]
        = [log EXCEPT ![j].outcome = "lost", ![j].length = log[j].length]
  BY <1>2 DEF Log
<1> QED
  BY <1>1, <1>3, <1>4, CompletionInvariant DEF DispatchCompleteUnheard

\* A callback belongs to a request that was sent.
LEMMA NextEventSent ==
  ASSUME InductiveInvariant, mpc = "callback"
  PROVE  NextEvent.id < nextJobId
<1>1. NextEvent.id \in Jobs
  BY NextEventType DEF InductiveInvariant, MainInvariant
<1>2. NextEvent.id \in Nat /\ nextJobId \in Nat
  BY <1>1 DEF Jobs, InductiveInvariant, TypeOK, RecordTypeOK
<1>3. RecordPlaced(NextEvent.id)
  BY <1>1 DEF InductiveInvariant, MainInvariant
<1>4. CASE NextEvent.kind = "Complete"
  BY <1>2, <1>3, <1>4 DEF InductiveInvariant, MainInvariant, RecordPlaced
<1>5. CASE NextEvent.kind # "Complete"
  BY <1>3, <1>5 DEF InductiveInvariant, MainInvariant, RecordPlaced, Found
<1> QED
  BY <1>4, <1>5

LEMMA ReturnFromCallbackInvariant ==
  ASSUME InductiveInvariant, NEW handled \in BOOLEAN, ReturnFromCallback(handled)
  PROVE  InductiveInvariant'
<1> USE DEF ReturnFromCallback, queueVars
<1> DEFINE j == NextEvent.id
<1>1. batch # <<>>
  BY DEF InductiveInvariant, MainInvariant
<1>2. /\ j \in Jobs /\ Tail(batch) \in Seq(TransferEvent)
      /\ records \in [Jobs -> RecordState] /\ log \in [Jobs -> Log]
  BY <1>1, NextEventType DEF InductiveInvariant, TypeOK, RecordTypeOK
<1>3. records'[j] \in {"idle", "absent"} /\ (records'[j] = "idle" <=> records[j] = "dispatching")
  BY <1>2 DEF AfterDispatch
<1>4. records[j] # "idle"
  BY <1>2 DEF InductiveInvariant, MainInvariant, RecordPlaced
<1>5. /\ log' \in [Jobs -> Log]
      /\ \A i \in Jobs : log'[i].outcome = log[i].outcome
                         /\ (log'[i].cancelled => log[i].cancelled \/ (handled /\ i = j))
  <2>1. CASE handled
    <3> DEFINE entry == [log[j] EXCEPT !.cancelled = TRUE]
    <3>1. log' = [log EXCEPT ![j] = entry]
      BY <1>2, <2>1
    <3>2. entry \in Log /\ entry.outcome = log[j].outcome
      BY <1>2 DEF Log
    <3> HIDE DEF entry, j
    <3> QED
      BY <1>2, <2>1, <3>1, <3>2
  <2>2. CASE ~handled
    BY <1>2, <2>2
  <2> QED
    BY <2>1, <2>2
<1>6. cancelRequests' = IF handled THEN cancelRequests \cup {j} ELSE cancelRequests
  BY DEF RequestCancel
<1>7. RecordTypeOK'
  <2>1. records' \in [Jobs -> RecordState]
    BY <1>2, <1>3 DEF RecordState, AfterDispatch
  <2> QED
    BY <1>2, <1>5, <2>1 DEF InductiveInvariant, TypeOK, RecordTypeOK, MainPhase
<1>8. MainInvariant'
  <2>1. \A i \in Jobs : RecordPlaced(i)'
    <3> SUFFICES ASSUME NEW i \in Jobs PROVE RecordPlaced(i)'
      OBVIOUS
    <3>1. RecordPlaced(i)
      BY DEF InductiveInvariant, MainInvariant
    <3>2. CASE i = j
      BY <1>3, <1>4, <1>5, <3>1, <3>2 DEF RecordPlaced, Found
    <3>3. CASE i # j
      BY <1>2, <1>5, <3>1, <3>3 DEF RecordPlaced, Found
    <3> QED
      BY <3>2, <3>3
  <2> QED
    BY <2>1 DEF MainInvariant
<1>9. CancelNeverLost'
  BY <1>2, <1>5, <1>6 DEF InductiveInvariant, CancelNeverLost
<1>10. consumeRequests' \in Seq(Jobs \X Nat) /\ enabled' \in BOOLEAN
  BY <1>1, ConsumeNextEvent DEF InductiveInvariant, TypeOK, QueueTypeOK
<1>11. cancelRequests' \subseteq {i \in Jobs : i < nextJobId}
  <2>1. j < nextJobId
    BY <1>2, <1>3, <1>4, NextEventSent
  <2> QED
    BY <1>2, <1>6, <2>1, CancelRequestsSent
<1> QED
  BY <1>7, <1>8, <1>9, <1>10, <1>11, FrameStepInvariant

LEMMA EndFrameInvariant ==
  ASSUME InductiveInvariant, EndFrame
  PROVE  InductiveInvariant'
<1> USE DEF EndFrame, workerVars, queueVars
<1>1. RecordTypeOK'
  BY DEF InductiveInvariant, TypeOK, RecordTypeOK, MainPhase
<1>2. MainInvariant'
  BY DEF InductiveInvariant, MainInvariant, RecordPlaced, Found
<1>3. CancelNeverLost'
  BY DEF InductiveInvariant, CancelNeverLost
<1>4. consumeRequests' \in Seq(Jobs \X Nat) /\ enabled' \in BOOLEAN
  BY DEF InductiveInvariant, TypeOK, WorkerTypeOK, QueueTypeOK
<1> QED
  BY <1>1, <1>2, <1>3, <1>4, CancelRequestsSent, FrameStepInvariant

LEMMA BeginUnloadInvariant ==
  ASSUME InductiveInvariant, BeginUnload
  PROVE  InductiveInvariant'
<1> USE DEF BeginUnload, workerVars, SetEnabled
<1>1. RecordTypeOK'
  BY DEF InductiveInvariant, TypeOK, RecordTypeOK, MainPhase
<1>2. MainInvariant'
  BY DEF InductiveInvariant, MainInvariant, RecordPlaced, Found
<1>3. CancelNeverLost'
  BY DEF InductiveInvariant, CancelNeverLost
<1>4. consumeRequests' \in Seq(Jobs \X Nat) /\ enabled' \in BOOLEAN
  BY DEF InductiveInvariant, TypeOK, WorkerTypeOK
<1> QED
  BY <1>1, <1>2, <1>3, <1>4, CancelRequestsSent, FrameStepInvariant

LEMMA StopWorkerInvariant ==
  ASSUME InductiveInvariant, StopWorker
  PROVE  InductiveInvariant'
<1> USE DEF StopWorker, mailbox, queueVars
<1>1. RecordTypeOK'
  BY DEF InductiveInvariant, TypeOK, RecordTypeOK, MainPhase
<1>2. MainInvariant'
  BY DEF InductiveInvariant, MainInvariant, RecordPlaced, Found
<1>3. CancelNeverLost'
  BY DEF InductiveInvariant, CancelNeverLost
<1>4. consumeRequests' \in Seq(Jobs \X Nat) /\ enabled' \in BOOLEAN
  BY DEF InductiveInvariant, TypeOK, WorkerTypeOK, QueueTypeOK
<1> QED
  BY <1>1, <1>2, <1>3, <1>4, CancelRequestsSent, FrameStepInvariant

LEMMA FinishUnloadInvariant ==
  ASSUME InductiveInvariant, FinishUnload
  PROVE  InductiveInvariant'
<1> USE DEF InductiveInvariant, FinishUnload, Drain, ThreadJoined
<1>1. /\ jobs \in [Jobs -> RestJobs] /\ xfer \in [Jobs -> Transfers]
      /\ records \in [Jobs -> RecordState] /\ log \in [Jobs -> Log]
  BY DEF TypeOK, WorkerTypeOK, RecordTypeOK
<1>2. taken = NothingTaken /\ Posted
  BY DEF WorkerInvariant
<1>3. \A i \in Jobs :
        \/ i \in active \cup incoming /\ jobs'[i] = DestroyedJob(i)
        \/ i \notin active \cup incoming /\ jobs'[i] = jobs[i]
  BY <1>1
<1>4. \A i \in Jobs :
        \/ i \in active /\ xfer'[i] = NoTransfer
        \/ i \notin active /\ xfer'[i] = xfer[i]
  BY <1>1
<1>5. \A i \in Jobs :
        /\ ~jobs'[i].attached /\ xfer'[i].state = "none"
        /\ i < nextJobId => jobs'[i].finished
        /\ jobs[i].finished => jobs'[i].finished
  BY <1>2, <1>3, <1>4, FreshJobOK, NoTransferType, NothingTakenType
     DEF JobsInvariant, JobPlaced
<1>6. \A i \in Jobs : log'[i].cancelled = log[i].cancelled
                      /\ log'[i].outcome = IF Found(i) THEN "dropped" ELSE log[i].outcome
  BY <1>1 DEF Log
<1>7. TypeOK'
  <2>1. jobs' \in [Jobs -> RestJobs] /\ xfer' \in [Jobs -> Transfers]
    BY <1>1, FreshJobOK, NoTransferType
  <2>2. records' \in [Jobs -> RecordState] /\ log' \in [Jobs -> Log]
    BY <1>1 DEF RecordState, Log, Outcome
  <2>3. <<>> \in Seq(TransferEvent)
    OBVIOUS
  <2>4. RecordTypeOK'
    BY <2>2 DEF TypeOK, RecordTypeOK, MainPhase
  <2>5. WorkerTypeOK'
    BY <2>1 DEF TypeOK, WorkerTypeOK
  <2> QED
    BY <2>3, <2>4, <2>5 DEF TypeOK, QueueTypeOK
<1>8. JobsInvariant'
  <2> SUFFICES ASSUME NEW i \in Jobs PROVE JobPlaced(i)'
    BY DEF JobsInvariant
  <2>1. JobPlaced(i)
    BY DEF JobsInvariant
  <2>2. taken'.incoming = {} /\ taken'.cancels = {} /\ active' = {} /\ incoming' = {}
        /\ cancelRequests' = cancelRequests /\ nextJobId' = nextJobId
    BY <1>2, NothingTakenType
  <2>3. CASE i \in active \cup incoming
    <3>1. i < nextJobId /\ ~(i >= nextJobId)
      <4>1. i \in Nat /\ nextJobId \in Nat
        BY DEF Jobs, TypeOK, RecordTypeOK
      <4> QED
        BY <2>1, <2>3, <4>1 DEF JobPlaced
    <3>2. jobs'[i] = DestroyedJob(i)
      BY <1>3, <2>3
    <3> QED
      BY <1>5, <2>1, <2>2, <3>1, <3>2, FreshJobOK DEF JobPlaced
  <2>4. CASE i \notin active \cup incoming
    <3>1. jobs'[i] = jobs[i]
      BY <1>3, <2>4
    <3> QED
      BY <1>5, <2>1, <2>2, <2>4, <3>1 DEF JobPlaced
  <2> QED
    BY <2>3, <2>4
<1>9. WorkerInvariant'
  BY DEF WorkerInvariant, Posted
<1>10. MainInvariant'
  <2>1. \A i \in Jobs : RecordPlaced(i)'
    <3> SUFFICES ASSUME NEW i \in Jobs PROVE RecordPlaced(i)'
      OBVIOUS
    <3>1. RecordPlaced(i) /\ records'[i] = "absent"
          /\ i \in Nat /\ nextJobId \in Nat
      BY DEF MainInvariant, Jobs, TypeOK, RecordTypeOK
    <3>2. i < nextJobId => log'[i].outcome # "none"
      BY <1>1, <1>6, <3>1 DEF RecordPlaced, Found
    <3>3. i >= nextJobId => log'[i].outcome = "none"
      BY <1>6, <3>1 DEF RecordPlaced, Found
    <3> QED
      BY <3>1, <3>2, <3>3 DEF RecordPlaced, Found
  <2> QED
    BY <2>1 DEF MainInvariant
<1>11. CancelNeverLost'
  <2> SUFFICES ASSUME NEW i \in Jobs, (log[i].cancelled \/ log[i].outcome = "dropped")'
               PROVE  (i \in cancelRequests \/ i \in taken.cancels \/ jobs[i].finished)'
    BY DEF CancelNeverLost
  <2>1. Found(i) => i < nextJobId
    BY DEF MainInvariant, RecordPlaced
  <2> QED
    BY <1>5, <1>6, <2>1 DEF CancelNeverLost
<1>12. UnloadedClean'
  BY <1>2, <1>5 DEF UnloadedClean, Posted, HasEvents, Found
<1> QED
  BY <1>7, <1>8, <1>9, <1>10, <1>11, <1>12

LEMMA StutteringInvariant ==
  ASSUME InductiveInvariant, UNCHANGED vars
  PROVE  InductiveInvariant'
<1> USE DEF InductiveInvariant, vars, workerVars, queueVars, mainVars
<1>1. TypeOK'
  BY DEF TypeOK, RecordTypeOK, WorkerTypeOK, QueueTypeOK
<1>2. JobsInvariant'
  BY DEF JobsInvariant, JobPlaced
<1>3. WorkerInvariant'
  BY DEF WorkerInvariant, Posted
<1>4. MainInvariant'
  BY DEF MainInvariant, RecordPlaced, Found, NextEvent
<1>5. CancelNeverLost'
  BY DEF CancelNeverLost
<1>6. UnloadedClean'
  BY DEF UnloadedClean, Posted, HasEvents, Found
<1> QED
  BY <1>1, <1>2, <1>3, <1>4, <1>5, <1>6

----------------------------------------------------------------------------
(* Every step *)

LEMMA MainControlInvariant ==
  ASSUME InductiveInvariant, MainControl
  PROVE  InductiveInvariant'
<1>1. ASSUME NEW handled \in BOOLEAN, ReturnFromCallback(handled) PROVE InductiveInvariant'
  BY <1>1, ReturnFromCallbackInvariant
<1> QED
  BY <1>1, OnGameFrameInvariant, SkipEventInvariant, HandleIntermediateInvariant,
     HandleIntermediateUnheardInvariant, DispatchCompleteInvariant,
     DispatchCompleteUnheardInvariant, EndFrameInvariant, StopWorkerInvariant,
     FinishUnloadInvariant
     DEF MainControl

LEMMA WorkerNextInvariant ==
  ASSUME InductiveInvariant, WorkerNext
  PROVE  InductiveInvariant'
<1>1. ASSUME NEW j \in Jobs,
             \/ WorkerStep(AdmitIncoming(j)) \/ WorkerStep(ApplyCancellation(j))
             \/ WorkerStep(StartDueRetry(j)) \/ WorkerStep(ReapCompleted(j))
      PROVE  InductiveInvariant'
  BY <1>1, AdmitIncomingInvariant, ApplyCancellationInvariant, StartDueRetryInvariant,
     ReapCompletedInvariant
<1>2. ASSUME NEW j \in Jobs,
             \/ \E status \in Statuses : WorkerStep(CurlHeaders(j, status))
             \/ WorkerStep(CurlTrailers(j))
             \/ WorkerStep(CurlProgress(j)) \/ WorkerStep(CurlDone(j))
      PROVE  InductiveInvariant'
  BY <1>2, CurlHeadersInvariant, CurlTrailersInvariant, CurlProgressInvariant,
     CurlDoneInvariant
<1>3. ASSUME NEW j \in Jobs, NEW total \in 1..MaxWrite,
             WorkerStep(CurlWrite(j, total)) \/ WorkerStep(CurlWriteStream(j, total))
      PROVE  InductiveInvariant'
  <2>1. total \in Nat
    OBVIOUS
  <2> QED
    BY <1>3, <2>1, CurlWriteInvariant, CurlWriteStreamInvariant
<1> QED
  BY <1>1, <1>2, <1>3, PostInvariant, TakePendingInvariant, ExitLoopInvariant,
     ApplyConsumedInvariant, BeginPerformInvariant, EndPerformInvariant,
     RemoveFinishedInvariant
     DEF WorkerNext

LEMMA NextInvariant == InductiveInvariant /\ [Next]_vars => InductiveInvariant'
<1> SUFFICES ASSUME InductiveInvariant, [Next]_vars PROVE InductiveInvariant'
  OBVIOUS
<1> QED
  BY NativesInvariant, MainControlInvariant, BeginUnloadInvariant, WorkerNextInvariant,
     StutteringInvariant
     DEF Next, Unloaded

----------------------------------------------------------------------------
(* The theorems *)

\* The inductive invariant of the pipeline holds whatever the number of
\* requests, clients and plugins, the sizes and the retry limit.
THEOREM InductiveInvariantHolds == Spec => []InductiveInvariant
BY InitInvariant, NextInvariant, PTL DEF Spec

\* Every member of the three classes keeps its type; in particular no count of
\* bytes ever becomes negative (they are unsigned in the code).
THEOREM TypeCorrect == Spec => []TypeOK
BY InductiveInvariantHolds, PTL DEF InductiveInvariant

\* No accepted request to cancel is forgotten before its job is over
\* (RestExtension::CancelJob, DropJob; TransferThread::ApplyCancellations).
THEOREM CancellationsArrive == Spec => []CancelNeverLost
BY InductiveInvariantHolds, PTL DEF InductiveInvariant

\* Unloading leaves no thread, job, transfer, event or record behind
\* (SDK_OnUnload, TransferThread::Stop).
THEOREM UnloadLeavesNothing == Spec => []UnloadedClean
BY InductiveInvariantHolds, PTL DEF InductiveInvariant

\* A job is tried once and retried MaxRetries times at most, whatever mixture
\* of network errors, timeouts and statuses it meets (RestJob::CanRetry).
THEOREM RetriesBounded == Spec => []AttemptsBounded
<1>1. InductiveInvariant => AttemptsBounded
  BY DEF InductiveInvariant, JobsInvariant, JobPlaced, JobInvariant, AttemptsBounded
<1> QED
  BY <1>1, InductiveInvariantHolds, PTL

\* curl holds a handle, and so a pointer to its RestJob, only while that job is
\* active and unfinished (RestJob::ReleaseEasy, TransferThread::RemoveFinished).
THEOREM TransfersHaveLiveJobs == Spec => []TransferHasLiveJob
<1>1. InductiveInvariant => TransferHasLiveJob
  BY DEF InductiveInvariant, JobsInvariant, JobPlaced, JobInvariant, TransferHasLiveJob
<1> QED
  BY <1>1, InductiveInvariantHolds, PTL

\* While a headers, data or progress callback runs, the record that
\* HandleIntermediate goes on to use is there, whatever the callback cancels,
\* deletes or unloads (RestExtension::DropJob, JobRecord::dispatching).
THEOREM RecordsOutliveCallbacks == Spec => []RecordOutlivesCallback
<1>1. InductiveInvariant => RecordOutlivesCallback
  BY DEF InductiveInvariant, MainInvariant, RecordOutlivesCallback, Found
<1> QED
  BY <1>1, InductiveInvariantHolds, PTL

----------------------------------------------------------------------------
(* The contract *)

\* What the mapping makes of a state, and of an outcome.
Phases == [j \in Jobs |-> RequestPhase(j)]

Calling == IF mpc = "callback" THEN Head(batch).id ELSE 0

ContractStep == [Contract!ContractNext]_(Contract!contractVars)

LEMMA PhaseOf ==
  ASSUME NEW j \in Jobs
  PROVE  /\ log[j].outcome \in RestStatus => RequestPhase(j) = "completed"
         /\ log[j].outcome = "dropped" => RequestPhase(j) = "dropped"
         /\ log[j].outcome = "lost" => RequestPhase(j) = "lost"
         /\ log[j].outcome = "none" /\ j < nextJobId => RequestPhase(j) = "live"
         /\ log[j].outcome = "none" /\ ~(j < nextJobId) => RequestPhase(j) = "unsent"
BY DEF RequestPhase, RestStatus

\* The plugin sees nothing of a step that keeps outcomes, ids and callbacks.
LEMMA QuietStep ==
  ASSUME \A j \in Jobs : log'[j].outcome = log[j].outcome,
         nextJobId' = nextJobId,
         Calling' = Calling
  PROVE  ContractStep
<1>1. \A j \in Jobs : RequestPhase(j)' = RequestPhase(j)
  BY DEF RequestPhase
<1>2. Phases' = Phases
  BY <1>1 DEF Phases
<1> QED
  BY <1>2 DEF ContractStep, Contract!contractVars, Phases, Calling

LEMMA WorkerStepIsQuiet ==
  ASSUME UNCHANGED mainVars
  PROVE  ContractStep
BY QuietStep DEF mainVars, Calling

LEMMA SubmitJobSends ==
  ASSUME InductiveInvariant, SubmitJob
  PROVE  ContractStep
<1> USE DEF SubmitJob, unchangedByNatives
<1>1. PICK j \in Jobs : j = nextJobId
  BY DEF InductiveInvariant, TypeOK, RecordTypeOK, Jobs
<1>2. j \in Nat /\ nextJobId' = j + 1 /\ log' = log
  BY <1>1 DEF Jobs
<1>3. log[j].outcome = "none"
  BY <1>1, <1>2 DEF InductiveInvariant, MainInvariant, RecordPlaced
<1>4. Phases[j] = "unsent"
  BY <1>1, <1>2, <1>3, PhaseOf DEF Phases
<1>5. RequestPhase(j)' = "live"
  BY <1>2, <1>3 DEF RequestPhase, RestStatus
<1>6. \A i \in Jobs \ {j} : RequestPhase(i)' = RequestPhase(i)
  <2> SUFFICES ASSUME NEW i \in Jobs \ {j} PROVE RequestPhase(i)' = RequestPhase(i)
    OBVIOUS
  <2>1. i < nextJobId' <=> i < nextJobId
    BY <1>1, <1>2 DEF Jobs
  <2> QED
    BY <1>2, <2>1 DEF RequestPhase
<1>7. Phases' = [Phases EXCEPT ![j] = "live"]
  BY <1>5, <1>6 DEF Phases
<1>8. Calling' = Calling
  BY DEF Calling
<1>9. Contract!Send(j) /\ j \in Contract!Requests
  BY <1>4, <1>7, <1>8 DEF Contract!Send, Contract!Requests, Jobs, Phases, Calling
<1> QED
  BY <1>9 DEF ContractStep, Contract!ContractNext

\* The requests of S that were not over yet are dropped.
LEMMA DroppedPhases ==
  ASSUME InductiveInvariant, NEW S \in SUBSET Jobs,
         \A j \in S : log'[j].outcome = "dropped"
                      /\ j < nextJobId /\ log[j].outcome \in {"none", "dropped"},
         \A j \in Jobs \ S : log'[j].outcome = log[j].outcome,
         nextJobId' = nextJobId,
         Calling' = Calling
  PROVE  ContractStep
<1> DEFINE R == {j \in S : log[j].outcome = "none"}
<1>1. \A j \in R : Phases[j] = "live"
  BY PhaseOf DEF Phases
<1>2. \A j \in R : RequestPhase(j)' = "dropped"
  BY DEF RequestPhase, RestStatus
<1>3. \A j \in Jobs \ R : RequestPhase(j)' = RequestPhase(j)
  <2> SUFFICES ASSUME NEW j \in Jobs \ R PROVE RequestPhase(j)' = RequestPhase(j)
    OBVIOUS
  <2>1. log'[j].outcome = log[j].outcome
    OBVIOUS
  <2> QED
    BY <2>1 DEF RequestPhase
<1>4. Phases' = [j \in Jobs |-> IF j \in R THEN "dropped" ELSE Phases[j]]
  BY <1>2, <1>3 DEF Phases
<1>5. R \in SUBSET Jobs
  OBVIOUS
<1> HIDE DEF R
<1>6. Contract!Requests = Jobs
  BY DEF Contract!Requests, Jobs
<1>7. Contract!Drop(R)
  BY <1>1, <1>4, <1>6 DEF Contract!Drop, Phases, Calling
<1> QED
  BY <1>5, <1>6, <1>7 DEF ContractStep, Contract!ContractNext

\* A request that has a record was sent, and did not end before a drop.
LEMMA FoundOutcome ==
  ASSUME InductiveInvariant, NEW j \in Jobs, Found(j)
  PROVE  j < nextJobId /\ log[j].outcome \in {"none", "dropped"}
<1>1. RecordPlaced(j) /\ records[j] \in RecordState
  BY DEF InductiveInvariant, MainInvariant, TypeOK, RecordTypeOK
<1> QED
  BY <1>1 DEF RecordPlaced, Found, RecordState

LEMMA DropJobsDrops ==
  ASSUME InductiveInvariant, NEW S \in SUBSET Jobs, \A j \in S : Found(j),
         DropJobs(S), nextJobId' = nextJobId, UNCHANGED <<mpc, batch>>
  PROVE  ContractStep
<1>1. log \in [Jobs -> Log]
  BY DEF InductiveInvariant, TypeOK, RecordTypeOK
<1>2. \A j \in Jobs : log'[j].outcome = IF j \in S THEN "dropped" ELSE log[j].outcome
  BY <1>1 DEF DropJobs, Log
<1>3. Calling' = Calling
  BY DEF Calling
<1> QED
  BY <1>2, <1>3, FoundOutcome, DroppedPhases

LEMMA CancelledIsQuiet ==
  ASSUME InductiveInvariant, NEW S \in SUBSET Jobs, Cancelled(S),
         nextJobId' = nextJobId, UNCHANGED <<mpc, batch>>
  PROVE  ContractStep
<1>1. \A j \in Jobs : log'[j].outcome = log[j].outcome
  BY DEF InductiveInvariant, TypeOK, RecordTypeOK, Cancelled, Log
<1>2. Calling' = Calling
  BY DEF Calling
<1> QED
  BY <1>1, <1>2, QuietStep

LEMMA NativesRefine ==
  ASSUME InductiveInvariant, Natives
  PROVE  ContractStep
<1>1. ASSUME NEW j \in Jobs, CancelJob(j) PROVE ContractStep
  BY <1>1, CancelledIsQuiet DEF CancelJob, unchangedByNatives
<1>2. ASSUME NEW c \in Clients, NEW p \in Plugins, CancelJobsForClient(c, p)
      PROVE  ContractStep
  BY <1>2, CancelledIsQuiet DEF CancelJobsForClient, FoundForClient, unchangedByNatives
<1>3. ASSUME NEW c \in Clients, OnHandleDestroy(c) PROVE ContractStep
  BY <1>3, DropJobsDrops DEF OnHandleDestroy, FoundForClient, unchangedByNatives
<1>4. ASSUME NEW p \in Plugins, OnPluginUnloaded(p) PROVE ContractStep
  BY <1>4, DropJobsDrops DEF OnPluginUnloaded, unchangedByNatives
<1> QED
  BY <1>1, <1>2, <1>3, <1>4, SubmitJobSends DEF Natives

LEMMA FrameRefines ==
  ASSUME OnGameFrame \/ SkipEvent \/ EndFrame \/ BeginUnload \/ StopWorker
  PROVE  ContractStep
<1>1. Calling' = Calling /\ log' = log /\ nextJobId' = nextJobId
  BY DEF Calling, OnGameFrame, SkipEvent, EndFrame, BeginUnload, StopWorker
<1> QED
  BY <1>1, QuietStep

LEMMA HandleIntermediateCalls ==
  ASSUME InductiveInvariant, HandleIntermediate
  PROVE  ContractStep
<1> USE DEF HandleIntermediate
<1>1. PICK j \in Jobs : j = NextEvent.id
  BY NextEventType DEF InductiveInvariant
<1>2. \A i \in Jobs : log'[i].outcome = log[i].outcome
  BY LogIntermediateEffect DEF InductiveInvariant
<1>3. Phases' = Phases
  BY <1>2 DEF Phases, RequestPhase
<1>4. records[j] = "idle"
  BY <1>1 DEF InductiveInvariant, TypeOK, RecordTypeOK, MainInvariant, RecordPlaced, Found,
              RecordState
<1>5. Phases[j] = "live"
  BY <1>4, PhaseOf DEF Phases, InductiveInvariant, MainInvariant, RecordPlaced
<1>6. Calling = 0 /\ Calling' = j
  BY <1>1 DEF Calling, NextEvent
<1>7. Contract!CallIntermediate(j) /\ j \in Contract!Requests
  BY <1>3, <1>5, <1>6 DEF Contract!CallIntermediate, Contract!Requests, Jobs, Phases, Calling
<1> QED
  BY <1>7 DEF ContractStep, Contract!ContractNext

LEMMA HandleIntermediateUnheardIsQuiet ==
  ASSUME InductiveInvariant, HandleIntermediateUnheard
  PROVE  ContractStep
<1>1. \A i \in Jobs : log'[i].outcome = log[i].outcome
  BY LogIntermediateEffect DEF InductiveInvariant, HandleIntermediateUnheard
<1>2. Calling' = Calling /\ nextJobId' = nextJobId
  BY DEF HandleIntermediateUnheard, Calling
<1> QED
  BY <1>1, <1>2, QuietStep

\* A Complete event decides the outcome of a live request.
LEMMA CompletionPhases ==
  ASSUME InductiveInvariant, mpc = "batch", batch # <<>>, Found(NextEvent.id),
         NEW j \in Jobs, j = NextEvent.id, NEW outcome \in Outcome,
         log'[j].outcome = outcome,
         \A i \in Jobs \ {j} : log'[i].outcome = log[i].outcome,
         nextJobId' = nextJobId
  PROVE  /\ Phases[j] = "live"
         /\ outcome \in RestStatus => Phases' = [Phases EXCEPT ![j] = "completed"]
         /\ outcome = "lost" => Phases' = [Phases EXCEPT ![j] = "lost"]
<1>1. records[j] = "idle"
  BY DEF InductiveInvariant, TypeOK, RecordTypeOK, MainInvariant, RecordPlaced, Found,
         RecordState
<1>2. Phases[j] = "live"
  BY <1>1, PhaseOf DEF Phases, InductiveInvariant, MainInvariant, RecordPlaced
<1>3. \A i \in Jobs \ {j} : RequestPhase(i)' = RequestPhase(i)
  <2> SUFFICES ASSUME NEW i \in Jobs \ {j} PROVE RequestPhase(i)' = RequestPhase(i)
    OBVIOUS
  <2>1. log'[i].outcome = log[i].outcome
    OBVIOUS
  <2> QED
    BY <2>1 DEF RequestPhase
<1>4. outcome \in RestStatus => RequestPhase(j)' = "completed"
  BY DEF RequestPhase, RestStatus
<1>5. outcome = "lost" => RequestPhase(j)' = "lost"
  BY DEF RequestPhase, RestStatus
<1> QED
  BY <1>2, <1>3, <1>4, <1>5 DEF Phases

LEMMA DispatchCompleteCalls ==
  ASSUME InductiveInvariant, DispatchComplete
  PROVE  ContractStep
<1> USE DEF DispatchComplete
<1>1. PICK j \in Jobs : j = NextEvent.id
  BY NextEventType DEF InductiveInvariant
<1>2. NextEvent.status \in RestStatus /\ NextEvent.status \in Outcome
  BY NextEventType DEF InductiveInvariant, Outcome
<1>3. /\ log'[j].outcome = NextEvent.status
      /\ \A i \in Jobs \ {j} : log'[i].outcome = log[i].outcome
  BY <1>1 DEF InductiveInvariant, TypeOK, RecordTypeOK, Log
<1>4. Phases[j] = "live" /\ Phases' = [Phases EXCEPT ![j] = "completed"]
  BY <1>1, <1>2, <1>3, CompletionPhases
<1>5. Calling = 0 /\ Calling' = j
  BY <1>1 DEF Calling, NextEvent
<1>6. Contract!CallCompleted(j) /\ j \in Contract!Requests
  BY <1>4, <1>5 DEF Contract!CallCompleted, Contract!Requests, Jobs, Phases, Calling
<1> QED
  BY <1>6 DEF ContractStep, Contract!ContractNext

LEMMA DispatchCompleteUnheardLoses ==
  ASSUME InductiveInvariant, DispatchCompleteUnheard
  PROVE  ContractStep
<1> USE DEF DispatchCompleteUnheard
<1>1. PICK j \in Jobs : j = NextEvent.id
  BY NextEventType DEF InductiveInvariant
<1>2. /\ log'[j].outcome = "lost"
      /\ \A i \in Jobs \ {j} : log'[i].outcome = log[i].outcome
  BY <1>1 DEF InductiveInvariant, TypeOK, RecordTypeOK, Log
<1>3. "lost" \in Outcome
  BY DEF Outcome
<1>4. Phases[j] = "live" /\ Phases' = [Phases EXCEPT ![j] = "lost"]
  BY <1>1, <1>2, <1>3, CompletionPhases
<1>5. Calling = 0 /\ Calling' = 0
  BY DEF Calling
<1>6. Contract!CallNobody(j) /\ j \in Contract!Requests
  BY <1>4, <1>5 DEF Contract!CallNobody, Contract!Requests, Jobs, Phases, Calling
<1> QED
  BY <1>6 DEF ContractStep, Contract!ContractNext

LEMMA ReturnFromCallbackReturns ==
  ASSUME InductiveInvariant, NEW handled \in BOOLEAN, ReturnFromCallback(handled)
  PROVE  ContractStep
<1> USE DEF ReturnFromCallback
<1>1. NextEvent.id \in Jobs
  BY NextEventType DEF InductiveInvariant, MainInvariant
<1>2. Calling # 0 /\ Calling' = 0
  BY <1>1 DEF Calling, NextEvent, Jobs
<1>3. \A i \in Jobs : log'[i].outcome = log[i].outcome
  <2>1. log \in [Jobs -> Log]
    BY DEF InductiveInvariant, TypeOK, RecordTypeOK
  <2>2. CASE handled
    <3>1. PICK k \in Jobs : log' = [log EXCEPT ![k] = [@ EXCEPT !.cancelled = TRUE]]
      BY <1>1, <2>2
    <3>2. \A i \in Jobs : log[i] \in Log
      BY <2>1
    <3> HIDE DEF ReturnFromCallback
    <3>3. \A i \in Jobs : log'[i] = IF i = k THEN [log[i] EXCEPT !.cancelled = TRUE] ELSE log[i]
      BY <2>1, <3>1
    <3> QED
      BY <3>2, <3>3 DEF Log
  <2>3. CASE ~handled
    BY <2>3
  <2> QED
    BY <2>2, <2>3
<1>4. Phases' = Phases
  BY <1>3 DEF Phases, RequestPhase
<1>5. Contract!Return
  BY <1>2, <1>4 DEF Contract!Return, Phases, Calling
<1> QED
  BY <1>5 DEF ContractStep, Contract!ContractNext

LEMMA FinishUnloadDrops ==
  ASSUME InductiveInvariant, FinishUnload
  PROVE  ContractStep
<1> DEFINE S == {j \in Jobs : Found(j)}
<1>1. log \in [Jobs -> Log]
  BY DEF InductiveInvariant, TypeOK, RecordTypeOK
<1>2. \A j \in Jobs : log'[j].outcome = IF j \in S THEN "dropped" ELSE log[j].outcome
  BY <1>1 DEF FinishUnload, Log
<1>3. \A j \in S : j < nextJobId /\ log[j].outcome \in {"none", "dropped"}
  BY FoundOutcome
<1>4. Calling' = Calling /\ nextJobId' = nextJobId
  BY DEF FinishUnload, Calling
<1>5. S \in SUBSET Jobs
  OBVIOUS
<1> HIDE DEF S
<1> QED
  BY <1>2, <1>3, <1>4, <1>5, DroppedPhases

LEMMA MainControlRefines ==
  ASSUME InductiveInvariant, MainControl
  PROVE  ContractStep
<1>1. ASSUME NEW handled \in BOOLEAN, ReturnFromCallback(handled) PROVE ContractStep
  BY <1>1, ReturnFromCallbackReturns
<1> QED
  BY <1>1, FrameRefines, HandleIntermediateCalls, HandleIntermediateUnheardIsQuiet,
     DispatchCompleteCalls, DispatchCompleteUnheardLoses, FinishUnloadDrops
     DEF MainControl

LEMMA NextRefines == InductiveInvariant /\ [Next]_vars => ContractStep
<1> SUFFICES ASSUME InductiveInvariant, [Next]_vars PROVE ContractStep
  OBVIOUS
<1>1. WorkerNext => UNCHANGED mainVars
  BY DEF WorkerNext, WorkerStep
<1>2. UNCHANGED vars => UNCHANGED mainVars
  BY DEF vars
<1> QED
  BY <1>1, <1>2, NativesRefine, MainControlRefines, FrameRefines, WorkerStepIsQuiet
     DEF Next, Unloaded

LEMMA InitRefines == Init => Contract!ContractInit
<1> SUFFICES ASSUME Init PROVE Contract!ContractInit
  OBVIOUS
<1>1. \A j \in Jobs : RequestPhase(j) = "unsent"
  <2> SUFFICES ASSUME NEW j \in Jobs PROVE RequestPhase(j) = "unsent"
    OBVIOUS
  <2>1. log[j].outcome = "none" /\ ~(j < nextJobId)
    BY DEF Init, Jobs
  <2> QED
    BY <2>1, PhaseOf
<1> QED
  BY <1>1 DEF Init, Contract!ContractInit, Contract!Requests, Jobs

\* Whatever the worker, the network and the other plugins do, a plugin sees
\* what rest.inc promises: callbacks one at a time, none before Send, after the
\* completed callback or after a drop (HandleEvent, HandleIntermediate, DropJob).
THEOREM PipelineImplementsContract == Spec => ImplementsContract
BY InitRefines, NextRefines, InductiveInvariantHolds, PTL
   DEF Spec, ImplementsContract, Contract!ContractSpec, ContractStep

----------------------------------------------------------------------------
(* Drops reach only whom they are meant for *)

\* A step after which no more requests are dropped than before.
LEMMA NoNewDrop ==
  ASSUME DropIsScoped,
         \A j \in Jobs : log'[j].outcome = "dropped" => log[j].outcome = "dropped",
         clients' \subseteq clients, plugins' \subseteq plugins,
         mpc # "unloaded"
  PROVE  DropIsScoped'
BY DEF DropIsScoped

LEMMA NativesDropScoped ==
  ASSUME InductiveInvariant, DropIsScoped, Natives
  PROVE  DropIsScoped'
<1>1. log \in [Jobs -> Log] /\ ClientOf \in [Jobs -> Clients] /\ OwnerOf \in [Jobs -> Plugins]
  BY RestExtensionAssumption DEF InductiveInvariant, TypeOK, RecordTypeOK
<1>2. CASE SubmitJob
  BY <1>2, NoNewDrop DEF SubmitJob, NativesCallable, unchangedByNatives
<1>3. ASSUME NEW S \in SUBSET Jobs, Cancelled(S), NativesCallable,
             UNCHANGED <<clients, plugins>>
      PROVE  DropIsScoped'
  <2>1. \A j \in Jobs : log'[j].outcome = log[j].outcome
    BY <1>1, <1>3 DEF Cancelled, Log
  <2> QED
    BY <1>3, <2>1, NoNewDrop DEF NativesCallable
<1>4. ASSUME NEW c \in Clients, OnHandleDestroy(c) PROVE DropIsScoped'
  <2>1. \A j \in Jobs : log'[j].outcome = "dropped" =>
                          log[j].outcome = "dropped" \/ ClientOf[j] = c
    BY <1>1, <1>4 DEF OnHandleDestroy, DropJobs, FoundForClient, Log
  <2>2. clients' = clients \ {c} /\ plugins' = plugins /\ mpc # "unloaded"
    BY <1>4 DEF OnHandleDestroy, NativesCallable
  <2> QED
    BY <2>1, <2>2 DEF DropIsScoped
<1>5. ASSUME NEW p \in Plugins, OnPluginUnloaded(p) PROVE DropIsScoped'
  <2>1. \A j \in Jobs : log'[j].outcome = "dropped" =>
                          log[j].outcome = "dropped" \/ OwnerOf[j] = p
    BY <1>1, <1>5 DEF OnPluginUnloaded, DropJobs, Log
  <2>2. plugins' = plugins \ {p} /\ clients' = clients /\ mpc # "unloaded"
    BY <1>5 DEF OnPluginUnloaded, NativesCallable
  <2> QED
    BY <2>1, <2>2 DEF DropIsScoped
<1>6. ASSUME NEW j \in Jobs, CancelJob(j) PROVE DropIsScoped'
  BY <1>3, <1>6 DEF CancelJob
<1>7. ASSUME NEW c \in Clients, NEW p \in Plugins, CancelJobsForClient(c, p)
      PROVE  DropIsScoped'
  BY <1>3, <1>7 DEF CancelJobsForClient, FoundForClient
<1> QED
  BY <1>2, <1>4, <1>5, <1>6, <1>7 DEF Natives

LEMMA MainControlDropsScoped ==
  ASSUME InductiveInvariant, DropIsScoped, MainControl
  PROVE  DropIsScoped'
<1>1. log \in [Jobs -> Log]
  BY DEF InductiveInvariant, TypeOK, RecordTypeOK
<1>2. CASE OnGameFrame \/ SkipEvent \/ EndFrame \/ StopWorker
  BY <1>2, NoNewDrop DEF OnGameFrame, SkipEvent, EndFrame, StopWorker
<1>3. CASE HandleIntermediate \/ HandleIntermediateUnheard
  <2>1. \A j \in Jobs : log'[j].outcome = log[j].outcome
    BY <1>3, LogIntermediateEffect
       DEF InductiveInvariant, HandleIntermediate, HandleIntermediateUnheard
  <2> QED
    BY <1>3, <2>1, NoNewDrop DEF HandleIntermediate, HandleIntermediateUnheard
<1>4. CASE DispatchComplete
  <2>1. NextEvent.status # "dropped" /\ NextEvent.id \in Jobs
    BY <1>4, NextEventType DEF InductiveInvariant, DispatchComplete, RestStatus
  <2>2. \A j \in Jobs : log'[j].outcome = "dropped" => log[j].outcome = "dropped"
    BY <1>1, <1>4, <2>1 DEF DispatchComplete, Log
  <2> QED
    BY <1>4, <2>2, NoNewDrop DEF DispatchComplete
<1>5. CASE DispatchCompleteUnheard
  <2>1. \A j \in Jobs : log'[j].outcome = "dropped" => log[j].outcome = "dropped"
    BY <1>1, <1>5 DEF DispatchCompleteUnheard, Log
  <2> QED
    BY <1>5, <2>1, NoNewDrop DEF DispatchCompleteUnheard
<1>6. ASSUME NEW handled \in BOOLEAN, ReturnFromCallback(handled) PROVE DropIsScoped'
  <2>1. log' = log \/ log' = [log EXCEPT ![NextEvent.id].cancelled = TRUE]
    BY <1>6 DEF ReturnFromCallback
  <2>2. \A j \in Jobs : log'[j].outcome = log[j].outcome
    BY <1>1, <2>1 DEF Log
  <2> QED
    BY <1>6, <2>2, NoNewDrop DEF ReturnFromCallback
<1>7. CASE FinishUnload
  BY <1>7 DEF FinishUnload, DropIsScoped
<1> QED
  BY <1>2, <1>3, <1>4, <1>5, <1>6, <1>7 DEF MainControl

\* A request is dropped only if its own client was deleted, its own plugin
\* unloaded or the extension unloaded (FoundForClient, OnPluginUnloaded).
THEOREM DropsScoped == Spec => []DropIsScoped
<1>1. Init => DropIsScoped
  BY DEF Init, DropIsScoped
<1>2. InductiveInvariant /\ DropIsScoped /\ [Next]_vars => DropIsScoped'
  <2> SUFFICES ASSUME InductiveInvariant, DropIsScoped, [Next]_vars PROVE DropIsScoped'
    OBVIOUS
  <2>1. CASE BeginUnload
    BY <2>1, NoNewDrop DEF BeginUnload
  <2>2. CASE WorkerNext \/ UNCHANGED vars
    <3>1. UNCHANGED mainVars
      BY <2>2 DEF WorkerNext, WorkerStep, vars
    <3> QED
      BY <3>1 DEF mainVars, DropIsScoped
  <2> QED
    BY <2>1, <2>2, NativesDropScoped, MainControlDropsScoped DEF Next, Unloaded
<1> QED
  BY <1>1, <1>2, InductiveInvariantHolds, PTL DEF Spec
=============================================================================
