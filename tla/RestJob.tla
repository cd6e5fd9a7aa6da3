------------------------------ MODULE RestJob ------------------------------
(***************************************************************************)
(* One request as the transfer thread sees it: class RestJob (src/job.h,   *)
(* src/job.cpp).  The members that decide what the job does next are the   *)
(* fields of a record, and every method is an operator from the record to  *)
(* the record after the call.  Byte counts are in small units.  The events *)
(* a method posts are appended to the field out in the order of the calls; *)
(* TransferThread moves them to the main thread queue one by one.          *)
(*                                                                         *)
(* Left out as data: headers, URLs, error texts, authentication, the body  *)
(* sent, and the bytes of the files (only whether a file operation fails). *)
(***************************************************************************)
EXTENDS Integers, Sequences

CONSTANTS
  MaxJobs,      \* number of requests a behaviour may send (bound)
  StreamJobs,   \* requests with OnData, spec.streamData
  FileJobs,     \* requests with SetOutputFile, spec.outputPath not empty
  UploadJobs,   \* requests with SetBodyFile, spec.bodyKind = BodyKind::File
  HeaderJobs,   \* requests with OnHeaders, spec.wantHeaders
  MaxRetries,   \* ClientConfig::maxRetries
  MaxBodySize,  \* ClientConfig::maxBodySize, as the size_t it is compared as
  MaxErrorBody, \* kMaxErrorBody
  ChunkSize,    \* ClientConfig::chunkSize, as the size_t it is compared as
  HighWater,    \* kStreamHighWater
  LowWater      \* kStreamLowWater

Jobs == 1..MaxJobs

ASSUME RestJobAssumption ==
  /\ MaxJobs \in Nat \ {0}
  /\ StreamJobs \subseteq Jobs /\ FileJobs \subseteq Jobs
  /\ UploadJobs \subseteq Jobs /\ HeaderJobs \subseteq Jobs
  /\ MaxRetries \in Int
  /\ MaxBodySize \in Nat /\ MaxErrorBody \in Nat /\ ChunkSize \in Nat
  /\ LowWater \in Nat \ {0} /\ HighWater \in Nat /\ LowWater <= HighWater

RestStatus ==
  {"Ok", "HttpError", "NetworkError", "Timeout", "IoError", "TooLarge", "Cancelled"}

\* The CURLcodes the code tells apart; RECV_ERROR stands for every other one,
\* PEER_FAILED_VERIFICATION for the five that job.cpp never retries.
CurlCode ==
  {"OK", "WRITE_ERROR", "READ_ERROR", "ABORTED_BY_CALLBACK",
   "PEER_FAILED_VERIFICATION", "OPERATION_TIMEDOUT", "RECV_ERROR"}

\* TransferEvent: n is the body size of a Data event and bodyLength of a
\* Complete event; status matters for Complete only.
Event(kind, id, n, status) == [kind |-> kind, id |-> id, n |-> n, status |-> status]

EventKind == {"Progress", "Headers", "Data", "Complete"}

TransferEvent == [kind : EventKind, id : Jobs, n : Nat, status : RestStatus]

RestJobs ==
  [id : Jobs, attempt : Nat, attached : BOOLEAN, waitingForRetry : BOOLEAN,
   finished : BOOLEAN, cancelRequested : BOOLEAN, headersPosted : BOOLEAN,
   paused : BOOLEAN, tooLarge : BOOLEAN, bodyLength : Nat, responseBody : Nat,
   streamBuffer : Nat, pendingStreamBytes : Nat, out : Seq(TransferEvent)]

FreshJob(id) ==
  [id |-> id, attempt |-> 0, attached |-> FALSE, waitingForRetry |-> FALSE,
   finished |-> FALSE, cancelRequested |-> FALSE, headersPosted |-> FALSE,
   paused |-> FALSE, tooLarge |-> FALSE, bodyLength |-> 0, responseBody |-> 0,
   streamBuffer |-> 0, pendingStreamBytes |-> 0, out |-> <<>>]

\* What remains of a deleted RestJob: nobody reads it again.
DestroyedJob(id) == [FreshJob(id) EXCEPT !.finished = TRUE]

Post(job, event) == [job EXCEPT !.out = Append(@, event)]

----------------------------------------------------------------------------
(* HTTP status predicates *)

IsSuccess(status) == 200 <= status /\ status < 300

IsRedirect(status) == status \in {301, 302, 303, 307, 308}

ShouldRetryStatus(status) == status \in {429, 502, 503, 504}

----------------------------------------------------------------------------
(* Beginning and ending an attempt *)

Finish(job, status) ==
  IF job.finished
  THEN job
  ELSE Post([job EXCEPT !.finished = TRUE, !.waitingForRetry = FALSE, !.responseBody = 0],
            Event("Complete", job.id, job.bodyLength, status))

ResetAttemptState(job) ==
  [job EXCEPT !.responseBody = 0, !.streamBuffer = 0, !.headersPosted = FALSE,
              !.bodyLength = 0, !.pendingStreamBytes = 0, !.paused = FALSE,
              !.tooLarge = FALSE, !.waitingForRetry = FALSE]

\* How the calls that BeginAttempt makes end: the easy handle was added to the
\* multi handle, curl refused (easy_init or add_handle), or a file did not open.
BeginOutcomes(job) ==
  {"added", "curlFailed"}
    \cup (IF job.id \in FileJobs \cup UploadJobs THEN {"openFailed"} ELSE {})

BeginAttempt(job, outcome) ==
  LET fresh == ResetAttemptState([job EXCEPT !.attempt = @ + 1])
  IN  CASE fresh.cancelRequested   -> Finish(fresh, "Cancelled")
        [] /\ ~fresh.cancelRequested
           /\ outcome = "curlFailed" -> Finish(fresh, "NetworkError")
        [] /\ ~fresh.cancelRequested
           /\ outcome = "openFailed" -> Finish(fresh, "IoError")
        [] OTHER                   -> [fresh EXCEPT !.attached = TRUE]

\* Seeded fault: the easy handle stays in the multi handle.
CancelKeepsHandle(job) == Finish([job EXCEPT !.cancelRequested = TRUE], "Cancelled")

\* Seeded fault: the job is marked finished before Finish is called.
CancelSilently(job) ==
  Finish([job EXCEPT !.cancelRequested = TRUE, !.attached = FALSE, !.finished = TRUE],
         "Cancelled")

\* RestJob::Cancel releases the easy handle before it finishes the job.
Cancel(job) ==
  Finish([job EXCEPT !.cancelRequested = TRUE, !.attached = FALSE], "Cancelled")

\* Seeded fault: a stream that delivered part of its body is fetched again.
CanRetryAnyway(job) == job.attempt <= MaxRetries

\* Seeded fault: the attempt that failed is not counted.
CanRetryOnceMore(job) ==
  /\ job.attempt <= MaxRetries + 1
  /\ ~(job.id \in StreamJobs /\ job.bodyLength > 0)

CanRetry(job) ==
  /\ job.attempt <= MaxRetries
  /\ ~(job.id \in StreamJobs /\ job.bodyLength > 0)

ScheduleRetry(job) == [job EXCEPT !.waitingForRetry = TRUE]

----------------------------------------------------------------------------
(* Receiving: the callbacks curl makes during an attempt *)

\* Seeded fault: the test for interim responses takes 200 for one.
OnHeadersCompleteLate(job, status, redirected) ==
  IF job.id \in HeaderJobs /\ ~job.headersPosted /\ status > 200 /\ ~redirected
  THEN Post([job EXCEPT !.headersPosted = TRUE], Event("Headers", job.id, 0, "Ok"))
  ELSE job

\* Seeded fault: the headers of a redirect that is followed are reported too.
OnHeadersCompleteEager(job, status, redirected) ==
  IF job.id \in HeaderJobs /\ ~job.headersPosted /\ status >= 200
  THEN Post([job EXCEPT !.headersPosted = TRUE], Event("Headers", job.id, 0, "Ok"))
  ELSE job

\* The empty line after a header block or after trailers; redirected says that
\* curl follows the response (follow enabled and a Location header present).
OnHeadersComplete(job, status, redirected) ==
  IF job.id \in HeaderJobs /\ ~job.headersPosted /\ status >= 200 /\ ~redirected
  THEN Post([job EXCEPT !.headersPosted = TRUE], Event("Headers", job.id, 0, "Ok"))
  ELSE job

\* A whole block, from its line "HTTP/..." to its empty line.
OnHeaderBlock(job, status, redirected) ==
  OnHeadersComplete([job EXCEPT !.headersPosted = FALSE], status, redirected)

SinkFor(job, status) ==
  CASE ~IsSuccess(status)                                      -> "Memory"
    [] IsSuccess(status) /\ job.id \in FileJobs                -> "File"
    [] IsSuccess(status) /\ job.id \in StreamJobs \ FileJobs   -> "Stream"
    [] OTHER                                                   -> "Memory"

\* The body is kept in memory as the result, not just as an error page.
IsPrimary(job) == job.id \notin FileJobs \cup StreamJobs

Room(job) ==
  LET cap == IF IsPrimary(job) THEN MaxBodySize ELSE MaxErrorBody
  IN  IF cap > job.responseBody THEN cap - job.responseBody ELSE 0

\* Seeded fault: the cap is tested before the new bytes are counted.
WriteMemoryLate(job, total) ==
  IF Room(job) = 0 /\ IsPrimary(job)
  THEN [job EXCEPT !.tooLarge = TRUE]
  ELSE [job EXCEPT !.responseBody = @ + total, !.bodyLength = @ + total]

WriteMemory(job, total) ==
  IF total > Room(job) /\ IsPrimary(job)
  THEN [job EXCEPT !.tooLarge = TRUE]
  ELSE [job EXCEPT !.responseBody = @ + (IF total <= Room(job) THEN total ELSE Room(job)),
                   !.bodyLength = @ + total]

\* fwrite stored the first written bytes.
WriteFile(job, written) == [job EXCEPT !.bodyLength = @ + written]

\* Seeded fault: flushed bytes are not counted against the high-water mark.
FlushStreamUncounted(job) ==
  IF job.streamBuffer = 0
  THEN job
  ELSE Post([job EXCEPT !.streamBuffer = 0], Event("Data", job.id, job.streamBuffer, "Ok"))

FlushStream(job) ==
  IF job.streamBuffer = 0
  THEN job
  ELSE Post([job EXCEPT !.pendingStreamBytes = @ + job.streamBuffer, !.streamBuffer = 0],
            Event("Data", job.id, job.streamBuffer, "Ok"))

\* Seeded fault: the mark is compared with > instead of >=.
WriteStreamLate(job, total) ==
  IF job.pendingStreamBytes > HighWater
  THEN [job EXCEPT !.paused = TRUE]
  ELSE LET buffered == [job EXCEPT !.streamBuffer = @ + total, !.bodyLength = @ + total]
       IN  IF buffered.streamBuffer >= ChunkSize THEN FlushStream(buffered) ELSE buffered

\* A result with paused set means CURL_WRITEFUNC_PAUSE: curl keeps the bytes.
WriteStream(job, total) ==
  IF job.pendingStreamBytes >= HighWater
  THEN [job EXCEPT !.paused = TRUE]
  ELSE LET buffered == [job EXCEPT !.streamBuffer = @ + total, !.bodyLength = @ + total]
       IN  IF buffered.streamBuffer >= ChunkSize THEN FlushStream(buffered) ELSE buffered

\* PostProgress once its interval test has passed.
PostProgress(job) == Post(job, Event("Progress", job.id, 0, "Ok"))

Acknowledged(job, bytes) ==
  [job EXCEPT !.pendingStreamBytes = IF @ >= bytes THEN @ - bytes ELSE 0]

\* Seeded fault: the transfer resumes only once everything has been consumed,
\* but the test is made on the count from before the acknowledgement.
ResumesOnStaleCount(job, bytes) ==
  job.paused /\ job.pendingStreamBytes < LowWater /\ job.attached

\* OnStreamConsumed resumes the transfer unless one of its three tests fails.
Resumes(job, bytes) ==
  /\ job.paused
  /\ Acknowledged(job, bytes).pendingStreamBytes < LowWater
  /\ job.attached

OnStreamConsumed(job, bytes) ==
  [Acknowledged(job, bytes) EXCEPT !.paused = job.paused /\ ~Resumes(job, bytes)]

----------------------------------------------------------------------------
(* What the end of an attempt leads to *)

HandleTransportFailure(job, code) ==
  CASE code = "ABORTED_BY_CALLBACK"                  -> Finish(job, "Cancelled")
    [] code = "WRITE_ERROR" /\ job.tooLarge          -> Finish(job, "TooLarge")
    [] \/ code = "WRITE_ERROR" /\ ~job.tooLarge
       \/ code = "READ_ERROR"                        -> Finish(job, "IoError")
    [] code = "PEER_FAILED_VERIFICATION"             -> Finish(job, "NetworkError")
    [] OTHER ->
         IF CanRetry(job)
         THEN ScheduleRetry(job)
         ELSE Finish(job, IF code = "OPERATION_TIMEDOUT" THEN "Timeout" ELSE "NetworkError")

HandleHttpFailure(job, status) ==
  IF ShouldRetryStatus(status) /\ CanRetry(job)
  THEN ScheduleRetry(job)
  ELSE Finish(job, "HttpError")

\* Seeded fault: the end is announced before the rest of the body.
HandleHttpSuccessUnflushed(job, renamed) ==
  IF job.id \notin FileJobs
  THEN FlushStream(Finish(job, "Ok"))
  ELSE Finish(job, IF renamed THEN "Ok" ELSE "IoError")

\* renamed: FinalizeDownload moved the .part file onto the output path.
HandleHttpSuccess(job, renamed) ==
  IF job.id \notin FileJobs
  THEN Finish(FlushStream(job), "Ok")
  ELSE Finish(job, IF renamed THEN "Ok" ELSE "IoError")

\* Seeded fault: the easy handle is not released.
OnAttemptDoneUnreleased(job, code, status, renamed) ==
  CASE code # "OK"                       -> HandleTransportFailure(job, code)
    [] code = "OK" /\ IsSuccess(status)  -> HandleHttpSuccess(job, renamed)
    [] OTHER                             -> HandleHttpFailure(job, status)

OnAttemptDone(job, code, status, renamed) ==
  LET released == [job EXCEPT !.attached = FALSE]
  IN  CASE released.cancelRequested                     -> Finish(released, "Cancelled")
        [] ~released.cancelRequested /\ code # "OK"     -> HandleTransportFailure(released, code)
        [] /\ ~released.cancelRequested /\ code = "OK"
           /\ IsSuccess(status)                         -> HandleHttpSuccess(released, renamed)
        [] OTHER                                        -> HandleHttpFailure(released, status)

----------------------------------------------------------------------------
\* What holds of a job between two of its methods.
JobInvariant(job) ==
  /\ job.finished => ~job.attached /\ ~job.waitingForRetry
  /\ job.cancelRequested => job.finished
  /\ job.waitingForRetry => ~job.attached /\ job.attempt <= MaxRetries
  /\ job.attempt <= (IF MaxRetries > 0 THEN MaxRetries ELSE 0) + 1
============================================================================
