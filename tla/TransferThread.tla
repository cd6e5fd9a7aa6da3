--------------------------- MODULE TransferThread ---------------------------
(***************************************************************************)
(* The worker thread: class TransferThread (src/transfer_thread.h and      *)
(* .cpp), with the jobs it runs (RestJob) and curl below it.  One pass of  *)
(* Run() is the phases "loop", "apply", "perform" and "reap" of wpc.       *)
(*                                                                         *)
(* curl is external: xfer holds, for every easy handle, how far its HTTP   *)
(* transfer got, and the actions named Curl... are the callbacks curl may  *)
(* make while the worker is inside curl_multi_perform (or, after           *)
(* curl_easy_pause, while it is inside ApplyConsumed).                     *)
(*                                                                         *)
(* m_incoming and m_cancelRequests are sets: entries for different jobs    *)
(* commute, an id is never enqueued twice and a second request to cancel   *)
(* a job changes nothing.                                                  *)
(***************************************************************************)
EXTENDS RestJob, MainThreadQueue

CONSTANTS
  Statuses,       \* the HTTP statuses a server answers with
  FollowRedirects,\* ClientConfig::followRedirects
  CurlFailures,   \* the CURLcodes other than OK a transfer may end with by itself
  MaxTransfer,    \* bytes a transfer receives at most (bound)
  MaxWrite,       \* bytes curl hands to one write callback at most
  MaxProgress     \* progress events per attempt (bound)

ASSUME TransferThreadAssumption ==
  /\ Statuses \subseteq Nat
  /\ FollowRedirects \in BOOLEAN
  /\ CurlFailures \subseteq CurlCode \ {"OK", "WRITE_ERROR", "ABORTED_BY_CALLBACK"}
  /\ MaxTransfer \in Nat /\ MaxWrite \in Nat /\ MaxProgress \in Nat

VARIABLES
  running,          \* m_running
  incoming,         \* m_incoming: the jobs enqueued and not yet taken
  cancelRequests,   \* m_cancelRequests
  consumeRequests,  \* m_consumeRequests: <<job, bytes>>
  active,           \* m_active
  jobs,             \* the RestJob objects
  xfer,             \* curl's state of the easy handle of each job
  wpc,              \* where the worker is in Run()
  taken,            \* Run()'s locals incoming, cancelRequests, consumeRequests
  resuming          \* the job curl_easy_pause is being called for, 0 if none

workerVars == <<running, incoming, cancelRequests, consumeRequests, active, jobs,
                xfer, wpc, taken, resuming>>

mailbox == <<incoming, cancelRequests, consumeRequests>>

WorkerPhase == {"loop", "apply", "perform", "reap", "exited"}

\* state: "none" no handle in the multi handle, "open" no final response yet,
\* "body" receiving the body, "done" a CURLMSG_DONE message is waiting.
Transfers ==
  [state : {"none", "open", "body", "done"}, status : Statuses \cup {0},
   code : CurlCode, paused : BOOLEAN, progress : Nat]

NoTransfer ==
  [state |-> "none", status |-> 0, code |-> "OK", paused |-> FALSE, progress |-> 0]

NothingTaken == [incoming |-> {}, cancels |-> {}, consumes |-> <<>>]

WorkerInit ==
  /\ running = TRUE
  /\ incoming = {} /\ cancelRequests = {} /\ consumeRequests = <<>>
  /\ active = {}
  /\ jobs = [j \in Jobs |-> FreshJob(j)]
  /\ xfer = [j \in Jobs |-> NoTransfer]
  /\ wpc = "loop"
  /\ taken = NothingTaken
  /\ resuming = 0

\* A method of job j ran and left it as job: what it posted goes to outbox.
Apply(j, job) ==
  /\ jobs' = [jobs EXCEPT ![j] = [job EXCEPT !.out = <<>>]]
  /\ outbox' = job.out
  /\ UNCHANGED <<events, enabled, checked>>

\* The easy handle follows the job: a released handle has no transfer.
Release(j, job) == xfer' = IF job.attached THEN xfer ELSE [xfer EXCEPT ![j] = NoTransfer]

----------------------------------------------------------------------------
(* Called by the main thread, each under the worker's mutex *)

Enqueue(j) == incoming' = incoming \cup {j}

RequestCancel(S) == cancelRequests' = cancelRequests \cup S

Consume(j, bytes) == consumeRequests' = Append(consumeRequests, <<j, bytes>>)

----------------------------------------------------------------------------
(* One pass of Run() *)

TakePending ==
  /\ wpc = "loop" /\ running
  /\ taken' = [incoming |-> incoming, cancels |-> cancelRequests,
               consumes |-> consumeRequests]
  /\ incoming' = {} /\ cancelRequests' = {} /\ consumeRequests' = <<>>
  /\ wpc' = "apply"
  /\ UNCHANGED <<running, active, jobs, xfer, resuming, queueVars>>

ExitLoop ==
  /\ wpc = "loop" /\ ~running
  /\ wpc' = "exited"
  /\ UNCHANGED <<running, mailbox, active, jobs, xfer, taken, resuming, queueVars>>

AdmitIncoming(j) ==
  /\ wpc = "apply" /\ Posted
  /\ j \in taken.incoming
  /\ taken' = [taken EXCEPT !.incoming = @ \ {j}]
  /\ active' = active \cup {j}
  /\ \E outcome \in BeginOutcomes(jobs[j]) :
       LET job == BeginAttempt(jobs[j], outcome)
       IN  /\ Apply(j, job)
           /\ xfer' = IF job.attached
                      THEN [xfer EXCEPT ![j] = [NoTransfer EXCEPT !.state = "open"]]
                      ELSE xfer
  /\ UNCHANGED <<running, mailbox, wpc, resuming>>

\* Seeded fault: a request for a job that is waiting for its retry finds nothing.
FindActiveAttached(j) == j \in active /\ jobs[j].attached

\* FindActive returned the job.
FindActive(j) == j \in active /\ ~jobs[j].finished

ApplyCancellation(j) ==
  /\ wpc = "apply" /\ Posted
  /\ taken.incoming = {}
  /\ j \in taken.cancels
  /\ taken' = [taken EXCEPT !.cancels = @ \ {j}]
  /\ IF FindActive(j)
     THEN Apply(j, Cancel(jobs[j])) /\ Release(j, Cancel(jobs[j]))
     ELSE UNCHANGED <<jobs, xfer, queueVars>>
  /\ UNCHANGED <<running, mailbox, active, wpc, resuming>>

\* Resuming a transfer makes curl call the write callback again before
\* curl_easy_pause returns: resuming stays set for that long.
ApplyConsumed ==
  /\ wpc = "apply" /\ Posted
  /\ taken.incoming = {} /\ taken.cancels = {}
  /\ taken.consumes # <<>>
  /\ taken' = [taken EXCEPT !.consumes = Tail(@)]
  /\ LET j     == Head(taken.consumes)[1]
         bytes == Head(taken.consumes)[2]
     IN  IF FindActive(j)
         THEN /\ Apply(j, OnStreamConsumed(jobs[j], bytes))
              /\ IF Resumes(jobs[j], bytes)
                 THEN xfer' = [xfer EXCEPT ![j].paused = FALSE] /\ resuming' = j
                 ELSE UNCHANGED xfer /\ resuming' = 0
         ELSE UNCHANGED <<jobs, xfer, queueVars>> /\ resuming' = 0
  /\ UNCHANGED <<running, mailbox, active, wpc>>

PendingApplied == taken = NothingTaken

\* StartDueRetries: that the retry is due is left to the clock.
StartDueRetry(j) ==
  /\ wpc = "apply" /\ Posted /\ PendingApplied
  /\ j \in active
  /\ jobs[j].waitingForRetry
  /\ resuming' = 0
  /\ \E outcome \in BeginOutcomes(jobs[j]) :
       LET job == BeginAttempt(jobs[j], outcome)
       IN  /\ Apply(j, job)
           /\ xfer' = IF job.attached
                      THEN [xfer EXCEPT ![j] = [NoTransfer EXCEPT !.state = "open"]]
                      ELSE xfer
  /\ UNCHANGED <<running, mailbox, active, wpc, taken>>

BeginPerform ==
  /\ wpc = "apply" /\ Posted /\ PendingApplied
  /\ wpc' = "perform"
  /\ resuming' = 0
  /\ UNCHANGED <<running, mailbox, active, jobs, xfer, taken, queueVars>>

EndPerform ==
  /\ wpc = "perform" /\ Posted
  /\ wpc' = "reap"
  /\ UNCHANGED <<running, mailbox, active, jobs, xfer, taken, resuming, queueVars>>

ReapCompleted(j) ==
  /\ wpc = "reap" /\ Posted
  /\ xfer[j].state = "done"
  /\ \E renamed \in IF j \in FileJobs THEN BOOLEAN ELSE {TRUE} :
       LET job == OnAttemptDone(jobs[j], xfer[j].code, xfer[j].status, renamed)
       IN  Apply(j, job) /\ Release(j, job)
  /\ UNCHANGED <<running, mailbox, active, wpc, taken, resuming>>

\* RemoveFinished and the wait in curl_multi_poll, which any wakeup, transfer
\* or timer ends; the jobs removed are destroyed.
RemoveFinished ==
  /\ wpc = "reap" /\ Posted
  /\ \A j \in Jobs : xfer[j].state # "done"
  /\ active' = {j \in active : ~jobs[j].finished}
  /\ jobs' = [j \in Jobs |-> IF j \in active \ active' THEN DestroyedJob(j) ELSE jobs[j]]
  /\ wpc' = "loop"
  /\ UNCHANGED <<running, mailbox, xfer, taken, resuming, queueVars>>

----------------------------------------------------------------------------
(* curl *)

\* curl is running the transfer of j and may call back.
Receiving(j) == wpc = "perform" /\ Posted /\ ~xfer[j].paused

\* The empty line that ends a header block.  Interim responses and redirects
\* that are followed are answered by another block.
CurlHeaders(j, status) ==
  /\ Receiving(j)
  /\ xfer[j].state = "open"
  /\ \E redirected \in IF FollowRedirects /\ IsRedirect(status) THEN BOOLEAN ELSE {FALSE} :
       /\ Apply(j, OnHeaderBlock(jobs[j], status, redirected))
       /\ xfer' = [xfer EXCEPT ![j].status = status,
                               ![j].state = IF status < 200 \/ redirected
                                            THEN "open" ELSE "body"]
  /\ UNCHANGED <<running, mailbox, active, wpc, taken, resuming>>

\* Trailers of a chunked body go through the header callback as well.
CurlTrailers(j) ==
  /\ Receiving(j)
  /\ xfer[j].state = "body"
  /\ Apply(j, OnHeadersComplete(jobs[j], xfer[j].status, FALSE))
  /\ UNCHANGED <<running, mailbox, active, xfer, wpc, taken, resuming>>

\* WriteCallback for a sink other than the stream.
CurlWrite(j, total) ==
  /\ Receiving(j)
  /\ xfer[j].state = "body"
  /\ jobs[j].bodyLength + total <= MaxTransfer
  /\ \/ LET job == WriteMemory(jobs[j], total)
        IN  /\ SinkFor(jobs[j], xfer[j].status) = "Memory"
            /\ Apply(j, job)
            /\ xfer' = IF job.tooLarge
                       THEN [xfer EXCEPT ![j].state = "done", ![j].code = "WRITE_ERROR"]
                       ELSE xfer
     \/ /\ SinkFor(jobs[j], xfer[j].status) = "File"
        /\ \E written \in 0..total :
             /\ Apply(j, WriteFile(jobs[j], written))
             /\ xfer' = IF written < total
                        THEN [xfer EXCEPT ![j].state = "done", ![j].code = "WRITE_ERROR"]
                        ELSE xfer
  /\ UNCHANGED <<running, mailbox, active, wpc, taken, resuming>>

\* WriteCallback for the stream.
CurlWriteStream(j, total) ==
  /\ Receiving(j) \/ (resuming = j /\ Posted)
  /\ xfer[j].state = "body"
  /\ SinkFor(jobs[j], xfer[j].status) = "Stream"
  /\ jobs[j].bodyLength + total <= MaxTransfer
  /\ LET job == WriteStream(jobs[j], total)
     IN  Apply(j, job) /\ xfer' = [xfer EXCEPT ![j].paused = job.paused]
  /\ UNCHANGED <<running, mailbox, active, wpc, taken, resuming>>

\* ProgressCallback: with the cancel flag set it would abort the transfer.
CurlProgress(j) ==
  /\ wpc = "perform" /\ Posted
  /\ xfer[j].state \in {"open", "body"}
  /\ xfer[j].progress < MaxProgress
  /\ IF jobs[j].cancelRequested
     THEN /\ xfer' = [xfer EXCEPT ![j].state = "done", ![j].code = "ABORTED_BY_CALLBACK"]
          /\ UNCHANGED <<jobs, queueVars>>
     ELSE /\ xfer' = [xfer EXCEPT ![j].progress = @ + 1]
          /\ Apply(j, PostProgress(jobs[j]))
  /\ UNCHANGED <<running, mailbox, active, wpc, taken, resuming>>

\* The transfer is over: curl queues a CURLMSG_DONE message.  A paused
\* transfer does not end well, it has bytes to hand over first.
CurlDone(j) ==
  /\ wpc = "perform" /\ Posted
  /\ \/ xfer[j].state = "body" /\ ~xfer[j].paused
        /\ xfer' = [xfer EXCEPT ![j].state = "done", ![j].code = "OK"]
     \/ xfer[j].state \in {"open", "body"}
        /\ \E code \in CurlFailures :
             xfer' = [xfer EXCEPT ![j].state = "done", ![j].code = code]
  /\ UNCHANGED <<running, mailbox, active, jobs, wpc, taken, resuming, queueVars>>

----------------------------------------------------------------------------
\* The steps the worker takes by itself, whatever the network does.
WorkerControl ==
  \/ TakePending \/ ExitLoop \/ ApplyConsumed \/ BeginPerform \/ EndPerform
  \/ RemoveFinished
  \/ \E j \in Jobs : AdmitIncoming(j) \/ ApplyCancellation(j) \/ ReapCompleted(j)
  \/ (PostCheck \/ PostPush) /\ UNCHANGED workerVars
============================================================================
