---------------------------- MODULE RestExtension ----------------------------
(***************************************************************************)
(* The whole request pipeline: the game's main thread (RestExtension in    *)
(* src/extension.cpp, and the natives that send and cancel), composed with *)
(* the worker thread and the event queue between them.                     *)
(*                                                                         *)
(* SourceMod, the plugins and the game are the environment: they call the  *)
(* natives from the main thread, between frames ("idle") or from inside a  *)
(* callback ("callback"), delete clients, unload plugins and finally       *)
(* unload the extension.                                                   *)
(***************************************************************************)
EXTENDS TransferThread, FiniteSets

CONSTANTS
  Clients,             \* RESTClient handles
  Plugins,             \* plugins, JobRecord::owner
  ClientOf,            \* the client each request is made with
  OwnerOf,             \* the plugin that sends each request
  CallbackMayBeMissing \* a forward may have lost its function, or no handle be left

ASSUME RestExtensionAssumption ==
  /\ ClientOf \in [Jobs -> Clients]
  /\ OwnerOf \in [Jobs -> Plugins]
  /\ CallbackMayBeMissing \in BOOLEAN

VARIABLES
  nextJobId,  \* m_nextJobId
  records,    \* m_jobs: for each id whether there is a record, and its flags
  clients,    \* the clients that have not been deleted
  plugins,    \* the plugins that are loaded
  mpc,        \* what the main thread is doing
  batch,      \* the events OnGameFrame drained and has not handled yet
  log         \* history: what became of each request's events

mainVars == <<nextJobId, records, clients, plugins, mpc, batch, log>>

vars == <<workerVars, queueVars, mainVars>>

RecordState == {"absent", "idle", "dispatching", "dropped"}

MainPhase == {"idle", "batch", "callback", "stopping", "joining", "unloaded"}

Outcome == RestStatus \cup {"none", "dropped", "lost"}

\* outcome: how the request ended for the plugin; headersHandled, bytesHandled:
\* Headers events and bytes of Data events handled, whether or not a callback
\* ran; headersHeard: OnHeaders did run; length: the body length its response
\* reported; cancelled: a native accepted a request to cancel it.
Log ==
  [outcome : Outcome, headersHandled : Nat, bytesHandled : Nat, headersHeard : BOOLEAN,
   length : Nat, cancelled : BOOLEAN]

Init ==
  /\ QueueInit /\ WorkerInit
  /\ nextJobId = 1
  /\ records = [j \in Jobs |-> "absent"]
  /\ clients = Clients /\ plugins = Plugins
  /\ mpc = "idle"
  /\ batch = <<>>
  /\ log = [j \in Jobs |-> [outcome |-> "none", headersHandled |-> 0, bytesHandled |-> 0,
                            headersHeard |-> FALSE, length |-> 0, cancelled |-> FALSE]]

\* A plugin's code is running on the main thread, or may run.
NativesCallable == mpc \in {"idle", "callback"}

Found(j) == records[j] # "absent"

unchangedByNatives == <<running, consumeRequests, active, jobs, xfer, wpc, taken,
                        resuming, queueVars, mpc, batch>>

----------------------------------------------------------------------------
(* Natives and listeners *)

\* RESTRequest.Send.  The client may have been deleted since Request().
SubmitJob ==
  /\ NativesCallable
  /\ nextJobId <= MaxJobs
  /\ OwnerOf[nextJobId] \in plugins
  /\ records' = [records EXCEPT ![nextJobId] = "idle"]
  /\ Enqueue(nextJobId)
  /\ nextJobId' = nextJobId + 1
  /\ UNCHANGED <<cancelRequests, clients, plugins, log, unchangedByNatives>>

Cancelled(S) ==
  log' = [j \in Jobs |-> IF j \in S THEN [log[j] EXCEPT !.cancelled = TRUE] ELSE log[j]]

\* RESTClient.Cancel, called through any client that is left.
CancelJob(j) ==
  /\ NativesCallable
  /\ clients # {} /\ OwnerOf[j] \in plugins
  /\ Found(j)
  /\ RequestCancel({j})
  /\ Cancelled({j})
  /\ UNCHANGED <<incoming, nextJobId, records, clients, plugins, unchangedByNatives>>

\* Seeded fault: the requests of every client are dropped.
FoundForAnyClient(c) == {j \in Jobs : Found(j)}

FoundForClient(c) == {j \in Jobs : Found(j) /\ ClientOf[j] = c}

\* RESTClient.CancelAll called by plugin p.
CancelJobsForClient(c, p) ==
  LET S == {j \in FoundForClient(c) : OwnerOf[j] = p}
  IN  /\ NativesCallable
      /\ c \in clients /\ p \in plugins
      /\ RequestCancel(S)
      /\ Cancelled(S)
      /\ UNCHANGED <<incoming, nextJobId, records, clients, plugins, unchangedByNatives>>

\* Seeded fault: the record is erased although HandleIntermediate refers to it.
DropJobsNow(S) ==
  /\ RequestCancel(S)
  /\ records' = [j \in Jobs |-> IF j \in S THEN "absent" ELSE records[j]]
  /\ log' = [j \in Jobs |-> IF j \in S /\ records[j] # "dropped"
                            THEN [log[j] EXCEPT !.outcome = "dropped"] ELSE log[j]]

\* DropJob for each record of S.
DropJobs(S) ==
  /\ RequestCancel(S)
  /\ records' = [j \in Jobs |-> IF j \notin S THEN records[j]
                                ELSE IF records[j] = "idle" THEN "absent" ELSE "dropped"]
  /\ log' = [j \in Jobs |-> IF j \in S THEN [log[j] EXCEPT !.outcome = "dropped"]
                            ELSE log[j]]

\* A RESTClient handle is destroyed: DropJobsForClient.
OnHandleDestroy(c) ==
  /\ NativesCallable
  /\ c \in clients
  /\ clients' = clients \ {c}
  /\ DropJobs(FoundForClient(c))
  /\ UNCHANGED <<incoming, nextJobId, plugins, unchangedByNatives>>

\* SourceMod does not unload a plugin while one of its callbacks is running.
OnPluginUnloaded(p) ==
  /\ NativesCallable
  /\ p \in plugins
  /\ mpc = "callback" => OwnerOf[Head(batch).id] # p
  /\ plugins' = plugins \ {p}
  /\ DropJobs({j \in Jobs : Found(j) /\ OwnerOf[j] = p})
  /\ UNCHANGED <<incoming, nextJobId, clients, unchangedByNatives>>

----------------------------------------------------------------------------
(* The game frame *)

OnGameFrame ==
  /\ mpc = "idle" /\ HasEvents
  /\ batch' = events
  /\ Drain
  /\ mpc' = "batch"
  /\ UNCHANGED <<workerVars, enabled, outbox, checked, nextJobId, records, clients,
                 plugins, log>>

NextEvent == Head(batch)

\* HandleEvent finds no record: the request was dropped.
SkipEvent ==
  /\ mpc = "batch" /\ batch # <<>>
  /\ ~Found(NextEvent.id)
  /\ batch' = Tail(batch)
  /\ UNCHANGED <<workerVars, queueVars, nextJobId, records, clients, plugins, mpc, log>>

\* The event is handled; ran: by a callback.
LogIntermediate(event, ran) ==
  log' = [log EXCEPT ![event.id].headersHandled = @ + (IF event.kind = "Headers" THEN 1 ELSE 0),
                     ![event.id].bytesHandled = @ + event.n,
                     ![event.id].headersHeard = @ \/ (ran /\ event.kind = "Headers")]

\* HandleIntermediate up to Execute of the callback.
HandleIntermediate ==
  LET j == NextEvent.id
  IN  /\ mpc = "batch" /\ batch # <<>>
      /\ NextEvent.kind # "Complete" /\ Found(j)
      /\ records' = [records EXCEPT ![j] = "dispatching"]
      /\ LogIntermediate(NextEvent, TRUE)
      /\ mpc' = "callback"
      /\ UNCHANGED <<workerVars, queueVars, nextJobId, clients, plugins, batch>>

\* HandleIntermediate when there is no callback to call: data is still consumed.
\* Progress is posted for every job, whether OnProgress was called or not.
HandleIntermediateUnheard ==
  LET j == NextEvent.id
  IN  /\ mpc = "batch" /\ batch # <<>>
      /\ NextEvent.kind # "Complete" /\ Found(j)
      /\ CallbackMayBeMissing \/ NextEvent.kind = "Progress"
      /\ IF NextEvent.kind = "Data"
         THEN Consume(j, NextEvent.n) ELSE UNCHANGED consumeRequests
      /\ LogIntermediate(NextEvent, FALSE)
      /\ batch' = Tail(batch)
      /\ UNCHANGED <<running, incoming, cancelRequests, active, jobs, xfer, wpc, taken,
                     resuming, queueVars, nextJobId, records, clients, plugins, mpc>>

\* HandleEvent for a Complete event: the record is erased before the callback.
DispatchComplete ==
  LET j == NextEvent.id
  IN  /\ mpc = "batch" /\ batch # <<>>
      /\ NextEvent.kind = "Complete" /\ Found(j)
      /\ records' = [records EXCEPT ![j] = "absent"]
      /\ log' = [log EXCEPT ![j].outcome = NextEvent.status, ![j].length = NextEvent.n]
      /\ mpc' = "callback"
      /\ UNCHANGED <<workerVars, queueVars, nextJobId, clients, plugins, batch>>

DispatchCompleteUnheard ==
  LET j == NextEvent.id
  IN  /\ mpc = "batch" /\ batch # <<>>
      /\ NextEvent.kind = "Complete" /\ Found(j)
      /\ CallbackMayBeMissing
      /\ records' = [records EXCEPT ![j] = "absent"]
      /\ log' = [log EXCEPT ![j].outcome = "lost"]
      /\ batch' = Tail(batch)
      /\ UNCHANGED <<workerVars, queueVars, nextJobId, clients, plugins, mpc>>

\* Seeded fault: a record dropped during its callback is kept.
AfterDispatchKept(state) == IF state = "absent" THEN "absent" ELSE "idle"

\* The record after HandleIntermediate has cleared dispatching.
AfterDispatch(state) == IF state = "dispatching" THEN "idle" ELSE "absent"

\* The callback returns; handled: an OnHeaders callback asked to stop.
ReturnFromCallback(handled) ==
  LET j == NextEvent.id
  IN  /\ mpc = "callback"
      /\ handled => NextEvent.kind = "Headers"
      /\ IF handled
         THEN RequestCancel({j}) /\ log' = [log EXCEPT ![j].cancelled = TRUE]
         ELSE UNCHANGED <<cancelRequests, log>>
      /\ IF NextEvent.kind = "Data"
         THEN Consume(j, NextEvent.n) ELSE UNCHANGED consumeRequests
      /\ records' = [records EXCEPT ![j] = AfterDispatch(@)]
      /\ batch' = Tail(batch)
      /\ mpc' = "batch"
      /\ UNCHANGED <<running, incoming, active, jobs, xfer, wpc, taken, resuming,
                     queueVars, nextJobId, clients, plugins>>

EndFrame ==
  /\ mpc = "batch" /\ batch = <<>>
  /\ mpc' = "idle"
  /\ UNCHANGED <<workerVars, queueVars, nextJobId, records, clients, plugins, batch, log>>

----------------------------------------------------------------------------
(* SDK_OnUnload *)

\* The frame hook and the plugin listener are removed, the queue is disabled.
BeginUnload ==
  /\ mpc = "idle"
  /\ SetEnabled(FALSE)
  /\ mpc' = "stopping"
  /\ UNCHANGED <<workerVars, events, outbox, checked, nextJobId, records, clients,
                 plugins, batch, log>>

\* TransferThread::Stop clears m_running, wakes the worker and joins it.
StopWorker ==
  /\ mpc = "stopping"
  /\ running' = FALSE
  /\ mpc' = "joining"
  /\ UNCHANGED <<mailbox, active, jobs, xfer, wpc, taken, resuming, queueVars,
                 nextJobId, records, clients, plugins, batch, log>>

\* Seeded fault: the thread is detached instead of joined.
ThreadDetached == mpc = "joining"

ThreadJoined == wpc = "exited"

\* The rest of Stop and of SDK_OnUnload once the thread has ended: the active
\* jobs are cancelled (their events find the queue disabled), everything is
\* cleared, the queue drained and the records released.
FinishUnload ==
  /\ mpc = "joining" /\ ThreadJoined
  /\ jobs' = [j \in Jobs |-> IF j \in active \cup incoming THEN DestroyedJob(j) ELSE jobs[j]]
  /\ xfer' = [j \in Jobs |-> IF j \in active THEN NoTransfer ELSE xfer[j]]
  /\ active' = {} /\ incoming' = {}
  /\ Drain
  /\ records' = [j \in Jobs |-> "absent"]
  /\ log' = [j \in Jobs |-> IF Found(j) THEN [log[j] EXCEPT !.outcome = "dropped"]
                            ELSE log[j]]
  /\ mpc' = "unloaded"
  /\ UNCHANGED <<running, cancelRequests, consumeRequests, wpc, taken, resuming,
                 enabled, outbox, checked, nextJobId, clients, plugins, batch>>

\* Nothing is left to do.
Unloaded == mpc = "unloaded" /\ UNCHANGED vars

----------------------------------------------------------------------------
Natives ==
  \/ SubmitJob
  \/ \E j \in Jobs : CancelJob(j)
  \/ \E c \in Clients : OnHandleDestroy(c) \/ \E p \in Plugins : CancelJobsForClient(c, p)
  \/ \E p \in Plugins : OnPluginUnloaded(p)

\* What the main thread does by itself once it has started to.
MainControl ==
  \/ OnGameFrame \/ SkipEvent \/ HandleIntermediate \/ HandleIntermediateUnheard
  \/ DispatchComplete \/ DispatchCompleteUnheard
  \/ \E handled \in BOOLEAN : ReturnFromCallback(handled)
  \/ EndFrame \/ StopWorker \/ FinishUnload

WorkerStep(A) == A /\ UNCHANGED mainVars

\* The worker's own steps and what curl makes of the network.
WorkerNext ==
  \/ WorkerStep((PostCheck \/ PostPush) /\ UNCHANGED workerVars)
  \/ WorkerStep(TakePending)
  \/ WorkerStep(ExitLoop)
  \/ WorkerStep(ApplyConsumed)
  \/ WorkerStep(BeginPerform)
  \/ WorkerStep(EndPerform)
  \/ WorkerStep(RemoveFinished)
  \/ \E j \in Jobs :
       \/ WorkerStep(AdmitIncoming(j))
       \/ WorkerStep(ApplyCancellation(j))
       \/ WorkerStep(StartDueRetry(j))
       \/ WorkerStep(ReapCompleted(j))
       \/ \E status \in Statuses : WorkerStep(CurlHeaders(j, status))
       \/ WorkerStep(CurlTrailers(j))
       \/ \E total \in 1..MaxWrite :
            WorkerStep(CurlWrite(j, total)) \/ WorkerStep(CurlWriteStream(j, total))
       \/ WorkerStep(CurlProgress(j))
       \/ WorkerStep(CurlDone(j))

Next == Natives \/ MainControl \/ BeginUnload \/ Unloaded \/ WorkerNext

Spec == Init /\ [][Next]_vars

WorkerFairness == WF_vars(WorkerStep(WorkerControl))

MainFairness == WF_vars(MainControl)

\* The transfer of j ends by itself, unless the job holds it back.
TransferEnds(j) == WorkerStep(CurlDone(j) /\ ~xfer[j].paused)

NetworkFairness ==
  \A j \in Jobs : SF_vars(WorkerStep(StartDueRetry(j))) /\ SF_vars(TransferEnds(j))

\* Only the two threads keep going; a server may never answer.
LocalSpec == Spec /\ WorkerFairness /\ MainFairness

\* Retries become due and transfers end, by an answer or by a timeout.
LiveSpec == LocalSpec /\ NetworkFairness

----------------------------------------------------------------------------
(* Properties *)

RecordTypeOK ==
  /\ nextJobId \in 1..(MaxJobs + 1)
  /\ records \in [Jobs -> RecordState]
  /\ clients \subseteq Clients /\ plugins \subseteq Plugins
  /\ mpc \in MainPhase
  /\ batch \in Seq(TransferEvent)
  /\ log \in [Jobs -> Log]

WorkerTypeOK ==
  /\ running \in BOOLEAN
  /\ incoming \subseteq Jobs /\ cancelRequests \subseteq Jobs
  /\ consumeRequests \in Seq(Jobs \X Nat)
  /\ active \subseteq Jobs
  /\ jobs \in [Jobs -> RestJobs]
  /\ xfer \in [Jobs -> Transfers]
  /\ wpc \in WorkerPhase
  /\ taken \in [incoming : SUBSET Jobs, cancels : SUBSET Jobs, consumes : Seq(Jobs \X Nat)]
  /\ resuming \in Jobs \cup {0}

QueueTypeOK ==
  /\ events \in Seq(TransferEvent)
  /\ enabled \in BOOLEAN
  /\ outbox \in Seq(TransferEvent)
  /\ checked \in BOOLEAN

\* Every variable has its type (member declarations of the three classes).
TypeOK == RecordTypeOK /\ WorkerTypeOK /\ QueueTypeOK

\* Every event that was posted or is about to be, oldest first; the head of a
\* batch stays in it while its callback runs.
InFlight == batch \o events \o outbox

\* The events whose callbacks have not started.
Undelivered == IF mpc = "callback" THEN Tail(InFlight) ELSE InFlight

IsOf(event, j, kind) == event.id = j /\ event.kind = kind

\* The sum of a sequence of numbers, without recursion: one pair for each unit.
SumOf(numbers) ==
  Cardinality(UNION {{i} \X (1..numbers[i]) : i \in DOMAIN numbers})

\* The body bytes and the Headers events of job j among the events of seq.
DataBytes(seq, j) ==
  SumOf([i \in DOMAIN seq |-> IF IsOf(seq[i], j, "Data") THEN seq[i].n ELSE 0])

HeadersIn(seq, j) ==
  SumOf([i \in DOMAIN seq |-> IF IsOf(seq[i], j, "Headers") THEN 1 ELSE 0])

\* The bytes acknowledged to job j by the requests of seq.
ConsumedBytes(seq, j) ==
  SumOf([i \in DOMAIN seq |-> IF seq[i][1] = j THEN seq[i][2] ELSE 0])

\* How a request may end for its plugin once its Complete event was handled.
Told == RestStatus \cup {"lost"}

\* A request to cancel that a native accepted, or that a drop made, is not
\* forgotten: until the job is over it is on its way to the worker, even if it
\* overtakes the job itself in the mailbox (TransferThread::Run admits first).
CancelNeverLost ==
  \A j \in Jobs :
    log[j].cancelled \/ log[j].outcome = "dropped" =>
      j \in cancelRequests \/ j \in taken.cancels \/ jobs[j].finished

\* A plugin that is still waiting for the end of a request will hear of it: once
\* the job is over its Complete event is on its way (RestJob::Finish).
CompletionOwed ==
  \A j \in Jobs :
    Found(j) /\ jobs[j].finished /\ enabled =>
      \E i \in DOMAIN InFlight : InFlight[i].id = j /\ InFlight[i].kind = "Complete"

\* Nothing of a request follows its Complete event, in the queue or at the
\* plugin: released handles make no callbacks, rests are flushed first.
CompleteIsLast ==
  /\ \A i, k \in DOMAIN InFlight :
       i < k /\ InFlight[i].id = InFlight[k].id => InFlight[i].kind # "Complete"
  /\ \A i \in DOMAIN Undelivered :
       log[Undelivered[i].id].outcome \notin Told

\* curl never calls back into, or reports the end of, a job that is over or
\* destroyed: handles are in the multi handle only while their job runs.
TransferHasLiveJob ==
  \A j \in Jobs :
    xfer[j].state # "none" => j \in active /\ jobs[j].attached /\ ~jobs[j].finished

\* After SDK_OnUnload no thread runs, and no record, event, job or easy handle
\* is left behind for the code that is being unmapped.
UnloadedClean ==
  mpc = "unloaded" =>
    /\ wpc = "exited" /\ Posted /\ ~HasEvents
    /\ active = {} /\ incoming = {}
    /\ \A j \in Jobs : ~Found(j) /\ xfer[j].state = "none"

\* OnHeaders runs once per attempt at most (it may be missing), whatever redirects, interim
\* responses and trailers curl passes to the header callback.
HeadersOncePerAttempt ==
  \A j \in Jobs :
    ~jobs[j].finished => log[j].headersHandled + HeadersIn(Undelivered, j) <= jobs[j].attempt

\* While an intermediate callback runs, the record it was called for (and that
\* HandleIntermediate goes on to use) is still there, whatever the callback drops.
RecordOutlivesCallback ==
  mpc = "callback" /\ NextEvent.kind # "Complete" => Found(NextEvent.id)

\* Deleting a client or unloading a plugin does not touch anybody else's requests.
DropIsScoped ==
  \A j \in Jobs :
    log[j].outcome = "dropped" =>
      ClientOf[j] \notin clients \/ OwnerOf[j] \notin plugins \/ mpc = "unloaded"

\* No request is tried more often than its MaxRetries allows.
AttemptsBounded ==
  \A j \in Jobs : jobs[j].attempt <= (IF MaxRetries > 0 THEN MaxRetries ELSE 0) + 1

\* A body kept in memory never exceeds its cap, and a body that was cut off at
\* the cap is not reported as complete (WriteMemory).
BodyCapped ==
  \A j \in Jobs :
    /\ jobs[j].responseBody <= IF IsPrimary(jobs[j]) THEN MaxBodySize ELSE MaxErrorBody
    /\ log[j].outcome = "Ok" /\ IsPrimary(jobs[j]) => log[j].length <= MaxBodySize

\* OnData runs only after OnHeaders, which may stop the request, has run.  The one
\* exception: the Headers event came first, but OnHeaders had lost its function or
\* no response handle was left (DispatchHeaders returns, DispatchData goes on).
HeadersBeforeData ==
  [][\A j \in HeaderJobs :
       HandleIntermediate /\ IsOf(NextEvent, j, "Data") =>
         \/ log[j].headersHeard
         \/ CallbackMayBeMissing /\ log[j].headersHandled > 0]_vars

\* The promise to the plugin (RequestContract): phases seen from its side.
RequestPhase(j) ==
  CASE log[j].outcome \in RestStatus                   -> "completed"
    [] log[j].outcome \in {"dropped", "lost"}          -> log[j].outcome
    [] log[j].outcome = "none" /\ j < nextJobId        -> "live"
    [] OTHER                                           -> "unsent"

Contract ==
  INSTANCE RequestContract WITH
    NumRequests <- MaxJobs,
    phase <- [j \in Jobs |-> RequestPhase(j)],
    calling <- IF mpc = "callback" THEN Head(batch).id ELSE 0

\* The extension implements the contract.
ImplementsContract == Contract!ContractSpec

----------------------------------------------------------------------------
(* The inductive invariant behind the safety properties *)

\* Where job j is: in one mailbox, in the worker's hands, or over.
JobPlaced(j) ==
  /\ jobs[j].id = j
  /\ JobInvariant(jobs[j])
  /\ xfer[j].state # "none" <=> jobs[j].attached
  /\ jobs[j].attached \/ jobs[j].waitingForRetry => j \in active
  /\ j \in incoming \cup taken.incoming \/ j >= nextJobId =>
       jobs[j].attempt = 0 /\ ~jobs[j].attached /\ ~jobs[j].finished
  /\ j \in incoming \cup taken.incoming \cup active \cup cancelRequests \cup taken.cancels
       => j < nextJobId
  /\ j < nextJobId => j \in incoming \cup taken.incoming \cup active \/ jobs[j].finished
  /\ j \in incoming => j \notin taken.incoming \cup taken.cancels \cup active

JobsInvariant == \A j \in Jobs : JobPlaced(j)

\* Where the worker is.
WorkerInvariant ==
  /\ checked => ~Posted
  /\ wpc # "apply" => taken = NothingTaken /\ resuming = 0
  /\ wpc \in {"loop", "exited"} => Posted
  /\ wpc = "exited" => ~running

\* What the main thread knows of request j.
RecordPlaced(j) ==
  /\ Found(j) => j < nextJobId
  /\ records[j] \in {"dispatching", "dropped"} => mpc = "callback" /\ NextEvent.id = j
  /\ records[j] = "dropped" => log[j].outcome = "dropped"
  /\ j >= nextJobId => log[j].outcome = "none"
  /\ records[j] \in {"idle", "dispatching"} <=>
       j < nextJobId /\ log[j].outcome = "none"

\* Where the main thread is, and whose callback it runs.
MainInvariant ==
  /\ mpc = "callback" => batch # <<>>
  /\ mpc \notin {"batch", "callback"} => batch = <<>>
  /\ \A j \in Jobs : RecordPlaced(j)
  /\ mpc = "callback" /\ NextEvent.kind # "Complete" =>
       records[NextEvent.id] \in {"dispatching", "dropped"}
  /\ mpc = "callback" /\ NextEvent.kind = "Complete" =>
       log[NextEvent.id].outcome # "none"

\* All of it: the properties proved for every value of the constants follow.
InductiveInvariant ==
  /\ TypeOK
  /\ JobsInvariant
  /\ WorkerInvariant
  /\ MainInvariant
  /\ CancelNeverLost
  /\ UnloadedClean

\* What is known of the events E in flight: those of the requests that are over
\* for their plugin have all been handled, except for the one whose callback is
\* running; the Complete event of a job that is finished is there as long as a
\* plugin waits for it, is there of no other job, and is the job's last.
Ordered(E, calling, over, finished, waiting) ==
  /\ over \subseteq finished
  /\ \A i \in DOMAIN E : E[i].kind = "Complete" => E[i].id \in finished
  /\ \A j \in waiting \cap finished :
       \E i \in DOMAIN E : E[i].id = j /\ E[i].kind = "Complete"
  /\ \A i, k \in DOMAIN E : i < k /\ E[i].id = E[k].id => E[i].kind # "Complete"
  /\ \A i \in DOMAIN E : (calling => i > 1) => E[i].id \notin over

\* The requests that are over for their plugin, and those it waits for.
Over == {j \in Jobs : log[j].outcome \in Told}

Finished == {j \in Jobs : jobs[j].finished}

Waiting == {j \in Jobs : Found(j) /\ enabled}

\* The inductive invariant behind CompletionOwed and CompleteIsLast.
OrderInvariant ==
  /\ \A j \in Jobs : jobs[j].out = <<>>
  /\ Ordered(InFlight, mpc = "callback", Over, Finished, Waiting)

\* An event as the methods of a job make it: only data and results have a size,
\* and that of a result kept in memory is within its cap.
PlainEvent ==
  {e \in TransferEvent :
     /\ e.kind \in {"Headers", "Progress"} => e.n = 0
     /\ e.kind = "Complete" /\ e.status = "Ok" /\ e.id \notin FileJobs \cup StreamJobs =>
          e.n <= MaxBodySize}

\* What a job keeps in memory is within its cap, and all there is of a result.
BodyKept(job) ==
  /\ job.responseBody <= IF IsPrimary(job) THEN MaxBodySize ELSE MaxErrorBody
  /\ IsPrimary(job) /\ ~job.finished => job.bodyLength = job.responseBody

\* The inductive invariant behind BodyCapped.
CapInvariant ==
  /\ batch \in Seq(PlainEvent) /\ events \in Seq(PlainEvent) /\ outbox \in Seq(PlainEvent)
  /\ \A j \in Jobs : BodyKept(jobs[j])
  /\ \A j \in Jobs \ (FileJobs \cup StreamJobs) :
       log[j].outcome = "Ok" => log[j].length <= MaxBodySize

\* The events U of job j that have not been handled begin with its Headers
\* event if there is data, or posted says that the event was posted; unless
\* handled, since then one is behind it.
Headed(U, j, handled, posted) ==
  \/ handled
  \/ /\ posted => \E i \in DOMAIN U : IsOf(U[i], j, "Headers")
     /\ \A i \in DOMAIN U :
          IsOf(U[i], j, "Data") => \E k \in DOMAIN U : k < i /\ IsOf(U[k], j, "Headers")

\* A job whose server has sent body has posted the headers of this attempt.
HeadersFirst(j) ==
  /\ xfer[j].state = "body" => jobs[j].headersPosted
  /\ xfer[j].state = "open" => jobs[j].streamBuffer = 0
  /\ jobs[j].streamBuffer > 0 => jobs[j].headersPosted
  /\ j >= nextJobId => ~jobs[j].headersPosted
  /\ Found(j) /\ enabled =>
       Headed(Undelivered, j, log[j].headersHandled > 0, jobs[j].headersPosted)
  /\ j >= nextJobId /\ enabled => \A i \in DOMAIN Undelivered : Undelivered[i].id # j

\* A Headers event is handled without OnHeaders only if callbacks may be missing.
HeadersHeard ==
  CallbackMayBeMissing \/ \A j \in Jobs : log[j].headersHandled > 0 => log[j].headersHeard

\* The inductive invariant behind HeadersBeforeData.
HeadersInvariant ==
  /\ enabled <=> mpc \in {"idle", "batch", "callback"}
  /\ \A j \in HeaderJobs : HeadersFirst(j)
  /\ HeadersHeard

----------------------------------------------------------------------------
(* Flow control of streamed bodies *)

\* Bytes handed over and not yet acknowledged to the job.
Outstanding(j) ==
  DataBytes(InFlight, j) + ConsumedBytes(consumeRequests \o taken.consumes, j)

\* The job's count of unconsumed bytes is exact as long as its plugin listens,
\* whether its callbacks run or are missing (FlushStream, DispatchData).
FlowConserved ==
  \A j \in Jobs :
    Found(j) /\ jobs[j].attached /\ enabled => jobs[j].pendingStreamBytes = Outstanding(j)

\* A paused transfer always has an acknowledgement coming that can resume it.
PausedCanResume ==
  \A j \in Jobs :
    Found(j) /\ xfer[j].paused /\ enabled => jobs[j].paused /\ Outstanding(j) >= LowWater

\* The most a stream holds: it takes a write as long as less than HighWater is
\* unconsumed, and coalesces less than ChunkSize.
StreamCap == (HighWater - 1) + MaxWrite + (IF ChunkSize > 0 THEN ChunkSize - 1 ELSE 0)

\* However slow the plugin, a stream occupies a bounded amount of memory.
StreamBounded ==
  \A j \in Jobs : DataBytes(InFlight, j) + jobs[j].streamBuffer <= StreamCap

\* RESTStatus_Ok for a stream means that the whole body went through DispatchData:
\* OnData got all of it, for as long as it had a function to get it.
OkMeansWhole ==
  \A j \in StreamJobs \ FileJobs :
    log[j].outcome = "Ok" => log[j].bytesHandled = log[j].length

\* A stream is not started again once a byte of it is on its way to OnData: the
\* plugin would see the beginning of the body twice (CanRetry).
StreamNotReplayed ==
  [][\A j \in StreamJobs :
       jobs'[j].attempt > jobs[j].attempt => log[j].bytesHandled + Outstanding(j) = 0]_vars

\* What DispatchData and DispatchHeaders were given of job j, or are about to be.
Passed(j) == log[j].bytesHandled + DataBytes(Undelivered, j)

HeadersGiven(j) == log[j].headersHandled + HeadersIn(Undelivered, j)

Acked(j) == ConsumedBytes(consumeRequests \o taken.consumes, j)

Streamed(j) == j \in StreamJobs \ FileJobs

Listening(j) == Found(j) /\ enabled

\* A job that runs never counts less than is under way, nor more than it
\* received and may hold; it is paused only while enough of it is unconsumed to
\* be resumed, and starts again only with nothing handed over.
Balanced(job, x, inFlight, acked, passed, headers) ==
  /\ ~job.finished =>
       /\ inFlight + acked <= job.pendingStreamBytes
       /\ job.pendingStreamBytes + job.streamBuffer <= job.bodyLength
       /\ passed + job.streamBuffer <= job.bodyLength
       /\ job.pendingStreamBytes + job.streamBuffer <= StreamCap
       /\ job.streamBuffer = 0 \/ job.streamBuffer < ChunkSize
       /\ ~job.attached \/ job.id \notin StreamJobs =>
            job.pendingStreamBytes = 0 /\ job.streamBuffer = 0 /\ passed = 0
       /\ job.paused => job.pendingStreamBytes >= LowWater
       /\ x.paused => job.paused
       /\ headers <= job.attempt
       /\ x.state = "open" => job.bodyLength = 0 /\ headers < job.attempt
  /\ x.paused => x.state # "none"
  /\ inFlight + job.streamBuffer <= StreamCap

\* As long as its plugin listens, the counts of a job that runs are exact.
Exact(job, x, inFlight, acked, passed) ==
  ~job.finished =>
    /\ inFlight + acked = job.pendingStreamBytes
    /\ Streamed(job.id) /\ x.state # "none" /\ IsSuccess(x.status) =>
         passed + job.streamBuffer = job.bodyLength

\* The length that an Ok result of a stream reports is what was handled as data.
WholeTold(j) ==
  /\ Listening(j) =>
       \A i \in DOMAIN Undelivered :
         IsOf(Undelivered[i], j, "Complete") /\ Undelivered[i].status = "Ok" =>
           Undelivered[i].n = Passed(j)
  /\ log[j].outcome = "Ok" => log[j].bytesHandled = log[j].length

\* The inductive invariant behind the properties of streams and of headers.
FlowInvariant ==
  \A j \in Jobs :
    /\ Balanced(jobs[j], xfer[j], DataBytes(InFlight, j), Acked(j), Passed(j),
                HeadersGiven(j))
    /\ Listening(j) =>
         Exact(jobs[j], xfer[j], DataBytes(InFlight, j), Acked(j), Passed(j))
    /\ Streamed(j) => WholeTold(j)

----------------------------------------------------------------------------
(* Liveness *)

\* Every request that is sent ends for its plugin: with its callback, or dropped.
EveryRequestSettles == \A j \in Jobs : Found(j) ~> ~Found(j)

\* A cancelled request ends even if the server never answers and its retry
\* never comes due.
CancelSettles == \A j \in Jobs : log[j].cancelled ~> ~Found(j)

\* Unloading ends: the join does not wait for ever.
UnloadEnds == mpc = "stopping" ~> mpc = "unloaded"

----------------------------------------------------------------------------
(* What rest.inc says and the code does not do *)

\* rest.inc on RESTClient.Cancel: "The callback still runs with
\* RESTStatus_Cancelled."  It may run with the result that was already queued.
CancelReportsCancelled ==
  \A j \in Jobs :
    log[j].cancelled /\ log[j].outcome \in RestStatus => log[j].outcome = "Cancelled"

\* rest.inc on RESTResponse.BodyLength: "Bytes received into memory, the output
\* file, or the data callback."  For a stream that failed or was cancelled it
\* also counts the bytes that were still being coalesced, and the error page.
BodyLengthIsDelivered ==
  \A j \in StreamJobs :
    log[j].outcome \in RestStatus => log[j].length = log[j].bytesHandled

\* rest.inc on ChunkSize: "Receive buffer size in bytes (1024 to 10 MiB). Streamed
\* data is coalesced to this size before each OnData call." WriteStream compares
\* with the value as it was set, so that a larger one gives larger chunks. The
\* high-water mark is 4 MiB.
ChunksInRange ==
  \A i \in DOMAIN InFlight :
    InFlight[i].kind = "Data" => InFlight[i].n <= (10 * HighWater) \div 4 + MaxWrite

\* rest.inc on MaxRetries: "Retries for network errors, timeouts, 429, 502, 503
\* and 504."  A request with OnData is not retried if the error has a body.
TransientStatusRetried ==
  [][\A j \in Jobs :
       ReapCompleted(j) /\ xfer[j].code = "OK" /\ ShouldRetryStatus(xfer[j].status)
         /\ jobs[j].attempt <= MaxRetries
       => jobs'[j].waitingForRetry]_vars
============================================================================
