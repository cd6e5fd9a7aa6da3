# A TLA+ model of sm-rest

sm-rest is an asynchronous HTTP client for SourceMod plugins. Plugins build a
request and send it; a worker thread runs the transfers with libcurl's multi
interface and posts events to a queue; the game's main thread drains the queue
once per frame and calls the plugins back. This directory models that pipeline
and what surrounds it (the `.part` file, the ownership of callbacks, what a
request is put together from, progress, retries, URLs) in TLA+, checks the
models with TLC on small instances, and proves the central properties with
TLAPS for every value of the constants.

Paths below are relative to the repository (`src/job.cpp`,
`pawn/scripting/include/rest.inc`).

## The system

| Component | Code | State | Operations | Model |
|---|---|---|---|---|
| Transfer job | `src/job.*` | `RestJob` members: attempt, attached handle, retry, finish and cancel flags, body and stream counters | `BeginAttempt`, curl's callbacks, `OnStreamConsumed`, `OnAttemptDone`, `Cancel` | `RestJob` |
| - its output file | `src/job.*` | `m_outputFile`, `m_resumeOffset`, `<outputPath>.part` | `OpenOutputFile`, `WriteFile`, `CloseFiles`, `FinalizeDownload` | `Download` |
| - its progress | `src/job.*` | `m_lastProgressPost` | `ProgressCallback`, `PostProgress` | `Progress` |
| - its retries | `src/job.*`, `src/transfer_thread.*` | `m_retryAt`, `m_attempt` | `ParseRetryAfterMs`, `ScheduleRetry`, `ComputeWaitMs`, `StartDueRetries` | `RetrySchedule` |
| - its options | `src/job.*` | `m_headerList` | `BuildHeaders`, `ApplyAuth`, `ApplyMethod`, `ApplyBody` | `RequestConfig` |
| Transfer thread | `src/transfer_thread.*` | three mailboxes under a mutex, `m_active`, `m_running`, the multi handle | `Enqueue`, `Cancel`, `Consume` (main thread), the passes of `Run`, `Stop` | `TransferThread` |
| Event queue | `src/main_thread_queue.*` | `m_events`, `m_enabled` | `Post` (worker), `Drain`, `SetEnabled` (main thread) | `MainThreadQueue` |
| Extension | `src/extension.*` | `m_jobs` (records), `m_nextJobId` | `SubmitJob`, `CancelJob`, `CancelJobsForClient`, `OnHandleDestroy`, `OnPluginUnloaded`, `OnGameFrame`, `SDK_OnUnload` | `RestExtension`; ownership of forwards in `RequestHandles` |
| Client and request natives | `src/natives.cpp`, `src/request.h` | client and request handles, `ClientConfig`, `RequestSpec`, forwards | setters, `Request`, `Send`, `Cancel`, `CancelAll` | `RequestHandles`, `RequestConfig`, `RequestUrl`; `Send`, `Cancel`, `CancelAll` in `RestExtension` too |
| URL helpers | `src/uri.*` | none | `UriEncode`, `JoinUrl`, `AppendQuery`, `IsAbsoluteUrl` | `RequestUrl` |
| Header list and text helpers | `src/text.*` | none | `SetHeader`, `RemoveHeader`, `EqualsIgnoreCase`, `Trim` | `RequestConfig` |
| Response natives | `src/natives.cpp` | a constant record | getters | not modelled |

How they interact: the main thread calls into the worker only through the three
mailboxes (jobs, cancellations, acknowledgements of streamed bytes), each under
`m_mutex`, and wakes it. The worker answers only through `MainThreadQueue`. The
jobs belong to the worker from the moment they are enqueued, the records to the
main thread. libcurl calls a job back while the worker is inside
`curl_multi_perform`, and inside `curl_easy_pause` when a paused stream resumes.
Plugins' callbacks run inside `OnGameFrame` and may call every native, including
those that drop the request whose callback is running. A request's specification
is copied from its client, changed by the request's own setters, and moved to
the job by `Send`; its forwards move to the record. Jobs with the same output
path meet again in the file system.

What is hard: a cancellation, an acknowledgement or a drop travels while the job
ends, retries, pauses or is still in the mailbox; the events of a dropped
request are on their way; records are dropped, and forwards released, from
inside their own callbacks; the flow control of streams counts across both
threads; retries must not repeat what was handed over; a `.part` file outlives
attempts, requests and processes; the worker sleeps while retries become due;
unloading disables the queue without its lock and joins a worker that may be
posting. `PROJECT.json` lists each hazard at its line.

What makes each component correct:

* job: one completion, as the last event; at most `MaxRetries + 1` attempts;
  body caps; headers once per attempt; the rest of a stream is delivered before
  Ok; what is saved is one whole version of the resource; retries neither early
  nor slept over; progress not more often than the interval and the end reported;
* thread: cancellations are not lost; curl only ever holds handles of live jobs;
  it stops when told to;
* queue: in order, and nothing left after unloading;
* extension: the contract with the plugin (`RequestContract`), drops that touch
  the right requests only, and each forward released once, when nobody runs it;
* natives and helpers: what libcurl is told, and what a server reads, is what
  the calls said, in whatever order and spelling they came.

## The modules

| Module | Content |
|---|---|
| `RestJob` | One job as a record, its methods as operators from record to record. No variables. |
| `MainThreadQueue` | The queue. `Post` is two steps, since it tests `m_enabled` outside the lock. |
| `TransferThread` | The worker: one action per phase of `Run()` and per job in it, the callbacks of curl, the mailboxes. |
| `RestExtension` | The main thread and the whole composition: `Init`, `Next`, `Spec`, `LocalSpec`, `LiveSpec`, and the properties. |
| `RequestContract` | The abstract specification: the life of a request seen from the plugin, with no thread, queue or retry. |
| `Download` | The `.part` file over attempts, requests and killed processes, with inodes, stdio buffers, a server that ignores ranges and a resource that changes. |
| `SavedFile` | The abstract specification of `Download`: the file at the output path is replaced in one step by a version that was current while its request ran. |
| `RequestHandles` | Request handles, their clones, forwards and records; who holds a pointer to which forward. |
| `RequestConfig` | From the calls on a client and a request to the options of an attempt, against a reading of the calls that keeps no state. |
| `Progress` | Which of libcurl's progress callbacks become events. |
| `RetrySchedule` | Delays with integers of bounded width and a clock finer than a millisecond; when the worker wakes up. |
| `RequestUrl` | URL and form body as sequences of bytes, against a server that reads them. |
| `MCPipeline`, `MCDownloadFile`, `MCHandles`, `MCRequestConfig`, `MCProgress`, `MCRetrySchedule`, `MCRequestUrl` | Values of the constants for the configurations. |
| `RestExtensionProofs` | Proofs about the pipeline: the methods of a job, the invariant of all the others, the contract. |
| `RestDeliveryProofs` | Which events reach a plugin, in which order, and how large; flow control: sums of bytes over queues and mailboxes. |
| `DownloadProofs`, `RequestHandlesProofs` | Proofs about saving files and about the ownership of forwards. |
| `RetryScheduleProofs`, `ProgressProofs`, `RequestConfigProofs` | Proofs about the times of retries, about progress events and about what libcurl is told. |
| `RequestUrlProofs` | Proofs about strings of any length: what is escaped, joined and appended is what a server reads. |

`TransferThread` extends `RestJob` and `MainThreadQueue`, `RestExtension` extends
it; that is the composed system. The other modules each look at one aspect that
the pipeline abstracts from: `Download` puts the contents of files where the
pipeline has only "the rename failed", `RetrySchedule` puts times where it has
"a retry is due", `Progress` the interval where it has a bound, and
`RequestHandles` the forwards where it has records only.

Operators and actions carry the names of the functions they model. `PROJECT.json`
maps every definition to its lines. Operators whose comment says "Seeded fault"
are faulty versions of the definition that follows them; nothing uses them. They
are there to show that a property notices the fault when they replace it.

### Granularity of the pipeline

* A method of `RestJob` runs on the worker without being interrupted by anything
  that reads or writes its job, so it is one step. What it posts is collected in
  `out` in the order of the calls and posted one event at a time (`outbox`,
  `PostCheck`, `PostPush`), so the main thread may drain, or disable the queue,
  between any two of them; the worker goes on only when `outbox` is empty.
* Jobs taken in one pass are admitted in any order, and so are cancellations
  applied: they concern different jobs. Acknowledgements keep their order.
  Admission comes before cancellation, and that before acknowledgements, as in
  `Run()`. A due retry may be started or, its time not having come, left.
* On the main thread natives run between frames (`idle`) or from inside a
  callback (`callback`). A callback starts in one step and returns in another,
  with any natives between. The mutexes of the mailboxes protect single
  operations, so a native that takes one is one step. `DropJobsForClient` drops
  all its records in one step: the worker sees the single cancellations one by
  one only in which pass it takes them, and cancellations commute.
* `SDK_OnUnload` is `BeginUnload` (disable the queue), `StopWorker` (clear
  `m_running`) and `FinishUnload` (everything after the join).

Left out of the pipeline as data: headers, URLs, error texts, authentication,
options of curl and the bytes of bodies and files. Byte counts are small units.
Of libcurl it has what the code relies on: the order of its callbacks, that a
removed handle makes none, that a paused transfer is handed no data and does not
end well, and that one message is queued per ended transfer.

### The file model

A file is an inode, since a `.part` file that was renamed or unlinked while it is
open is still written to; `part` and `output` are the two names. Content is a
sequence of units, each tagged with the version of the resource it belongs to.
`fwrite` buffers units, writes all that is buffered, or fails. Opening with "ab"
or "wb", a range that is honoured, ignored (200) or past the end (416),
`freopen`, `unlink` after a client error, and a failing open or rename are as in
`job.cpp`. A success other than 200 and 206 (203 in the run) is one of
`OtherSuccesses`. `Kill` ends the process between any two steps, with what its buffers
hold; later requests find the `.part` file. `Publish` changes the resource. Four
constants say what is assumed of the surroundings: `Exclusive` (no two requests
with this path overlap), `Steady` (the resource does not change while there is a
`.part` file that a request may resume), `LaxRanges` (a server may ignore a range
with a success other than 200, which the test `status == 200` of `WriteFile` does
not recognise), and `CloseLoses` (`fclose` may fail to write). The guarantees hold
under `Sound`, which is the first two and neither of the others; each is needed, as the configurations below show.

### Handles, options, progress, retries, URLs

* `RequestHandles`: `held` maps every place in the code that keeps an
  `IChangeableForward *` (a request's three callbacks, a record's four, and
  those of the copy `HandleEvent` works on) to a forward. SourceMod is external:
  any plugin may use a handle, only its owner may free it, `CloneHandle` makes
  more, unloading a plugin frees its handles and takes its functions out of
  forwards. `RESTRequest.Send` frees the handle in the name of the calling
  plugin, so that the object may outlive `Send`.
* `RequestConfig`: header lists with the comparison without case as a table
  (`Folded`) and `Trim` as another; `Send` moves the specification to the job;
  every attempt builds header list, authentication, method and body from it. What
  was asked for is computed from the sequence of calls alone.
* `Progress`: libcurl's counters, a total that is 0 while it is not known, a
  clock of ticks, and the callback at any moment. `lastProgressPost` starts at 0,
  long before the clock, as the time point of the code does.
* `RetrySchedule`: seconds times milliseconds in a `long` of bounded width,
  exponential backoff with jitter, and the loop of the worker: a poll of at most
  `ComputeWaitMs`, which cuts off fractions, returns earlier when anything
  happens, and a tick late.
* `RequestUrl`: bytes. Escaping, joining and appending as in `uri.cpp`, read back
  with the rules of the URL standard: the query ends at a `#`, a scheme comes before
  any `/`, `?` or `#`, the host ends at one of them, and a percent sign is an escape
  only with two hexadecimal digits. The loops over strings are recursive functions,
  or a `FlattenSeq` of what each byte becomes.

### Assumptions about the environment

* SourceMod calls natives, listeners, the frame hook and `SDK_OnUnload` on the
  main thread, does not unload the extension from inside one of its callbacks
  and does not unload a plugin while a callback of that plugin runs.
* A forward may lose its function and a response handle may fail to be created
  (`CallbackMayBeMissing`); then the event is handled without a callback.
  Progress events are posted whether or not the plugin called `OnProgress`, so
  for them a missing callback is always possible.
* A request may be sent after its client was deleted (`Native_Request_Send` does
  not look at the client).

## The runs

Deadlock is checked where the system can always go on: only an unloaded
extension, and models whose requests are all over, stutter (`Unloaded`,
`AllOver`, `Done`). The progress model stops at its time bound, so that
`MCProgress.cfg` switches the check off.

| Run | What it asks | Instance |
|---|---|---|
| `pipeline` | Are cancellations, completions and handles accounted for at every step, is unloading clean, does the invariant of the proofs hold, does the pipeline implement the contract? | two requests, one client, one retry, one transport failure, missing callbacks; 2.8 million states |
| `stream` | Is the count of unconsumed bytes exact, can every pause end, is memory bounded, is Ok the whole body, does `OnHeaders` run before `OnData`, is nothing replayed, and does every request end? | one stream, `ChunkSize` 2, marks 2 and 3, up to 6 bytes, error page, one retry, missing callbacks |
| `memory` | Headers once per attempt, attempts bounded, body capped, drops scoped? | one request, statuses 100, 200, 302, 404, 503, four failures, two retries, cap 2 of 4 bytes; two clients and two plugins, only one of each its own |
| `download` | With fairness of the two threads only, does a cancelled request end and does unloading end? | an upload saved to a file, failing opens, writes and rename, one progress event |
| `file` | Is what is left in `.part` always a beginning of one version, is what is saved whole, and does it look like replacing the file in one step? | two requests in turn, one of them resuming, one retry each, two versions of 2 and 3 units, statuses 404, 503 and 203, one kill |
| `handles` | Is each forward held in exactly one place, does what a running callback needs stay, is nobody called after the client is deleted? | two plugins, one client, one request object, four forwards, two requests sent |
| `config` | Does libcurl get the headers, authentication, method and body that the calls say, on the retry too? | any three calls from 29, five methods, two attempts, resuming or not |
| `progress` | Is there an interval between any two events that report no completion, and is the last state reported once a direction is complete? | an upload of 0 or 2 and a download of 3 units, interval 2, five ticks, two attempts |
| `retry` | Does a retry begin neither before its time nor after the thread could have woken up? | two jobs, two retries, `Retry-After` absent, 0, 1 and beyond the cap |
| `url` | Does a server read the parameters and fields that were set, and is it the right server? | three base URLs, six paths, two calls with names and values of separators, `#`, `%`, `+`, a letter and a byte above 0x7f; 854301 states |

Runs that are expected to fail, each a finding in `PROJECT.json`:

| Run | Documentation | What the code does |
|---|---|---|
| `retry_doc` | `rest.inc:141` "Retries for network errors, timeouts, 429, 502, 503 and 504." | `CanRetry` takes the bytes of the error page for streamed bytes: a 503 with a body is final for a request with `OnData`. |
| `retry_after_doc` | `rest.inc:141` "Retry-After is honoured." | `seconds * 1000` is computed in a `long` before the cap is applied. On the 32-bit build it overflows above 2147483 seconds, and the retry comes early. |

### Where documentation or expectation and code part

These configurations are not among the runs; TLC finds each violated
(`tlc -config X.cfg M`). They show why the properties above have the conditions
they have.

| Configuration | Module | What TLC shows |
|---|---|---|
| `MCCancelDoc.cfg` | `MCPipeline` | `CancelReportsCancelled`: `rest.inc:299` "The callback still runs with RESTStatus_Cancelled." `Cancel` returns true as long as there is a record; a completion already queued wins. |
| `MCBodyLengthDoc.cfg` | `MCPipeline` | `BodyLengthIsDelivered`: `rest.inc:46` "Bytes received into memory, the output file, or the data callback." For a stream that does not end well `BodyLength` includes bytes that were still being coalesced. |
| `MCChunkSize.cfg` | `MCPipeline` | `ChunksInRange`: the range documented for `ChunkSize` is applied to the receive buffer only; `WriteStream` compares with the value as it was set. |
| `MCMixedPart.cfg` | `MCDownloadFile` | `OutputWhole` without `Steady`: the resource changes, a resume continues the old `.part` file with the new version (there is no `If-Range`), and the mixture is saved as Ok. |
| `MCStalePart.cfg` | `MCDownloadFile` | `SavesBody` without `Steady`: the stale `.part` file is truncated only when a body arrives, so an empty 200 renames the old bytes. |
| `MCSharedPart.cfg` | `MCDownloadFile` | `SavesBody` without `Exclusive`: two requests with one output path write to one `.part` file. |
| `MCAppended.cfg` | `MCDownloadFile` | `OutputWhole` with `LaxRanges`: the whole body of a 203 that ignores the range is appended to the old `.part` file, and the result is saved as Ok. |
| `MCLostFlush.cfg` | `MCDownloadFile` | `SavesBody` with `CloseLoses`: `fclose` fails to write its buffer (a full disk), its result is ignored, the file is renamed and Ok reported. |
| `MCSendByOther.cfg` | `MCHandles` | `SendFreesHandle`: `rest.inc` says of `Send` that it "frees this handle"; it does not if another plugin owns it. The object that stays cannot be sent again, since its specification was moved (`AlwaysSentOnce`). |
| `MCProgressRate.cfg` | `MCProgress` | `OncePerInterval`: once an upload is complete, every progress callback of the download posts an event (`README.md:11` "at most once per `ProgressInterval` milliseconds ... plus once when either direction completes"). |
| `MCProgressUnknown.cfg` | `MCProgress` | `CompletionReported`: `rest.inc` "Completion of either direction is always reported." Not without a Content-Length. |
| `MCPathWithUrl.cfg` | `MCRequestUrl` | `PathResolved`: a path with `://` anywhere in it is taken for an absolute URL and not resolved against the base URL. |

### Bounds, and why they are enough

`MaxJobs` (1 or 2), `MaxTransfer`, `MaxWrite` and `MaxProgress` are bounds of
the model; everything else in the pipeline is a parameter of the code. Jobs share
no state except the mailboxes, the queue and the frame's batch, so two of them
show every interference of one with another; the properties proved hold for any
number. The numbers of a stream are chosen so that a chunk is more than one
write, the marks differ, a write can pass the high-water mark, a pause happens
with a partly filled buffer, and a transfer is long enough to be paused twice.
`MaxRetries` of 1 or 2 gives a job that retries and one whose retries are used
up. Statuses are one of each class the code distinguishes, failures one
`CURLcode` of each class. The mailboxes of ids are sets: an id is enqueued once,
and cancelling twice is cancelling once.

`Download`: `MaxVersion`, `MaxKills` and `Inodes` are bounds. Two versions of
different length tell a mixture from a version, a request after a killed one
resumes what that left, and with requests that do not overlap at most two files
are named or open at a time, so that two inodes never run out (the proof needs no
such bound). `RequestHandles`: `Objects`, `Forwards` and `MaxJobs` are bounds;
four forwards are a full record, and more than a request and a record at once
would show nothing that shares state. `RequestConfig`: three calls are one to set,
one to change and one to undo or to interfere, split between client and request
in any way. `Progress` and `RetrySchedule`: `MaxTime` is a bound. The constants of
the code are scaled down: an interval of two ticks has a tick inside; a
millisecond of two ticks has a fraction to cut off; a second of 2 ms, a backoff
from 4 to 6 ms, a cap of 5 ms, a poll of at most 2 ms and a `LongMax` of 15 keep
the order of the real ones (the backoff reaches its cap at the second retry, a
poll is shorter than any backoff, the overflow lies far beyond the cap).
`RequestUrl`: one byte of each class the code or a server treats differently,
alone and after a percent sign.

### Fairness

* `LocalSpec` has weak fairness of the worker's own steps and of the main thread's
  own steps: two threads the operating system runs, with a game that keeps
  running frames. Natives, `BeginUnload` and everything curl does are not fair.
* `LiveSpec` adds strong fairness of `StartDueRetry` and of the end of a transfer
  that is not paused. A retry has a delay of at most a minute, and the worker
  waits at most a second. A transfer ends with an answer, or by the stall timeout
  (`CURLOPT_LOW_SPEED_TIME`, default 60 seconds) or `CURLOPT_TIMEOUT`; strong,
  because both are only possible inside `curl_multi_perform`. A plugin that sets
  `Timeout = 0` and leaves `AbsoluteTimeout` at 0 gives this up. For a paused
  transfer nothing is assumed, since a stall is not counted while paused: that
  it ends at all must come from the flow control, which is what
  `EveryRequestSettles` asks in the run `stream`.

That a retry is taken up in time is a safety property of `RetrySchedule`
(`BeginsInTime`), which needs no fairness.

## The proofs

Every theorem holds for all values of the constants that satisfy the named
assumptions (`RestJobAssumption`, `TransferThreadAssumption`,
`RestExtensionAssumption`, `DownloadAssumption`, `RequestHandlesAssumption`,
`RetryScheduleAssumption`, `ProgressAssumption`, `RequestConfigAssumption`,
`RequestUrlAssumption`: marks in order, limits natural, strings of bytes that are
not 0, `MaxRetries` any integer since the setter takes any). TLC found every
inductive invariant named here to hold on the instances of the runs.

**The pipeline.** `RestExtensionProofs` proves `Spec => []InductiveInvariant`. The
properties are not inductive by themselves. That curl has no handle of a job
that is over needs to know that an attached job is active and unfinished, which
after `RemoveFinished` needs the mailboxes and `m_active` to be disjoint from
each other and from ids not yet given out, and that again that a job waits in
one place only. That a cancellation is not lost needs that a job whose id has
been given out is in the mailbox, in the worker's hands, active, or over: else
the worker could look for it in vain. So the invariant has these parts:

* `TypeOK`;
* `JobsInvariant`: for each job where it is, `xfer` in step with `attached`, and
  `JobInvariant` of its fields (finished jobs have no handle and no retry,
  cancelled ones are finished, the attempt is bounded);
* `WorkerInvariant`: what the worker holds in each phase;
* `MainInvariant`: which records exist, in which state, and whose callback runs;
* `CancelNeverLost` and `UnloadedClean` themselves.

Its first part shows that every method of a job keeps its type and
`JobInvariant`. The invariance proof is one lemma per action; the actions that
run a method of one job share `JobStepInvariant`. From the invariant follow
`TypeCorrect`, `CancellationsArrive`, `TransfersHaveLiveJobs`,
`UnloadLeavesNothing`, `RetriesBounded` and `RecordsOutliveCallbacks`.
Its last part shows that each step of the pipeline is a step of
`RequestContract` or changes nothing of it (`PipelineImplementsContract`), one
lemma per action, and that a dropped request lost its client or its plugin
(`DropsScoped`).

**The order of events.** `RestDeliveryProofs` proves `CompletionOwed` and
`CompleteIsLast` from a second invariant, `OrderInvariant`, relative to the first.
A Complete event is in flight only if its job is over, so the job, which posts
through its methods only while it is not over, puts nothing behind it; what a
method posts ends with the Complete event exactly if it finishes the job
(`Announces`). All other steps leave the sequence of events in flight as it is or
take one event out, and the only ones that take out a Complete event erase the
record that was waiting for it or find the queue disabled.

**What reaches the plugin.** The same module proves `BodyCapped` and
`HeadersBeforeData` from `CapInvariant` and `HeadersInvariant`, relative to the two
invariants above. For the cap, what an event carries is bounded from the moment a
method posts it (`PlainEvent`): a job that ends Ok posts the size of a body it
kept, and that is within the cap or the write has failed the transfer (`BodyKept`).
`HeadersBeforeData` is an action property: a step that handles a Data event of a
job with `OnHeaders` is taken after `OnHeaders` ran for it. The one exception is a
callback that may be missing: `DispatchHeaders` gives up without a response handle,
while `DispatchData` needs none and goes on, so that then the property asks only
that a Headers event was handled before. The log therefore tells the two apart:
`headersHandled` counts the Headers events taken from the queue, and `headersHeard`
says that `OnHeaders` ran (`HeadersHeard`: it did whenever one was handled and
callbacks are not missing). For the order, the events that are not handled yet
(`Undelivered`) hold the Headers event before any Data event of the same job,
unless one was handled since (`Headed`); a job whose server sends a body has posted
its headers, and an attempt that starts over has an empty buffer (`HeadersFirst`). A
step of the worker only appends to these events and one of the main thread only
takes the first, so each is one lemma (`JobStepDelivery`, `TailDelivery`).

**Saving files.** `DownloadProofs` proves `DownloadInvariant` for `Sound`
constants, for any number of requests, versions, lengths, retries and kills. What
has to be known besides the property is where the bytes of a file are: while a
request is receiving, `.part` holds the units received so far except those in the
stdio buffer (`Writing`); when the answer ignores the range, it still holds what
was to be continued (`AtStart`); when no request is in flight it is the beginning
of some version, and of the current one if it may be resumed (`PartIsCurrent`).
Then `rename` can only name a whole version (`OutputAlwaysWhole`), Ok means the
version that was answered (`SavesBodyHolds`), and `SavedFile` is implemented
(`DownloadImplementsSavedFile`).

**Forwards.** `RequestHandlesProofs` proves `HandlesInvariant` for any number of
plugins, clients, objects and forwards: a forward that exists is held in exactly
one place, a holder that is gone holds none, and the place of the running callback
keeps its own. Releasing, replacing and moving forwards are one lemma each, which
the actions share. `NoCallAfterDeleteHolds` adds that the client of every record
is there, unless it was not when the request was sent.

**Flow control.** The second half of `RestDeliveryProofs` proves `FlowConserved`, `PausedCanResume`,
`StreamBounded`, `OkMeansWhole`, `HeadersOncePerAttempt` and `StreamNotReplayed`
from `FlowInvariant`, relative to the invariants above. The bytes of a job that
are under way are a sum over the events in flight and the acknowledgements in the
mailbox; a sum is the cardinality of a union of disjoint sets (`SumOf`), so that
what appending, taking and erasing do to it follows from the library's theorems
about finite sets. `FlowConserved` alone is not inductive, since it says nothing
of a job whose plugin no longer listens, while the count of such a job still
decides if curl is paused. So the invariant has two halves. `Balanced` holds of
every job: what is under way is at most what the job counts, which with its
buffer is at most what it received and at most `StreamCap`; a paused job counts at
least the low-water mark; and a job without a handle counts nothing, which is why
`CanRetry` lets no stream start again that has handed over a byte. `Exact` holds
while the plugin listens: the count is what is under way, and what was handled
as data and what is buffered is all that was received. `WholeTold` carries the last
of these from the job's Complete event to the plugin. What each method of a job
does to the balance is one lemma, and the steps of the two threads are a few
kinds: a job posts, an event goes from the outbox to the queue, the plugin is told
of one, an acknowledgement is taken.

**When retries begin.** `RetryScheduleProofs` proves `BeginsInTime`, `BacksOff`
and, if the milliseconds of every `Retry-After` fit in a `long`, `NotBeforeAsked`
(`RetryAfterHonoured`), for any number of jobs and any scale of the constants.
The hypothesis of the last is what the code does not check: without it the
statement is false, and that is the finding `retry_after_doc`. `ScheduleInvariant`
says where a waiting retry and the thread are to each other: while the thread
works, the clock has not passed a retry; its sleep ends before the next one, which
is there because a set of natural numbers has a least element; and it is at most
one tick late after a sleep.

**Progress.** `ProgressProofs` proves `PostsBounded` and
`LastHeard` from `ProgressInvariant`: the last event is the latest, and libcurl's
totals are the lengths of the bodies.

**What libcurl is told.** `RequestConfigProofs` proves `AuthAsAsked`,
`HeadersAsAsked`, `SentAsAsked` and `RetriesAlike` for any number of calls in any
order, any header names and any number of attempts. The inductive
`RequestInvariant` says that the configuration of the client, the request or the
job, whichever there is, are what the calls made so far ask for: its
authentication is that of the last call for it, each header has the one line of
the last call about it, or none, and its fields and body are those since the last
call that set a body. It must say so of every header and of the fields while a body
hides them, since a later call uncovers them; and that nobody calls for a job, which
is why its attempts are alike. The proof goes call by call: how the reading of the
calls grows by one more (`LastOfAppend`, `HeaderAskedAppend`, `FieldsAskedAppend`),
and that the code's setter does the same (`SetHeaderSets`, `RemoveHeaderRemoves`,
`WithBodySpec`, `WithFieldSpec`). Selections from a sequence are the model's `Kept`,
given by the rank of each position that stays, because the prover knows no
definition of `SelectSeq`; `KeptIs` and `KeptAppend` say what it returns.

**URLs and forms.** `RequestUrlProofs` proves `ReadBack` and `ServerKept` for base
URLs, paths, names and values of any bytes and any length, and any number of calls.
The inductive `UrlInvariant` is short: the query is what `BuildFormBody` would make of
the parameters, and URL and body are made from what the request holds. The work is
in what the functions compute:

* `DecodeEncode`: decoding undoes `UriEncode`. An escape ends before the next byte
  begins, so decoding what is escaped byte by byte is decoding each byte's part;
  what is escaped is one of 255 bytes, and its two digits give it back. Nothing in
  it is a separator, `#`, `+` or, but for the escapes, a percent sign (`Quoted`).
* `FormRead`: the reader's loop over text, `&` and a pair is its loop over the text
  and then that pair, whatever the text is (`ReadAs`), so the query of a path stays
  in front of what `SetQuery` appends (`AppendQueryRead`).
* `JoinRead`: joining moves the first `?` and `#` of the path, and changes neither
  them nor what follows, if the base URL has none of its own.
* `ServerConcat`: the server of a URL with a host is decided by what comes before
  the first `/`, `?` or `#` after `://`, so neither the path that is joined
  (`JoinServer`) nor the query (`AppendQueryServer`) has a part in it.

A loop is a recursive function over the prefixes of its argument: `LoopExists`
gives its first value and its step, and `LoopAppend` what it is after one more
byte. Induction is stated for a set in place of an operator (`Induction`): a set that
holds 0 and the successor of each of its naturals has all naturals, since those
outside of it would have a least one.

Only model-checked: the liveness properties (`EveryRequestSettles`,
`CancelSettles`, `UnloadEnds`), since the prover has no rule for fairness.

## Not modelled

* Response natives and getters: reads of a record that never changes.
* Setters of numbers and flags, `SetUserAgent`, `SetOutputFile`: they store their
  argument, which is a constant of the models. A negative `MaxBodySize` is cast to
  a size and means no cap (`src/job.cpp:586`); the models have it as a large number.
* Options of curl without influence on control flow, CA bundle, handle types,
  registration of natives: no state that changes. Reading the file of an upload
  and building a multipart body are libcurl's.
* `OnHeaders` returning `Plugin_Handled` queues a cancellation
  (`src/extension.cpp:370`), so that data already in the batch, or posted before
  the worker sees it, still reaches `OnData`. That is in the model
  (`ReturnFromCallback`); nothing documented speaks about it.
* A Content-Type set as a header and that of a body are both sent
  (`src/job.cpp:280`), and `RemoveHeader` compares without trimming
  (`src/natives.cpp:179`). Both are modelled as they are; `HeadersAsAsked` has the
  Content-Type of the body on top.
* A fragment in a path or base URL stays in front of the query that is appended
  (`src/uri.cpp:90`), and a query in the base URL in front of the path: `ReadBack`
  says nothing of such URLs, and `ServerKept` nothing of a base URL without a host.
* The build, the packaging, the Pawn include and the example plugin.

## What could follow

1. `Download` and the pipeline composed, so that a cancellation or unload is the
   one of `RestExtension` and not an action of its own.
