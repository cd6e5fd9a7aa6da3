------------------------------ MODULE Download ------------------------------
(***************************************************************************)
(* Saving a body to a file: what RestJob does with <outputPath>.part over  *)
(* attempts, requests and restarts of the server process, while the        *)
(* resource changes.  All requests here have the same output path and each *)
(* is a RestJob; of a job only what decides about files is kept.           *)
(*                                                                         *)
(* A file is an inode, since a renamed or unlinked file that is still open *)
(* is written to.  Its content is a sequence of units <<version, index>>.  *)
(* What fwrite has buffered is lost when the process dies.  The file       *)
(* system, stdio and the HTTP server are external.                         *)
(***************************************************************************)
EXTENDS Integers, Sequences

CONSTANTS
  Requests,      \* the requests
  Resuming,      \* those with RequestSpec::resume
  MaxRetries,    \* ClientConfig::maxRetries
  MaxVersion,    \* versions the resource goes through (bound)
  Size,          \* the length of each version
  ErrorStatuses, \* statuses of the server without success, other than 416
  OtherSuccesses, \* other statuses that it sends the whole resource with
  Exclusive,     \* no request is sent while another is in flight
  Steady,        \* the resource does not change under a .part file that may be resumed
  LaxRanges,     \* a Range may be ignored with one of OtherSuccesses
  CloseLoses,    \* fclose may fail to write what is buffered
  MaxKills,      \* how often the server process is killed (bound)
  Inodes         \* files that are named or open at the same time (bound)

Versions == 1..MaxVersion

ASSUME DownloadAssumption ==
  /\ Resuming \subseteq Requests
  /\ MaxRetries \in Int
  /\ MaxVersion \in Nat \ {0}
  /\ Size \in [Versions -> Nat]
  /\ ErrorStatuses \subseteq {s \in Nat : s >= 300 /\ s # 416}
  /\ OtherSuccesses \subseteq {s \in Nat : s >= 200 /\ s < 300 /\ s # 200 /\ s # 206}
  /\ Exclusive \in BOOLEAN /\ Steady \in BOOLEAN
  /\ LaxRanges \in BOOLEAN /\ CloseLoses \in BOOLEAN
  /\ MaxKills \in Nat
  /\ Inodes \subseteq Nat \ {0}

VARIABLES
  disk,     \* the content of every inode
  part,     \* the inode <outputPath>.part names, 0 if there is none
  output,   \* the inode outputPath names, 0 if there is none
  req,      \* the jobs
  version,  \* the current version of the resource
  kills     \* how often the process was killed

vars == <<disk, part, output, req, version, kills>>

Phase == {"unsent", "open", "body", "done", "waiting", "over"}

Result ==
  {"none", "Ok", "HttpError", "NetworkError", "IoError", "Cancelled", "killed"}

Units == (Versions \X Nat) \cup {<<0, 0>>}

\* Bytes of a file that were never written.
Hole == <<0, 0>>

\* offset: m_resumeOffset; file: m_outputFile, opened with "ab" if offset is not
\* 0; pos: where it stands otherwise; buffered: units in its stdio buffer, which
\* are the last ones received; served, next: the version the answer carries and
\* the unit that comes next; since: the version current when it was sent.
Job ==
  [phase : Phase, attempt : Nat, offset : Nat, file : Inodes \cup {0},
   pos : Nat, buffered : Nat, status : Nat, served : Versions, next : Nat,
   code : {"OK", "WRITE_ERROR", "RECV_ERROR"},
   since : Versions \cup {0}, result : Result]

FreshJob ==
  [phase |-> "unsent", attempt |-> 0, offset |-> 0, file |-> 0, pos |-> 0,
   buffered |-> 0, status |-> 0, served |-> 1, next |-> 1, code |-> "OK", since |-> 0,
   result |-> "none"]

Prefix(v, n) == [i \in 1..n |-> <<v, i>>]

Body(v) == Prefix(v, Size[v])

Init ==
  /\ disk = [i \in Inodes |-> <<>>]
  /\ part = 0 /\ output = 0
  /\ req = [r \in Requests |-> FreshJob]
  /\ version = 1
  /\ kills = 0

InFlight(r) == req[r].phase \notin {"unsent", "over"}

IsSuccess(status) == 200 <= status /\ status < 300

IsClientError(status) == 400 <= status /\ status < 500

ShouldRetryStatus(status) == status \in {429, 502, 503, 504}

CanRetry(job) == job.attempt <= MaxRetries

\* Finish, and ~RestJob for a file that is still open.
Finish(job, result) ==
  [job EXCEPT !.phase = "over", !.result = result, !.file = 0, !.buffered = 0]

ScheduleRetry(job) == [job EXCEPT !.phase = "waiting", !.file = 0, !.buffered = 0]

----------------------------------------------------------------------------
(* stdio *)

\* content with units written from position pos on.
WriteAt(content, pos, units) ==
  LET end == IF Len(units) = 0 THEN 0 ELSE pos + Len(units)
  IN  [i \in 1..(IF end > Len(content) THEN end ELSE Len(content)) |->
         CASE pos < i /\ i <= end                       -> units[i - pos]
           [] ~(pos < i /\ i <= end) /\ i <= Len(content) -> content[i]
           [] OTHER                                     -> Hole]

Position(job, content) == IF job.offset > 0 THEN Len(content) ELSE job.pos

\* content once the first n of the units buffered for job are written.
Flush(job, content, n) ==
  WriteAt(content, Position(job, content),
          [k \in 1..n |-> <<job.served, job.next - job.buffered - 1 + k>>])

Unused(f) == f # part /\ f # output /\ \A r \in Requests : req[r].file # f

\* fopen(m_partPath, "wb") opens f: the file that is there, or a new one.
Opens(f) ==
  IF part # 0
  THEN f = part
  ELSE Unused(f) /\ \A g \in Inodes : Unused(g) => f <= g

\* What fclose may have written of a buffer.
Kept(job) == IF CloseLoses THEN 0..job.buffered ELSE {job.buffered}

\* Seeded fault: the file is renamed, and the request reported, unclosed.
CloseFilesNever(job, kept) == UNCHANGED disk

CloseFiles(job, kept) ==
  disk' = IF job.file = 0
          THEN disk
          ELSE [disk EXCEPT ![job.file] = Flush(job, @, kept)]

----------------------------------------------------------------------------
(* An attempt begins *)

Existing(r) == IF r \in Resuming /\ part # 0 THEN Len(disk[part]) ELSE 0

\* Seeded fault: a file that is there is never truncated.
OpenOutputFileKeeping(r, f) ==
  IF part # 0
  THEN f = part /\ UNCHANGED <<disk, part>>
  ELSE Opens(f) /\ disk' = [disk EXCEPT ![f] = <<>>] /\ part' = f

\* fopen with "ab" if there is something to continue, with "wb" otherwise.
OpenOutputFile(r, f) ==
  IF Existing(r) > 0
  THEN f = part /\ UNCHANGED <<disk, part>>
  ELSE Opens(f) /\ disk' = [disk EXCEPT ![f] = <<>>] /\ part' = f

\* Send, or a retry that is due.  The file may not open, and curl may not take
\* the easy handle once it has been opened.
BeginAttempt(r) ==
  LET job    == [req[r] EXCEPT !.phase = "open", !.attempt = @ + 1, !.code = "OK",
                               !.since = IF @ = 0 THEN version ELSE @]
      opened(f) == [job EXCEPT !.file = f, !.offset = Existing(r), !.pos = 0]
  IN  /\ \/ req[r].phase = "unsent" /\ (Exclusive => \A q \in Requests : ~InFlight(q))
         \/ req[r].phase = "waiting"
      /\ \/ \E f \in Inodes :
              /\ OpenOutputFile(r, f)
              /\ \/ req' = [req EXCEPT ![r] = opened(f)]
                 \/ req' = [req EXCEPT ![r] = Finish(opened(f), "NetworkError")]
         \/ /\ req' = [req EXCEPT ![r] = Finish(job, "IoError")]
            /\ UNCHANGED <<disk, part>>
      /\ UNCHANGED <<output, version, kills>>

----------------------------------------------------------------------------
(* The server answers *)

Answered(job, status, next) ==
  [job EXCEPT !.phase = "body", !.status = status, !.served = version, !.next = next]

\* The request asks for the units after offset if that is not 0 (BuildHeaders).
\* A server may ignore that, or find nothing there; 206 is for the rest.  Only
\* an ignored range with exactly 200 is noticed (WriteFile).
Answer(r) ==
  LET job == req[r]
  IN  /\ job.phase = "open"
      /\ \/ req' = [req EXCEPT ![r] = Answered(job, 200, 1)]
         \/ /\ 0 < job.offset /\ job.offset < Size[version]
            /\ req' = [req EXCEPT ![r] = Answered(job, 206, job.offset + 1)]
         \/ /\ 0 < job.offset /\ Size[version] <= job.offset
            /\ req' = [req EXCEPT ![r] = Answered(job, 416, 1)]
         \/ /\ job.offset = 0 \/ LaxRanges
            /\ \E status \in OtherSuccesses :
                 req' = [req EXCEPT ![r] = Answered(job, status, 1)]
         \/ \E status \in ErrorStatuses :
              req' = [req EXCEPT ![r] = Answered(job, status, 1)]
      /\ UNCHANGED <<disk, part, output, version, kills>>

\* fwrite of one unit: it is buffered, or everything buffered is written, or the
\* call fails and curl ends the transfer.
Fwrite(job, content) ==
  LET got == [job EXCEPT !.next = @ + 1, !.buffered = @ + 1]
  IN  {[content |-> content, job |-> got],
       [content |-> Flush(got, content, got.buffered),
        job     |-> [got EXCEPT !.pos = @ + got.buffered, !.buffered = 0]],
       [content |-> content,
        job     |-> [job EXCEPT !.phase = "done", !.code = "WRITE_ERROR"]]}

\* Seeded fault: the whole body is appended to what was to be continued.
IgnoredRangeMissed(job) == FALSE

\* The server sends the whole body although a range was asked for.  After
\* freopen the offset is 0, so m_restartedFullBody adds nothing.
ServerIgnoredRange(job) == job.status = 200 /\ job.offset > 0

WriteFile(r) ==
  LET job == req[r]
      restart == ServerIgnoredRange(job)
      reopened(f) == [job EXCEPT !.file = f, !.offset = 0, !.pos = 0]
  IN  /\ job.phase = "body" /\ IsSuccess(job.status) /\ job.next <= Size[job.served]
      /\ \/ \E f \in Inodes :
              /\ IF restart THEN Opens(f) ELSE f = job.file
              /\ \E w \in Fwrite(IF restart THEN reopened(f) ELSE job,
                                 IF restart THEN <<>> ELSE disk[f]) :
                   /\ disk' = [disk EXCEPT ![f] = w.content]
                   /\ req' = [req EXCEPT ![r] = w.job]
              /\ part' = IF restart THEN f ELSE part
         \/ /\ restart
            /\ req' = [req EXCEPT ![r] = [reopened(0) EXCEPT !.phase = "done",
                                                             !.code = "WRITE_ERROR"]]
            /\ UNCHANGED <<disk, part>>
      /\ UNCHANGED <<output, version, kills>>

\* The transfer is over: well, with the whole body received, or broken off.
CurlDone(r) ==
  LET job == req[r]
  IN  /\ \/ /\ job.phase = "body"
            /\ IsSuccess(job.status) => job.next > Size[job.served]
            /\ req' = [req EXCEPT ![r].phase = "done"]
         \/ /\ job.phase \in {"open", "body"}
            /\ req' = [req EXCEPT ![r].phase = "done", ![r].code = "RECV_ERROR"]
      /\ UNCHANGED <<disk, part, output, version, kills>>

----------------------------------------------------------------------------
(* An attempt ends *)

HandleTransportFailure(r) ==
  LET job == req[r]
  IN  /\ req' = [req EXCEPT ![r] =
                   CASE job.code = "WRITE_ERROR"                    -> Finish(job, "IoError")
                     [] job.code # "WRITE_ERROR" /\ CanRetry(job)   -> ScheduleRetry(job)
                     [] OTHER                                       -> Finish(job, "NetworkError")]
      /\ UNCHANGED <<part, output>>

\* Seeded fault: what an answer without success left is renamed as well.
HandleHttpFailureSaving(r) ==
  /\ part # 0
  /\ output' = part /\ part' = 0
  /\ req' = [req EXCEPT ![r] = Finish(@, "HttpError")]

HandleHttpFailure(r) ==
  LET job == req[r]
      retry == ShouldRetryStatus(job.status) /\ CanRetry(job)
  IN  /\ req' = [req EXCEPT ![r] = IF retry THEN ScheduleRetry(job)
                                   ELSE Finish(job, "HttpError")]
      /\ part' = IF ~retry /\ IsClientError(job.status) THEN 0 ELSE part
      /\ UNCHANGED output

\* FinalizeDownload: rename fails without a .part file, and may fail anyway.
HandleHttpSuccess(r) ==
  \/ /\ part # 0
     /\ output' = part /\ part' = 0
     /\ req' = [req EXCEPT ![r] = Finish(@, "Ok")]
  \/ /\ req' = [req EXCEPT ![r] = Finish(@, "IoError")]
     /\ UNCHANGED <<part, output>>

OnAttemptDone(r) ==
  LET job == req[r]
  IN  /\ job.phase = "done"
      /\ \E kept \in Kept(job) : CloseFiles(job, kept)
      /\ \/ job.code # "OK" /\ HandleTransportFailure(r)
         \/ job.code = "OK" /\ IsSuccess(job.status) /\ HandleHttpSuccess(r)
         \/ job.code = "OK" /\ ~IsSuccess(job.status) /\ HandleHttpFailure(r)
      /\ UNCHANGED <<version, kills>>

\* Also what the extension does to its jobs when it is unloaded.
Cancel(r) ==
  /\ req[r].phase \in {"open", "body", "waiting"}
  /\ \E kept \in Kept(req[r]) : CloseFiles(req[r], kept)
  /\ req' = [req EXCEPT ![r] = Finish(@, "Cancelled")]
  /\ UNCHANGED <<part, output, version, kills>>

----------------------------------------------------------------------------
(* The surroundings *)

\* The process dies, with what it had buffered; unsent requests come later.
Kill ==
  /\ kills < MaxKills
  /\ \E r \in Requests : InFlight(r)
  /\ kills' = kills + 1
  /\ req' = [r \in Requests |-> IF InFlight(r) THEN Finish(req[r], "killed") ELSE req[r]]
  /\ UNCHANGED <<disk, part, output, version>>

\* A request that is not over and resumes may continue the .part file.
MayBeResumed == part # 0 /\ \E r \in Resuming : req[r].phase # "over"

Publish ==
  /\ version < MaxVersion
  /\ Steady => ~MayBeResumed
  /\ version' = version + 1
  /\ UNCHANGED <<disk, part, output, req, kills>>

AllOver == (\A r \in Requests : req[r].phase = "over") /\ UNCHANGED vars

Next ==
  \/ \E r \in Requests :
       \/ BeginAttempt(r) \/ Answer(r) \/ WriteFile(r) \/ CurlDone(r)
       \/ OnAttemptDone(r) \/ Cancel(r)
  \/ Kill \/ Publish \/ AllOver

Spec == Init /\ [][Next]_vars

----------------------------------------------------------------------------
(* Properties *)

\* What the guarantees need: nobody else writes the .part file, the resource stays
\* the same while a .part file waits for a request that resumes, a server that
\* ignores a range says 200, and fclose writes what is buffered.
Sound == Exclusive /\ Steady /\ ~LaxRanges /\ ~CloseLoses

\* Every variable has its type; no file name is left dangling.
TypeOK ==
  /\ disk \in [Inodes -> Seq(Units)]
  /\ part \in Inodes \cup {0} /\ output \in Inodes \cup {0}
  /\ req \in [Requests -> Job]
  /\ version \in Versions
  /\ kills \in 0..MaxKills

\* What an interrupted, cancelled or killed request leaves in <outputPath>.part
\* is the beginning of one version of the resource: what a later request can
\* continue (OpenOutputFile, CloseFiles, WriteFile).
PartIsPrefix ==
  part # 0 => \E v \in 1..version : \E n \in 0..Size[v] : disk[part] = Prefix(v, n)

\* The output path never names a file that is incomplete, or is still being
\* written, or mixes two versions.
OutputWhole == output # 0 => \E v \in 1..version : disk[output] = Body(v)

\* rest.inc on SetOutputFile: "Streams a 2xx body into "<path>.part" and renames
\* it onto path": when a request reports Ok, the file is the version it was
\* answered with.
SavesBody ==
  [][\A r \in Requests :
       req[r].result # "Ok" /\ req'[r].result = "Ok" =>
         output' # 0 /\ disk'[output'] = Body(req[r].served)]_vars

(* The inductive invariant behind the three, for Sound constants *)

\* The file holds the units the request continues, or is empty.
AtStart(job) ==
  IF job.offset > 0
  THEN Len(disk[part]) = job.offset
  ELSE disk[part] = <<>> /\ job.pos = 0

\* The file holds what was received up to what is buffered.
Writing(job) ==
  /\ job.buffered < job.next /\ job.next <= Size[job.served] + 1
  /\ disk[part] = Prefix(job.served, job.next - 1 - job.buffered)
  /\ job.offset = 0 => job.pos = job.next - 1 - job.buffered

\* A successful answer to job is being received.
Receiving(job) ==
  IF ServerIgnoredRange(job)
  THEN job.next = 1 /\ job.buffered = 0 /\ AtStart(job)
  ELSE Writing(job)

JobPlaced(r, job) ==
  /\ job.phase = "unsent" => job.since = 0
  /\ job.phase # "unsent" => job.since \in 1..version
  /\ job.result = "none" <=> job.phase # "over"
  /\ job.phase \in {"unsent", "waiting", "over"} => job.file = 0
  /\ job.phase \in {"open", "body"} => job.file # 0
  /\ job.file # 0 => job.file = part
  /\ job.file = 0 => job.buffered = 0
  /\ job.offset > 0 => r \in Resuming
  /\ job.phase = "open" => job.buffered = 0 /\ job.code = "OK" /\ AtStart(job)
  /\ job.phase = "body" => job.code = "OK" /\ job.served \in job.since..version
  /\ job.phase = "body" /\ IsSuccess(job.status) => Receiving(job)
  /\ job.phase = "body" /\ ~IsSuccess(job.status) => job.buffered = 0
  /\ job.phase = "done" /\ job.buffered > 0 => Writing(job) /\ job.served \in 1..version
  /\ job.phase = "done" /\ job.code = "OK" /\ IsSuccess(job.status) =>
       /\ job.file # 0 /\ job.served \in job.since..version
       /\ Receiving(job) /\ job.next > Size[job.served]

FileInvariant ==
  /\ TypeOK
  /\ PartIsPrefix
  /\ OutputWhole
  /\ part # 0 => part # output
  /\ \A r, q \in Requests : InFlight(r) /\ InFlight(q) => r = q
  /\ \A r \in Requests : JobPlaced(r, req[r])

\* The transfer of job may still deliver, or has delivered what will be saved.
Serving(job) ==
  \/ job.phase = "body" \/ job.buffered > 0
  \/ job.phase = "done" /\ job.code = "OK"

\* A .part file that may be resumed is the beginning of the current version.
PartIsCurrent ==
  MayBeResumed =>
    /\ \E n \in 0..Size[version] : disk[part] = Prefix(version, n)
    /\ \A r \in Requests : Serving(req[r]) => req[r].served = version

DownloadInvariant == FileInvariant /\ PartIsCurrent

Nothing == <<Hole>>

\* The abstract specification, with the file at the output path as a value.
Saved ==
  INSTANCE SavedFile WITH
    current <- version,
    saved <- IF output = 0 THEN Nothing ELSE disk[output],
    since <- [r \in Requests |-> req[r].since],
    ended <- [r \in Requests |-> CASE req[r].result = "none" -> "no"
                                   [] req[r].result = "Ok"   -> "well"
                                   [] OTHER                  -> "badly"]

\* A saved file is a version that was current while its request ran, and nothing
\* but a request that ends well touches it.
ImplementsSavedFile == Saved!SavedSpec
=============================================================================
