--------------------------- MODULE DownloadProofs ---------------------------
(***************************************************************************)
(* For Sound constants the .part file is always the beginning of a version *)
(* of the resource, the output path always names a whole version, and the  *)
(* handling of files implements SavedFile: for any number of requests,     *)
(* versions, retries and deaths of the process, and versions of any length.*)
(***************************************************************************)
EXTENDS Download, TLAPS, SequenceTheorems

----------------------------------------------------------------------------
(* Prefixes and what writing does to them *)

\* A function on 1..n is a sequence of length n.
LEMMA TupleLength ==
  ASSUME NEW n \in Nat, NEW S, NEW f \in [1..n -> S]
  PROVE  f \in Seq(S) /\ Len(f) = n /\ DOMAIN f = 1..n
  <1>1. f \in Seq(S)
    BY SMT
  <1>2. DOMAIN f = 1..n
    OBVIOUS
  <1> QED
    BY <1>1, <1>2, SMT

LEMMA PrefixSeq ==
  ASSUME NEW v \in Versions, NEW n \in Nat
  PROVE  Prefix(v, n) \in Seq(Units) /\ Len(Prefix(v, n)) = n
  <1>1. \A i \in 1..n : <<v, i>> \in Units
    BY DEF Units
  <1>2. Prefix(v, n) \in [1..n -> Units]
    BY <1>1, Zenon DEF Prefix
  <1> QED
    BY <1>2, TupleLength, Zenon

\* A prefix determines its length, and the empty one has no version.
LEMMA PrefixEmpty ==
  ASSUME NEW v
  PROVE  Prefix(v, 0) = <<>>
  BY DEF Prefix

\* Flushing nothing changes nothing.
LEMMA FlushNone ==
  ASSUME NEW job, NEW content \in Seq(Units)
  PROVE  Flush(job, content, 0) = content
  <1> DEFINE units == [k \in 1..0 |-> <<job.served, job.next - job.buffered - 1 + k>>]
  <1>1. units = <<>>
    OBVIOUS
  <1>2. Len(units) = 0
    BY <1>1
  <1>3. Flush(job, content, 0) = WriteAt(content, Position(job, content), units)
    BY DEF Flush
  <1>4. WriteAt(content, Position(job, content), units)
          = [i \in 1..Len(content) |-> content[i]]
    <2> DEFINE p == Position(job, content)
    <2> HIDE DEF units, p
    <2>1. \A i \in 1..Len(content) : ~(i <= 0) /\ i <= Len(content)
      BY SMT
    <2>2. ~(0 > Len(content))
      BY SMT
    <2> QED
      BY <1>2, <2>1, <2>2, Zenon DEF WriteAt
  <1>5. content = [i \in 1..Len(content) |-> content[i]]
    BY SMT
  <1> QED
    BY <1>3, <1>4, <1>5, Zenon

\* Flushing the units that follow a prefix makes a longer prefix.
LEMMA FlushExtends ==
  ASSUME NEW job, NEW v \in Versions, NEW m \in Nat, NEW n \in Nat,
         job.served = v, job.next - job.buffered - 1 = m,
         Position(job, Prefix(v, m)) = m
  PROVE  Flush(job, Prefix(v, m), n) = Prefix(v, m + n)
  <1> DEFINE units == [k \in 1..n |-> <<v, m + k>>]
             c     == Prefix(v, m)
  <1>1. Flush(job, c, n) = WriteAt(c, m, units)
    BY DEF Flush
  <1>2. Len(units) = n
    <2>1. \A k \in 1..n : <<v, m + k>> \in Units
      BY DEF Units
    <2>2. units \in [1..n -> Units]
      BY <2>1
    <2> QED
      BY <2>2, TupleLength, Zenon
  <1>3. Len(c) = m
    BY PrefixSeq
  <1>4. CASE n = 0
    <2>1. units = <<>>
      BY <1>4
    <2>2. \A i \in 1..m : ~(i <= 0) /\ i <= m
      OBVIOUS
    <2>3. WriteAt(c, m, units) = [i \in 1..m |-> c[i]]
      <3> HIDE DEF units, c
      <3>1. ~(0 > m)
        OBVIOUS
      <3> QED
        BY <1>2, <1>3, <1>4, <2>2, <3>1, Zenon DEF WriteAt
    <2>4. [i \in 1..m |-> c[i]] = Prefix(v, m)
      BY DEF Prefix
    <2>5. m + n = m
      BY <1>4
    <2> QED
      BY <1>1, <2>3, <2>4, <2>5, Zenon
  <1>5. CASE n # 0
    <2>1. ~(Len(units) = 0) /\ m + n > m
      BY <1>2, <1>5
    <2>2. WriteAt(c, m, units) =
            [i \in 1..(m + n) |->
               CASE m < i /\ i <= m + n               -> units[i - m]
                 [] ~(m < i /\ i <= m + n) /\ i <= m  -> c[i]
                 [] OTHER                             -> Hole]
      <3> HIDE DEF units, c
      <3> QED
        BY <1>2, <1>3, <2>1, Zenon DEF WriteAt
    <2>3. ASSUME NEW i \in 1..(m + n)
          PROVE  (CASE m < i /\ i <= m + n               -> units[i - m]
                    [] ~(m < i /\ i <= m + n) /\ i <= m  -> c[i]
                    [] OTHER                             -> Hole) = <<v, i>>
      <3>1. CASE m < i
        <4>1. i - m \in 1..n /\ m + (i - m) = i
          BY <3>1
        <4>2. units[i - m] = <<v, i>>
          BY <4>1
        <4> HIDE DEF units, c
        <4> QED
          BY <3>1, <4>2
      <3>2. CASE ~(m < i)
        <4>1. i \in 1..m
          BY <3>2
        <4>2. c[i] = <<v, i>>
          BY <4>1 DEF Prefix
        <4> HIDE DEF units, c
        <4> QED
          BY <3>2, <4>1, <4>2
      <3> QED
        BY <3>1, <3>2
    <2> HIDE DEF units, c
    <2>4. WriteAt(c, m, units) = [i \in 1..(m + n) |-> <<v, i>>]
      BY <2>2, <2>3, Zenon
    <2> QED
      BY <1>1, <2>4, Zenon DEF Prefix, c
  <1> QED
    BY <1>4, <1>5

----------------------------------------------------------------------------
(* One step of one request *)

LEMMA OthersRest ==
  ASSUME FileInvariant, NEW r \in Requests, InFlight(r)
  PROVE  \A q \in Requests \ {r} : ~InFlight(q)
BY DEF FileInvariant

\* A request that is not in flight needs nothing of the files.
LEMMA RestingPlaced ==
  ASSUME FileInvariant, NEW q \in Requests, ~InFlight(q), version' = version
  PROVE  JobPlaced(q, req[q])'
         \/ req'[q] # req[q]
<1>1. req[q].phase \in {"unsent", "over"} /\ req[q] \in Job
  BY DEF InFlight, FileInvariant, TypeOK
<1>2. JobPlaced(q, req[q])
  BY DEF FileInvariant
<1> QED
  BY <1>1, <1>2, SMT DEF JobPlaced

LEMMA RestingServesNot ==
  ASSUME FileInvariant, NEW q \in Requests, ~InFlight(q)
  PROVE  ~Serving(req[q])
<1>1. req[q].phase \in {"unsent", "over"} /\ req[q] \in Job /\ JobPlaced(q, req[q])
  BY DEF InFlight, FileInvariant, TypeOK
<1>2. req[q].buffered = 0
  BY <1>1 DEF JobPlaced
<1> QED
  BY <1>1, <1>2 DEF Serving

\* It is enough to look at the job that moved and at the two names.
LEMMA JobStep ==
  ASSUME FileInvariant, PartIsCurrent, NEW r \in Requests, NEW job \in Job,
         \A q \in Requests \ {r} : ~InFlight(q),
         req' = [req EXCEPT ![r] = job],
         version' = version, kills' = kills,
         disk' \in [Inodes -> Seq(Units)],
         part' \in Inodes \cup {0}, output' \in Inodes \cup {0},
         PartIsPrefix', OutputWhole', (part # 0 => part # output)',
         JobPlaced(r, job)',
         req[r].phase # "over",
         part' # 0 /\ (part = 0 \/ MayBeResumed) =>
           \E n \in 0..Size[version] : disk'[part'] = Prefix(version, n),
         Serving(job) => part # 0 /\ (MayBeResumed => job.served = version)
  PROVE  FileInvariant' /\ PartIsCurrent'
<1>1. TypeOK'
  BY DEF FileInvariant, TypeOK
<1>2. req'[r] = job /\ \A q \in Requests \ {r} : req'[q] = req[q]
  BY DEF FileInvariant, TypeOK
<1>3. ASSUME NEW q \in Requests PROVE JobPlaced(q, req[q])'
  <2>1. CASE q = r
    BY <1>2, <2>1, SMT DEF JobPlaced, AtStart, Writing, Receiving
  <2>2. CASE q # r
    BY <1>2, <2>2, RestingPlaced
  <2> QED
    BY <2>1, <2>2
<1>4. (\A p, q \in Requests : InFlight(p) /\ InFlight(q) => p = q)'
  BY <1>2 DEF InFlight
<1>5. FileInvariant'
  BY <1>1, <1>3, <1>4 DEF FileInvariant
<1>6. ASSUME MayBeResumed'
      PROVE  /\ \E n \in 0..Size[version'] : disk'[part'] = Prefix(version', n)
             /\ \A q \in Requests : Serving(req'[q]) => req'[q].served = version'
  <2>1. part # 0 => MayBeResumed
    <3>1. PICK q \in Resuming : req'[q].phase # "over"
      BY <1>6 DEF MayBeResumed
    <3>2. q \in Requests
      BY DownloadAssumption
    <3>3. req[q].phase # "over"
      BY <1>2, <3>1, <3>2
    <3> QED
      BY <3>3 DEF MayBeResumed
  <2>2. part' # 0
    BY <1>6 DEF MayBeResumed
  <2>3. \A q \in Requests \ {r} : ~Serving(req'[q])
    BY <1>2, RestingServesNot
  <2>4. Serving(req'[r]) => req'[r].served = version'
    BY <1>2, <2>1
  <2> QED
    BY <2>1, <2>2, <2>3, <2>4
<1> QED
  BY <1>5, <1>6 DEF PartIsCurrent

\* The same for a step that touches no file and no name.
LEMMA QuietJobStep ==
  ASSUME FileInvariant, PartIsCurrent, NEW r \in Requests, NEW job \in Job,
         \A q \in Requests \ {r} : ~InFlight(q),
         req' = [req EXCEPT ![r] = job],
         UNCHANGED <<disk, part, output, version, kills>>,
         JobPlaced(r, job), req[r].phase # "over",
         Serving(job) => part # 0 /\ (MayBeResumed => job.served = version)
  PROVE  FileInvariant' /\ PartIsCurrent'
<1>1. disk' \in [Inodes -> Seq(Units)] /\ part' \in Inodes \cup {0} /\ output' \in Inodes \cup {0}
  BY DEF FileInvariant, TypeOK
<1>2. PartIsPrefix' /\ OutputWhole' /\ (part # 0 => part # output)'
  BY DEF FileInvariant, PartIsPrefix, OutputWhole
<1>3. JobPlaced(r, job)'
  BY SMT DEF JobPlaced, AtStart, Writing, Receiving
<1>4. part' # 0 /\ (part = 0 \/ MayBeResumed) =>
        \E n \in 0..Size[version] : disk'[part'] = Prefix(version, n)
  BY DEF PartIsCurrent
<1> QED
  BY <1>1, <1>2, <1>3, <1>4, JobStep

\* A job that is over, whatever it was before.
LEMMA FinishPlaced ==
  ASSUME NEW r \in Requests, NEW job \in Job, NEW result \in Result \ {"none"},
         job.since \in 1..version, job.offset > 0 => r \in Resuming
  PROVE  Finish(job, result) \in Job /\ JobPlaced(r, Finish(job, result))
<1> DEFINE new == Finish(job, result)
<1>1. /\ new \in Job
      /\ new.phase = "over" /\ new.result = result /\ new.file = 0 /\ new.buffered = 0
      /\ new.since = job.since /\ new.offset = job.offset
  BY DEF Finish, Job, Phase, Result
<1> HIDE DEF new
<1>2. JobPlaced(r, new)
  BY <1>1 DEF JobPlaced
<1> QED
  BY <1>1, <1>2 DEF new

LEMMA ScheduleRetryPlaced ==
  ASSUME NEW r \in Requests, NEW job \in Job,
         job.since \in 1..version, job.offset > 0 => r \in Resuming,
         job.result = "none"
  PROVE  ScheduleRetry(job) \in Job /\ JobPlaced(r, ScheduleRetry(job))
<1> DEFINE new == ScheduleRetry(job)
<1>1. /\ new \in Job
      /\ new.phase = "waiting" /\ new.result = "none" /\ new.file = 0 /\ new.buffered = 0
      /\ new.since = job.since /\ new.offset = job.offset
  BY DEF ScheduleRetry, Job, Phase
<1> HIDE DEF new
<1>2. JobPlaced(r, new)
  BY <1>1 DEF JobPlaced
<1> QED
  BY <1>1, <1>2 DEF new

\* A job that holds no file serves nothing.
LEMMA FilelessServesNot ==
  ASSUME NEW r \in Requests, NEW job \in Job, JobPlaced(r, job),
         job.phase \in {"waiting", "over"}
  PROVE  ~Serving(job)
<1>1. job.buffered = 0
  BY DEF JobPlaced
<1> QED
  BY <1>1 DEF Serving

----------------------------------------------------------------------------
(* The actions *)

\* What the answer's arrival leaves in the job.
LEMMA AnsweredEffect ==
  ASSUME TypeOK, NEW job \in Job, NEW status \in Nat, NEW next \in Nat
  PROVE  LET new == Answered(job, status, next)
         IN  /\ new \in Job
             /\ new.phase = "body" /\ new.status = status /\ new.next = next
             /\ new.served = version
             /\ new.since = job.since /\ new.offset = job.offset /\ new.file = job.file
             /\ new.pos = job.pos
             /\ new.buffered = job.buffered /\ new.code = job.code
             /\ new.result = job.result
BY DEF Answered, Job, Phase, TypeOK

LEMMA AnswerInvariant ==
  ASSUME FileInvariant, PartIsCurrent, Sound, NEW r \in Requests, Answer(r)
  PROVE  FileInvariant' /\ PartIsCurrent'
<1>1. PICK job \in Job : job = req[r]
  BY DEF FileInvariant, TypeOK
<1>2. /\ JobPlaced(r, job) /\ job.phase = "open" /\ InFlight(r)
      /\ job.buffered = 0 /\ job.code = "OK" /\ AtStart(job) /\ job.result = "none"
      /\ job.since \in 1..version /\ job.file # 0 /\ job.file = part
      /\ job.offset > 0 => r \in Resuming
  BY <1>1 DEF FileInvariant, Answer, JobPlaced, InFlight
<1>3. version \in Versions /\ Size[version] \in Nat /\ MaxVersion \in Nat
  BY DownloadAssumption DEF FileInvariant, TypeOK
<1>4. ASSUME NEW status \in Nat, NEW next \in Nat,
             req' = [req EXCEPT ![r] = Answered(job, status, next)],
             \/ next = 1 /\ (job.offset > 0 => status = 200)
             \/ /\ status = 206 /\ next = job.offset + 1
                /\ 0 < job.offset /\ job.offset < Size[version]
             \/ ~IsSuccess(status)
      PROVE  FileInvariant' /\ PartIsCurrent'
  <2>1. PICK new : new = Answered(job, status, next)
    OBVIOUS
  <2>2. /\ new \in Job
        /\ new.phase = "body" /\ new.status = status /\ new.next = next
        /\ new.served = version
        /\ new.since = job.since /\ new.offset = job.offset /\ new.file = job.file
        /\ new.pos = job.pos
        /\ new.buffered = job.buffered /\ new.code = job.code
        /\ new.result = job.result
    BY <2>1, AnsweredEffect DEF FileInvariant
  <2>3. ASSUME IsSuccess(status) PROVE Receiving(new)
    <3>1. CASE status = 200 /\ next = 1 /\ job.offset > 0
      <4>1. AtStart(new)
        BY <1>2, <2>2 DEF AtStart
      <4> QED
        BY <1>2, <2>2, <3>1, <4>1 DEF Receiving, ServerIgnoredRange
    <3>2. CASE next = 1 /\ ~(job.offset > 0)
      <4>1. disk[part] = <<>> /\ job.pos = 0
        BY <1>2, <3>2 DEF AtStart
      <4>2. disk[part] = Prefix(version, 0)
        BY <4>1, PrefixEmpty
      <4>3. new.next - 1 - new.buffered = 0
        BY <1>2, <2>2, <3>2
      <4>4. Writing(new)
        BY <1>2, <1>3, <2>2, <3>2, <4>1, <4>2, <4>3 DEF Writing
      <4> QED
        BY <2>2, <3>2, <4>4 DEF Receiving, ServerIgnoredRange
    <3>3. CASE status = 206 /\ next = job.offset + 1 /\ 0 < job.offset /\ job.offset < Size[version]
      <4>1. Len(disk[part]) = job.offset
        BY <1>2, <3>3 DEF AtStart
      <4>2. part # 0
        BY <1>2
      <4>3. MayBeResumed
        BY <1>1, <1>2, <3>3, <4>2 DEF MayBeResumed
      <4>4. PICK n \in 0..Size[version] : disk[part] = Prefix(version, n)
        BY <4>3 DEF PartIsCurrent
      <4>7. n = job.offset
        <5>1. n \in Nat
          BY <1>3, <4>4
        <5>2. Len(Prefix(version, n)) = n
          BY <1>3, <5>1, PrefixSeq
        <5> QED
          BY <4>1, <4>4, <5>2
      <4>8. disk[part] = Prefix(version, job.offset)
        BY <4>4, <4>7
      <4>9. job.offset \in Nat /\ new.next - 1 - new.buffered = job.offset
        BY <1>2, <2>2, <3>3 DEF Job
      <4>10. Writing(new)
        BY <1>2, <1>3, <2>2, <3>3, <4>1, <4>8, <4>9 DEF Writing
      <4> QED
        BY <2>2, <3>3, <4>10 DEF Receiving, ServerIgnoredRange
    <3> QED
      BY <1>4, <2>3, <3>1, <3>2, <3>3
  <2>4. JobPlaced(r, new)
    <3>1. version \in job.since..version
      BY <1>2, <1>3 DEF Versions
    <3> QED
      BY <1>2, <2>2, <2>3, <3>1 DEF JobPlaced
  <2>5. req' = [req EXCEPT ![r] = new]
    BY <1>4, <2>1
  <2>6. UNCHANGED <<disk, part, output, version, kills>>
    BY DEF Answer
  <2> QED
    BY <1>1, <1>2, <2>2, <2>4, <2>5, <2>6, OthersRest, QuietJobStep
<1>5. \/ req' = [req EXCEPT ![r] = Answered(job, 200, 1)]
      \/ /\ 0 < job.offset /\ job.offset < Size[version]
         /\ req' = [req EXCEPT ![r] = Answered(job, 206, job.offset + 1)]
      \/ req' = [req EXCEPT ![r] = Answered(job, 416, 1)]
      \/ /\ job.offset = 0
         /\ \E status \in OtherSuccesses :
              req' = [req EXCEPT ![r] = Answered(job, status, 1)]
      \/ \E status \in ErrorStatuses : req' = [req EXCEPT ![r] = Answered(job, status, 1)]
  BY <1>1 DEF Answer, Sound
<1>6. /\ \A status \in ErrorStatuses \cup {416} : status \in Nat /\ ~IsSuccess(status)
      /\ OtherSuccesses \subseteq Nat
  BY DownloadAssumption DEF IsSuccess
<1>7. job.offset \in Nat /\ job.offset + 1 \in Nat /\ 1 \in Nat /\ 200 \in Nat /\ 206 \in Nat
  BY DEF Job
<1>8. CASE req' = [req EXCEPT ![r] = Answered(job, 200, 1)]
  BY <1>4, <1>7, <1>8
<1>9. CASE /\ 0 < job.offset /\ job.offset < Size[version]
           /\ req' = [req EXCEPT ![r] = Answered(job, 206, job.offset + 1)]
  BY <1>4, <1>7, <1>9
<1>10. ASSUME NEW status \in OtherSuccesses, job.offset = 0,
              req' = [req EXCEPT ![r] = Answered(job, status, 1)]
       PROVE  FileInvariant' /\ PartIsCurrent'
  <2>1. status \in Nat /\ ~(job.offset > 0)
    BY <1>6, <1>7, <1>10
  <2> QED
    BY <1>4, <1>7, <1>10, <2>1
<1>11. ASSUME NEW status \in Nat, ~IsSuccess(status),
              req' = [req EXCEPT ![r] = Answered(job, status, 1)]
       PROVE  FileInvariant' /\ PartIsCurrent'
  BY <1>4, <1>7, <1>11
<1>12. CASE \/ req' = [req EXCEPT ![r] = Answered(job, 416, 1)]
            \/ \E status \in ErrorStatuses :
                 req' = [req EXCEPT ![r] = Answered(job, status, 1)]
  BY <1>6, <1>11, <1>12
<1> QED
  BY <1>5, <1>8, <1>9, <1>10, <1>12

\* What opening the .part file leaves: the file as it was, or an empty one.
LEMMA OpenOutputFileEffect ==
  ASSUME FileInvariant, NEW r \in Requests, NEW f \in Inodes, OpenOutputFile(r, f),
         output' = output, version' = version
  PROVE  /\ disk' \in [Inodes -> Seq(Units)]
         /\ part' = f /\ f # 0 /\ f # output
         /\ PartIsPrefix' /\ OutputWhole'
         /\ Existing(r) \in Nat
         /\ Existing(r) > 0 => r \in Resuming /\ Len(disk'[f]) = Existing(r)
                               /\ UNCHANGED <<disk, part>>
         /\ ~(Existing(r) > 0) => disk'[f] = <<>>
<1>1. /\ disk \in [Inodes -> Seq(Units)] /\ part \in Inodes \cup {0}
      /\ output \in Inodes \cup {0} /\ version \in Versions /\ f # 0
      /\ PartIsPrefix /\ OutputWhole /\ (part # 0 => part # output)
  BY DownloadAssumption DEF FileInvariant, TypeOK
<1>2. Existing(r) \in Nat
  <2>1. CASE r \in Resuming /\ part # 0
    <3>1. disk[part] \in Seq(Units)
      BY <1>1, <2>1
    <3> QED
      BY <2>1, <3>1 DEF Existing
  <2>2. CASE ~(r \in Resuming /\ part # 0)
    BY <2>2 DEF Existing
  <2> QED
    BY <2>1, <2>2
<1>3. CASE Existing(r) > 0
  <2>1. f = part /\ UNCHANGED <<disk, part>>
    BY <1>3 DEF OpenOutputFile
  <2>2. r \in Resuming /\ Existing(r) = Len(disk[part])
    BY <1>3 DEF Existing
  <2>3. PartIsPrefix' /\ OutputWhole'
    BY <1>1, <2>1 DEF PartIsPrefix, OutputWhole
  <2> QED
    BY <1>1, <1>2, <1>3, <2>1, <2>2, <2>3
<1>4. CASE ~(Existing(r) > 0)
  <2>1. Opens(f) /\ disk' = [disk EXCEPT ![f] = <<>>] /\ part' = f
    BY <1>4 DEF OpenOutputFile
  <2>2. f # output
    BY <1>1, <2>1 DEF Opens, Unused
  <2>3. disk' \in [Inodes -> Seq(Units)] /\ disk'[f] = <<>>
    BY <1>1, <2>1
  <2>4. PartIsPrefix'
    <3>1. 1 \in 1..version' /\ Size[1] \in Nat /\ 0 \in 0..Size[1]
      BY <1>1, DownloadAssumption DEF Versions
    <3>2. disk'[part'] = Prefix(1, 0)
      BY <2>1, <2>3, PrefixEmpty
    <3> QED
      BY <3>1, <3>2 DEF PartIsPrefix
  <2>5. OutputWhole'
    BY <1>1, <2>1, <2>2 DEF OutputWhole
  <2> QED
    BY <1>1, <1>2, <1>4, <2>1, <2>2, <2>3, <2>4, <2>5
<1> QED
  BY <1>3, <1>4

LEMMA BeginAttemptInvariant ==
  ASSUME FileInvariant, PartIsCurrent, Sound, NEW r \in Requests, BeginAttempt(r)
  PROVE  FileInvariant' /\ PartIsCurrent'
<1>1. PICK old \in Job : old = req[r] /\ JobPlaced(r, old)
  BY DEF FileInvariant, TypeOK
<1>2. PICK job : job = [old EXCEPT !.phase = "open", !.attempt = @ + 1, !.code = "OK",
                                   !.since = IF @ = 0 THEN version ELSE @]
  OBVIOUS
<1>3. version \in Versions /\ version \in 1..version /\ old.phase \in {"unsent", "waiting"}
  <2>1. version \in Versions /\ version \in 1..version
    BY DownloadAssumption DEF FileInvariant, TypeOK, Versions
  <2>2. old.phase \in {"unsent", "waiting"}
    BY <1>1, Zenon DEF BeginAttempt
  <2> QED
    BY <2>1, <2>2
<1>4. /\ job \in Job /\ job.phase = "open" /\ job.code = "OK" /\ job.since \in 1..version
      /\ job.result = old.result /\ job.offset = old.offset /\ job.file = old.file
      /\ job.buffered = old.buffered
  <2>1. old.since = 0 \/ old.since \in 1..version
    BY <1>1, <1>3 DEF JobPlaced
  <2>2. old.since = 0 => job.since = version
    BY <1>2 DEF Job
  <2>3. old.since # 0 => job.since = old.since
    BY <1>2 DEF Job
  <2>4. /\ job \in Job /\ job.phase = "open" /\ job.code = "OK"
        /\ job.result = old.result /\ job.offset = old.offset /\ job.file = old.file
        /\ job.buffered = old.buffered
    <3>1. PICK s \in Versions : s = IF old.since = 0 THEN version ELSE old.since
      <4>1. old.since \in Versions \cup {0}
        BY DEF Job
      <4>2. CASE old.since = 0
        BY <1>3, <4>2
      <4>3. CASE old.since # 0
        BY <4>1, <4>3
      <4> QED
        BY <4>2, <4>3
    <3>2. PICK a \in Nat : a = old.attempt + 1
      BY DEF Job
    <3>3. job = [old EXCEPT !.phase = "open", !.attempt = a, !.code = "OK", !.since = s]
      BY <1>2, <3>1, <3>2, Zenon
    <3> QED
      BY <3>3 DEF Job, Phase
  <2> QED
    BY <1>3, <2>1, <2>2, <2>3, <2>4
<1>5. job.result = "none" /\ job.buffered = 0 /\ (job.offset > 0 => r \in Resuming)
  BY <1>1, <1>3, <1>4 DEF JobPlaced
<1>6. \A q \in Requests \ {r} : ~InFlight(q)
  <2>1. CASE old.phase = "unsent"
    BY <1>1, <2>1 DEF BeginAttempt, Sound
  <2>2. CASE old.phase = "waiting"
    <3>1. InFlight(r)
      BY <1>1, <2>2 DEF InFlight
    <3> QED
      BY <3>1, OthersRest
  <2> QED
    BY <1>3, <2>1, <2>2
<1>7. UNCHANGED <<output, version, kills>>
  BY DEF BeginAttempt
<1>8. ASSUME NEW f \in Inodes, OpenOutputFile(r, f), NEW new \in Job,
             req' = [req EXCEPT ![r] = new], JobPlaced(r, new)', ~Serving(new)
      PROVE  FileInvariant' /\ PartIsCurrent'
  <2>1. /\ disk' \in [Inodes -> Seq(Units)]
        /\ part' = f /\ f # 0 /\ f # output /\ PartIsPrefix' /\ OutputWhole'
    BY <1>7, <1>8, OpenOutputFileEffect
  <2>2. output' \in Inodes \cup {0} /\ part' \in Inodes \cup {0} /\ (part # 0 => part # output)'
    BY <1>7, <2>1 DEF FileInvariant, TypeOK
  <2>3. part' # 0 /\ (part = 0 \/ MayBeResumed) =>
          \E n \in 0..Size[version] : disk'[part'] = Prefix(version, n)
    <3>1. CASE Existing(r) > 0
      <4>1. UNCHANGED <<disk, part>>
        BY <1>7, <1>8, <3>1, OpenOutputFileEffect
      <4> QED
        BY <4>1 DEF PartIsCurrent
    <3>2. CASE ~(Existing(r) > 0)
      <4>1. disk'[part'] = Prefix(version, 0)
        BY <1>7, <1>8, <2>1, <3>2, OpenOutputFileEffect, PrefixEmpty
      <4>2. 0 \in 0..Size[version]
        BY <1>3, DownloadAssumption
      <4> QED
        BY <4>1, <4>2
    <3> QED
      BY <3>1, <3>2
  <2>4. req[r].phase # "over"
    BY <1>1, <1>3
  <2> QED
    BY <1>6, <1>7, <1>8, <2>1, <2>2, <2>3, <2>4, JobStep
<1>9. ASSUME NEW f \in Inodes, OpenOutputFile(r, f)
      PROVE  LET opened == [job EXCEPT !.file = f, !.offset = Existing(r), !.pos = 0]
             IN  \A new \in {opened, Finish(opened, "NetworkError")} :
                   new \in Job /\ JobPlaced(r, new)' /\ ~Serving(new)
  <2> DEFINE opened == [job EXCEPT !.file = f, !.offset = Existing(r), !.pos = 0]
  <2>1. /\ part' = f /\ f # 0 /\ Existing(r) \in Nat
        /\ Existing(r) > 0 => r \in Resuming /\ Len(disk'[f]) = Existing(r)
        /\ ~(Existing(r) > 0) => disk'[f] = <<>>
    BY <1>7, <1>9, OpenOutputFileEffect
  <2>2. PICK e \in Nat : e = Existing(r)
    BY <2>1
  <2>3. PICK new : new = [job EXCEPT !.file = f, !.offset = e, !.pos = 0]
    OBVIOUS
  <2>4. /\ new \in Job /\ new.phase = "open" /\ new.code = "OK" /\ new.since = job.since
        /\ new.result = job.result /\ new.offset = e
        /\ new.pos = 0 /\ new.file = f /\ new.buffered = job.buffered
    BY <1>4, <2>3 DEF Job
  <2>5. AtStart(new)'
    BY <2>1, <2>2, <2>4 DEF AtStart
  <2>6. new.since \in 1..version'
    BY <1>4, <1>7, <2>4
  <2>7. JobPlaced(r, new)'
    BY <1>4, <1>5, <2>1, <2>2, <2>4, <2>5, <2>6 DEF JobPlaced
  <2>8. Finish(new, "NetworkError") \in Job /\ JobPlaced(r, Finish(new, "NetworkError"))
    BY <1>4, <2>1, <2>2, <2>4, FinishPlaced DEF Result
  <2>9. JobPlaced(r, Finish(new, "NetworkError"))'
    <3>1. PICK end : end = Finish(new, "NetworkError")
      OBVIOUS
    <3>2. end.phase = "over" /\ end.file = 0
      BY <2>4, <3>1 DEF Finish, Job
    <3>3. JobPlaced(r, end)
      BY <2>8, <3>1
    <3>4. JobPlaced(r, end)'
      BY <1>7, <3>2, <3>3 DEF JobPlaced
    <3> QED
      BY <3>1, <3>4
  <2>10. opened = new
    BY <2>2, <2>3, Zenon
  <2>11. ~Serving(new)
    BY <1>5, <2>4 DEF Serving
  <2>12. ~Serving(Finish(new, "NetworkError"))
    BY <2>4, <2>8, FilelessServesNot DEF Finish, Job
  <2> QED
    BY <2>4, <2>7, <2>8, <2>9, <2>10, <2>11, <2>12
<1>10. ASSUME req' = [req EXCEPT ![r] = Finish(job, "IoError")], UNCHANGED <<disk, part>>
       PROVE  FileInvariant' /\ PartIsCurrent'
  <2>1. Finish(job, "IoError") \in Job /\ JobPlaced(r, Finish(job, "IoError"))
    BY <1>4, <1>5, FinishPlaced DEF Result
  <2>2. PICK end \in Job : end = Finish(job, "IoError") /\ JobPlaced(r, end)
    BY <2>1
  <2>3. ~Serving(end)
    BY <1>4, <2>2, FilelessServesNot DEF Finish, Job
  <2> QED
    BY <1>1, <1>3, <1>6, <1>7, <1>10, <2>2, <2>3, QuietJobStep
<1>11. \/ \E f \in Inodes :
             /\ OpenOutputFile(r, f)
             /\ \E new \in {[job EXCEPT !.file = f, !.offset = Existing(r), !.pos = 0],
                            Finish([job EXCEPT !.file = f, !.offset = Existing(r), !.pos = 0],
                                   "NetworkError")} :
                  req' = [req EXCEPT ![r] = new]
       \/ req' = [req EXCEPT ![r] = Finish(job, "IoError")] /\ UNCHANGED <<disk, part>>
  BY <1>1, <1>2 DEF BeginAttempt
<1>12. CASE req' = [req EXCEPT ![r] = Finish(job, "IoError")] /\ UNCHANGED <<disk, part>>
  BY <1>10, <1>12
<1>13. ASSUME NEW f \in Inodes, OpenOutputFile(r, f),
              NEW new \in {[job EXCEPT !.file = f, !.offset = Existing(r), !.pos = 0],
                            Finish([job EXCEPT !.file = f, !.offset = Existing(r), !.pos = 0],
                                   "NetworkError")},
              req' = [req EXCEPT ![r] = new]
       PROVE  FileInvariant' /\ PartIsCurrent'
  <2>1. PICK n : n = new
    OBVIOUS
  <2>2. n \in Job /\ JobPlaced(r, n)' /\ ~Serving(n)
    BY <1>9, <1>13, <2>1
  <2> QED
    BY <1>8, <1>13, <2>1, <2>2
<1> QED
  BY <1>11, <1>12, <1>13

\* content is what job has received, up to what is buffered: Writing for a file
\* that need not be the .part file yet.
Stored(job, content) ==
  /\ job.buffered < job.next /\ job.next <= Size[job.served] + 1
  /\ content = Prefix(job.served, job.next - 1 - job.buffered)
  /\ job.offset = 0 => job.pos = job.next - 1 - job.buffered

LEMMA WritingIsStored ==
  ASSUME NEW job
  PROVE  /\ Writing(job) <=> Stored(job, disk[part])
         /\ Writing(job)' <=> Stored(job, disk'[part'])
BY DEF Writing, Stored

\* Where a job stands in a file that holds what it has received.
LEMMA StoredPosition ==
  ASSUME NEW job \in Job, NEW content, Stored(job, content)
  PROVE  /\ job.next - 1 - job.buffered \in Nat
         /\ job.served \in Versions
         /\ Position(job, content) = job.next - 1 - job.buffered
<1>1. /\ job.next - 1 - job.buffered \in Nat /\ job.served \in Versions
      /\ job.offset \in Nat
  BY DEF Job, Stored
<1>2. Len(content) = job.next - 1 - job.buffered
  BY <1>1, PrefixSeq DEF Stored
<1>3. job.offset = 0 => job.pos = job.next - 1 - job.buffered
  BY DEF Stored
<1> QED
  BY <1>1, <1>2, <1>3 DEF Position

LEMMA FwriteEffect ==
  ASSUME NEW job \in Job, NEW content, Stored(job, content),
         job.next <= Size[job.served], NEW w \in Fwrite(job, content)
  PROVE  /\ w.job \in Job /\ Stored(w.job, w.content)
         /\ w.job.file = job.file /\ w.job.offset = job.offset
         /\ w.job.since = job.since /\ w.job.result = job.result
         /\ w.job.served = job.served /\ w.job.status = job.status
         /\ \/ w.job.phase = job.phase /\ w.job.code = job.code
            \/ w.job.phase = "done" /\ w.job.code = "WRITE_ERROR"
<1>1. PICK m \in Nat : m = job.next - 1 - job.buffered /\ Position(job, content) = m
  BY StoredPosition
<1>2. PICK got : got = [job EXCEPT !.next = @ + 1, !.buffered = @ + 1]
  OBVIOUS
<1>3. /\ got \in Job /\ got.next = job.next + 1 /\ got.buffered = job.buffered + 1
      /\ got.pos = job.pos /\ got.phase = job.phase /\ got.code = job.code
      /\ got.file = job.file /\ got.offset = job.offset /\ got.since = job.since
      /\ got.result = job.result /\ got.served = job.served /\ got.status = job.status
  <2>1. PICK n \in Nat : n = job.next + 1
    BY DEF Job
  <2>2. PICK b \in Nat : b = job.buffered + 1
    BY DEF Job
  <2>3. got = [job EXCEPT !.next = n, !.buffered = b]
    BY <1>2, <2>1, <2>2, Zenon
  <2>4. /\ got \in Job /\ got.next = n /\ got.buffered = b
        /\ got.pos = job.pos /\ got.phase = job.phase /\ got.code = job.code
        /\ got.file = job.file /\ got.offset = job.offset /\ got.since = job.since
        /\ got.result = job.result /\ got.served = job.served /\ got.status = job.status
    BY <2>3 DEF Job
  <2> QED
    BY <2>1, <2>2, <2>4
<1>4. /\ job.next \in Nat /\ job.buffered \in Nat /\ job.served \in Versions
      /\ Size[job.served] \in Nat /\ content = Prefix(job.served, m)
      /\ job.offset = 0 => job.pos = m
      /\ job.buffered < job.next
  BY <1>1, DownloadAssumption DEF Job, Stored
<1>5. Stored(got, content)
  BY <1>1, <1>3, <1>4 DEF Stored
<1>6. CASE w = [content |-> content, job |-> got]
  BY <1>3, <1>5, <1>6
<1>7. CASE w = [content |-> Flush(got, content, got.buffered),
                job     |-> [got EXCEPT !.pos = @ + got.buffered, !.buffered = 0]]
  <2>1. PICK new : new = [got EXCEPT !.pos = @ + got.buffered, !.buffered = 0]
    OBVIOUS
  <2>2. /\ new \in Job /\ new.next = got.next /\ new.buffered = 0
        /\ new.pos = got.pos + got.buffered /\ new.phase = got.phase
        /\ new.code = got.code /\ new.file = got.file /\ new.offset = got.offset
        /\ new.since = got.since /\ new.result = got.result
        /\ new.served = got.served /\ new.status = got.status
    <3>1. PICK p \in Nat : p = got.pos + got.buffered
      BY <1>3 DEF Job
    <3>2. new = [got EXCEPT !.pos = p, !.buffered = 0]
      BY <2>1, <3>1, Zenon
    <3>3. got \in Job
      BY <1>3
    <3>4. /\ new \in Job /\ new.next = got.next /\ new.buffered = 0
          /\ new.pos = p /\ new.phase = got.phase
          /\ new.code = got.code /\ new.file = got.file /\ new.offset = got.offset
          /\ new.since = got.since /\ new.result = got.result
          /\ new.served = got.served /\ new.status = got.status
      BY <3>2, <3>3 DEF Job
    <3> QED
      BY <3>1, <3>4
  <2>3. Position(got, Prefix(job.served, m)) = m
    BY <1>1, <1>3, <1>4 DEF Position
  <2>4. got.next - got.buffered - 1 = m /\ got.buffered \in Nat
    BY <1>1, <1>3, <1>4
  <2>5. Flush(got, content, got.buffered) = Prefix(job.served, m + got.buffered)
    BY <1>3, <1>4, <2>3, <2>4, FlushExtends
  <2>6. m + got.buffered = new.next - 1 - new.buffered
    BY <1>1, <1>3, <1>4, <2>2
  <2>7. Stored(new, Flush(got, content, got.buffered))
    <3>1. new.offset = 0 => new.pos = new.next - 1 - new.buffered
      BY <1>1, <1>3, <1>4, <2>2
    <3> QED
      BY <1>3, <1>4, <2>2, <2>5, <2>6, <3>1 DEF Stored
  <2>8. w.job = new /\ w.content = Flush(got, content, got.buffered)
    BY <1>7, <2>1
  <2> QED
    BY <1>3, <2>2, <2>7, <2>8
<1>8. CASE w = [content |-> content,
                job     |-> [job EXCEPT !.phase = "done", !.code = "WRITE_ERROR"]]
  <2>1. PICK new : new = [job EXCEPT !.phase = "done", !.code = "WRITE_ERROR"]
    OBVIOUS
  <2>2. /\ new \in Job /\ new.next = job.next /\ new.buffered = job.buffered
        /\ new.pos = job.pos /\ new.phase = "done"
        /\ new.code = "WRITE_ERROR" /\ new.file = job.file /\ new.offset = job.offset
        /\ new.since = job.since /\ new.result = job.result
        /\ new.served = job.served /\ new.status = job.status
    BY <2>1 DEF Job, Phase
  <2>3. Stored(new, content)
    BY <2>2 DEF Stored
  <2> QED
    BY <1>8, <2>1, <2>2, <2>3
<1> QED
  BY <1>2, <1>6, <1>7, <1>8 DEF Fwrite

LEMMA WriteFileInvariant ==
  ASSUME FileInvariant, PartIsCurrent, NEW r \in Requests, WriteFile(r)
  PROVE  FileInvariant' /\ PartIsCurrent'
<1>1. PICK job \in Job : job = req[r]
  BY DEF FileInvariant, TypeOK
<1>2. /\ JobPlaced(r, job) /\ job.phase = "body" /\ IsSuccess(job.status) /\ InFlight(r)
      /\ job.next <= Size[job.served]
      /\ Receiving(job) /\ job.code = "OK" /\ job.result = "none"
      /\ job.since \in 1..version /\ job.file # 0 /\ job.file = part
      /\ job.served \in job.since..version
      /\ job.offset > 0 => r \in Resuming
  BY <1>1 DEF FileInvariant, WriteFile, JobPlaced, InFlight
<1>3. /\ version \in Versions /\ MaxVersion \in Nat /\ Size \in [Versions -> Nat]
      /\ disk \in [Inodes -> Seq(Units)]
      /\ part \in Inodes /\ output \in Inodes \cup {0} /\ part # output
      /\ PartIsPrefix /\ OutputWhole
  BY <1>2, DownloadAssumption DEF FileInvariant, TypeOK
<1>4. UNCHANGED <<output, version, kills>>
  BY DEF WriteFile
<1>5. \A q \in Requests \ {r} : ~InFlight(q)
  BY <1>2, OthersRest
<1>6. ASSUME NEW open \in Job, NEW content, Stored(open, content),
             open.next <= Size[open.served], open.file = part,
             open.phase = "body" /\ open.code = "OK" /\ open.result = "none",
             open.since = job.since, open.served = job.served, open.status = job.status,
             open.offset > 0 => r \in Resuming,
             ~ServerIgnoredRange(open),
             NEW w \in Fwrite(open, content),
             disk' = [disk EXCEPT ![part] = w.content],
             req' = [req EXCEPT ![r] = w.job], part' = part
      PROVE  FileInvariant' /\ PartIsCurrent'
  <2>1. PICK new : new = w.job
    OBVIOUS
  <2>2. /\ new \in Job /\ Stored(new, w.content)
        /\ new.file = part /\ new.offset = open.offset
        /\ new.since = job.since /\ new.result = "none"
        /\ new.served = job.served /\ new.status = job.status
        /\ \/ new.phase = "body" /\ new.code = "OK"
           \/ new.phase = "done" /\ new.code = "WRITE_ERROR"
    BY <1>6, <2>1, FwriteEffect
  <2>3. PICK k \in 0..Size[job.served] : w.content = Prefix(job.served, k)
    <3>1. new.next - 1 - new.buffered \in 0..Size[job.served]
      <4>1. new.next \in Nat /\ new.buffered \in Nat /\ Size[job.served] \in Nat
        BY <1>3, <2>2 DEF Job
      <4>2. new.buffered < new.next /\ new.next <= Size[job.served] + 1
        BY <2>2 DEF Stored
      <4> QED
        BY <4>1, <4>2
    <3> QED
      BY <2>2, <3>1 DEF Stored
  <2>4. job.served \in Versions /\ job.served \in 1..version /\ k \in Nat
    BY <1>2, <1>3, <2>3 DEF Versions, Job
  <2>5. disk' \in [Inodes -> Seq(Units)] /\ disk'[part'] = w.content
    BY <1>3, <1>6, <2>3, <2>4, PrefixSeq
  <2>6. PartIsPrefix'
    BY <1>4, <2>3, <2>4, <2>5 DEF PartIsPrefix
  <2>7. OutputWhole'
    BY <1>3, <1>4, <1>6 DEF OutputWhole
  <2>8. Writing(new)'
    BY <2>2, <2>5, WritingIsStored
  <2>9. ~ServerIgnoredRange(new)
    BY <1>6, <2>2 DEF ServerIgnoredRange
  <2>10. JobPlaced(r, new)'
    BY <1>2, <1>3, <1>4, <1>6, <2>2, <2>8, <2>9 DEF JobPlaced, Receiving
  <2>11. req' = [req EXCEPT ![r] = new]
    BY <1>6, <2>1
  <2>12. MayBeResumed => job.served = version
    BY <1>1, <1>2 DEF PartIsCurrent, Serving
  <2>13. part' # 0 /\ (part = 0 \/ MayBeResumed) =>
           \E n \in 0..Size[version] : disk'[part'] = Prefix(version, n)
    BY <1>2, <2>3, <2>5, <2>12
  <2> QED
    BY <1>1, <1>2, <1>3, <1>4, <1>5, <1>6, <2>2, <2>5, <2>6, <2>7, <2>10, <2>11, <2>12,
       <2>13, JobStep
<1>7. CASE ServerIgnoredRange(job)
  <2>1. job.next = 1 /\ job.buffered = 0 /\ job.served \in Versions
    BY <1>2, <1>7 DEF Receiving, Job
  <2>2. ASSUME NEW f \in Inodes \cup {0}
        PROVE  \E open \in Job :
                 /\ open = [job EXCEPT !.file = f, !.offset = 0, !.pos = 0]
                 /\ open.file = f /\ open.offset = 0 /\ open.pos = 0
                 /\ open.next = job.next /\ open.buffered = job.buffered
                 /\ open.phase = job.phase /\ open.code = job.code
                 /\ open.result = job.result /\ open.since = job.since
                 /\ open.served = job.served /\ open.status = job.status
    <3>1. PICK open : open = [job EXCEPT !.file = f, !.offset = 0, !.pos = 0]
      OBVIOUS
    <3>2. /\ open \in Job
          /\ open.file = f /\ open.offset = 0 /\ open.pos = 0
          /\ open.next = job.next /\ open.buffered = job.buffered
          /\ open.phase = job.phase /\ open.code = job.code
          /\ open.result = job.result /\ open.since = job.since
          /\ open.served = job.served /\ open.status = job.status
      BY <3>1 DEF Job
    <3> QED
      BY <3>1, <3>2
  <2>3. ASSUME NEW f \in Inodes, Opens(f),
               NEW w \in Fwrite([job EXCEPT !.file = f, !.offset = 0, !.pos = 0], <<>>),
               disk' = [disk EXCEPT ![f] = w.content],
               req' = [req EXCEPT ![r] = w.job], part' = f
        PROVE  FileInvariant' /\ PartIsCurrent'
    <3>1. f = part
      BY <1>2, <2>3 DEF Opens
    <3>2. PICK open \in Job :
                 /\ open = [job EXCEPT !.file = f, !.offset = 0, !.pos = 0]
                 /\ open.file = f /\ open.offset = 0 /\ open.pos = 0
                 /\ open.next = job.next /\ open.buffered = job.buffered
                 /\ open.phase = job.phase /\ open.code = job.code
                 /\ open.result = job.result /\ open.since = job.since
                 /\ open.served = job.served /\ open.status = job.status
      BY <2>2
    <3>3. Stored(open, <<>>)
      <4>1. open.next - 1 - open.buffered = 0
        BY <2>1, <3>2
      <4>2. <<>> = Prefix(open.served, 0)
        BY PrefixEmpty
      <4>3. open.buffered < open.next /\ open.next <= Size[open.served] + 1
        BY <1>2, <1>3, <2>1, <3>2
      <4> QED
        BY <3>2, <4>1, <4>2, <4>3 DEF Stored
    <3>4. ~ServerIgnoredRange(open)
      BY <3>2 DEF ServerIgnoredRange
    <3>5. w \in Fwrite(open, <<>>)
      BY <2>3, <3>2
    <3>6. PICK c : c = <<>>
      OBVIOUS
    <3>7. Stored(open, c) /\ w \in Fwrite(open, c) /\ open.next <= Size[open.served]
      BY <1>2, <3>2, <3>3, <3>5, <3>6
    <3> QED
      <4>1. /\ open.file = part /\ open.phase = "body" /\ open.code = "OK"
            /\ open.result = "none" /\ (open.offset > 0 => r \in Resuming)
            /\ disk' = [disk EXCEPT ![part] = w.content] /\ part' = part
            /\ req' = [req EXCEPT ![r] = w.job]
            /\ open.since = job.since /\ open.served = job.served
            /\ open.status = job.status
        BY <1>2, <2>3, <3>1, <3>2
      <4> QED
        BY <3>4, <3>7, <4>1, <1>6, Zenon
  <2>4. ASSUME req' = [req EXCEPT ![r] =
                         [[job EXCEPT !.file = 0, !.offset = 0, !.pos = 0]
                            EXCEPT !.phase = "done", !.code = "WRITE_ERROR"]],
               UNCHANGED <<disk, part>>
        PROVE  FileInvariant' /\ PartIsCurrent'
    <3>1. PICK open \in Job :
                 /\ open = [job EXCEPT !.file = 0, !.offset = 0, !.pos = 0]
                 /\ open.file = 0 /\ open.offset = 0 /\ open.buffered = job.buffered
                 /\ open.result = job.result /\ open.since = job.since
      BY <2>2
    <3>2. PICK new : new = [open EXCEPT !.phase = "done", !.code = "WRITE_ERROR"]
      OBVIOUS
    <3>3. /\ new \in Job /\ new.phase = "done" /\ new.code = "WRITE_ERROR"
          /\ new.file = 0 /\ new.offset = 0 /\ new.buffered = 0
          /\ new.result = "none" /\ new.since = job.since
      <4>1. /\ new \in Job /\ new.phase = "done" /\ new.code = "WRITE_ERROR"
            /\ new.file = open.file /\ new.offset = open.offset
            /\ new.buffered = open.buffered
            /\ new.result = open.result /\ new.since = open.since
        BY <3>2 DEF Job, Phase
      <4> QED
        BY <1>2, <2>1, <3>1, <4>1
    <3>4. JobPlaced(r, new)
      BY <1>2, <3>3 DEF JobPlaced
    <3>5. req' = [req EXCEPT ![r] = new]
      BY <2>4, <3>1, <3>2
    <3>6. ~Serving(new)
      BY <3>3 DEF Serving
    <3> QED
      BY <1>1, <1>2, <1>4, <1>5, <2>4, <3>3, <3>4, <3>5, <3>6, QuietJobStep
  <2>5. \/ \E f \in Inodes :
             /\ Opens(f)
             /\ \E w \in Fwrite([job EXCEPT !.file = f, !.offset = 0, !.pos = 0], <<>>) :
                  /\ disk' = [disk EXCEPT ![f] = w.content]
                  /\ req' = [req EXCEPT ![r] = w.job]
             /\ part' = f
        \/ /\ req' = [req EXCEPT ![r] =
                         [[job EXCEPT !.file = 0, !.offset = 0, !.pos = 0]
                            EXCEPT !.phase = "done", !.code = "WRITE_ERROR"]]
           /\ UNCHANGED <<disk, part>>
    BY <1>1, <1>7, Zenon DEF WriteFile
  <2> QED
    BY <2>3, <2>4, <2>5
<1>8. CASE ~ServerIgnoredRange(job)
  <2>1. PICK w \in Fwrite(job, disk[part]) :
          disk' = [disk EXCEPT ![part] = w.content] /\ req' = [req EXCEPT ![r] = w.job]
    <3>1. PICK f \in Inodes :
            /\ f = job.file
            /\ \E w \in Fwrite(job, disk[f]) :
                  /\ disk' = [disk EXCEPT ![f] = w.content]
                  /\ req' = [req EXCEPT ![r] = w.job]
      BY <1>1, <1>8, Zenon DEF WriteFile
    <3> QED
      BY <1>2, <3>1, Zenon
  <2>2. part' = part
    BY <1>1, <1>8, Zenon DEF WriteFile
  <2>3. Stored(job, disk[part])
    BY <1>2, <1>8, WritingIsStored DEF Receiving
  <2>4. PICK c : c = disk[part]
    OBVIOUS
  <2> QED
    BY <1>2, <1>8, <2>1, <2>2, <2>3, <2>4, <1>6
<1> QED
  BY <1>7, <1>8

LEMMA CurlDoneInvariant ==
  ASSUME FileInvariant, PartIsCurrent, NEW r \in Requests, CurlDone(r)
  PROVE  FileInvariant' /\ PartIsCurrent'
<1>1. PICK job \in Job : job = req[r]
  BY DEF FileInvariant, TypeOK
<1>2. /\ JobPlaced(r, job) /\ job.phase \in {"open", "body"} /\ InFlight(r)
      /\ job.result = "none" /\ job.code = "OK"
      /\ job.since \in 1..version /\ job.file # 0 /\ job.file = part
      /\ job.offset > 0 => r \in Resuming
  BY <1>1 DEF FileInvariant, CurlDone, JobPlaced, InFlight
<1>3. UNCHANGED <<disk, part, output, version, kills>>
  BY DEF CurlDone
<1>4. job.buffered > 0 => Writing(job) /\ job.served \in 1..version
  <2>1. job.buffered # 0 => Writing(job) /\ job.served \in job.since..version
    BY <1>2 DEF JobPlaced, Receiving
  <2> QED
    BY <1>2, <2>1
<1>5. PICK c \in {"OK", "RECV_ERROR"} :
        /\ req' = [req EXCEPT ![r] = [job EXCEPT !.phase = "done", !.code = c]]
        /\ c = "OK" => job.phase = "body"
        /\ c = "OK" /\ IsSuccess(job.status) => job.next > Size[job.served]
  <2>1. CASE job.phase = "body" /\ (IsSuccess(job.status) => job.next > Size[job.served])
             /\ req' = [req EXCEPT ![r] = [job EXCEPT !.phase = "done"]]
    <3>1. [job EXCEPT !.phase = "done"] = [job EXCEPT !.phase = "done", !.code = "OK"]
      BY <1>2 DEF Job
    <3> QED
      BY <2>1, <3>1
  <2>2. CASE req' = [req EXCEPT ![r] = [job EXCEPT !.phase = "done", !.code = "RECV_ERROR"]]
    BY <2>2
  <2>3. [req EXCEPT ![r].phase = "done"] = [req EXCEPT ![r] = [job EXCEPT !.phase = "done"]]
    BY <1>1
  <2>4. [req EXCEPT ![r].phase = "done", ![r].code = "RECV_ERROR"]
          = [req EXCEPT ![r] = [job EXCEPT !.phase = "done", !.code = "RECV_ERROR"]]
    BY <1>1 DEF FileInvariant, TypeOK
  <2> QED
    BY <1>1, <2>1, <2>2, <2>3, <2>4, Zenon DEF CurlDone
<1>6. PICK new : new = [job EXCEPT !.phase = "done", !.code = c]
  OBVIOUS
<1>7. /\ new \in Job /\ new.phase = "done" /\ new.code = c
      /\ new.result = job.result /\ new.since = job.since /\ new.file = job.file
      /\ new.offset = job.offset /\ new.buffered = job.buffered /\ new.pos = job.pos
      /\ new.status = job.status /\ new.served = job.served /\ new.next = job.next
  BY <1>6 DEF Job, Phase
<1>8. Writing(new) <=> Writing(job)
  BY <1>7 DEF Writing
<1>9. Receiving(new) <=> Receiving(job)
  BY <1>7, <1>8 DEF Receiving, ServerIgnoredRange, AtStart
<1>10. c = "OK" /\ IsSuccess(job.status) =>
         Receiving(job) /\ job.served \in job.since..version
  BY <1>2, <1>5 DEF JobPlaced
<1>11. JobPlaced(r, new)
  BY <1>2, <1>4, <1>5, <1>7, <1>8, <1>9, <1>10 DEF JobPlaced
<1>12. req' = [req EXCEPT ![r] = new]
  BY <1>5, <1>6
<1>13. Serving(new) => Serving(job)
  BY <1>5, <1>7 DEF Serving
<1>14. Serving(new) => part # 0 /\ (MayBeResumed => new.served = version)
  BY <1>1, <1>2, <1>7, <1>13 DEF PartIsCurrent
<1> QED
  BY <1>1, <1>2, <1>3, <1>7, <1>11, <1>12, <1>14, OthersRest, QuietJobStep

----------------------------------------------------------------------------
(* Files are closed *)

\* What is buffered has been received, and goes to the .part file.
LEMMA BufferedIsWritten ==
  ASSUME FileInvariant, NEW r \in Requests, InFlight(r), req[r].buffered > 0
  PROVE  req[r].file = part /\ part # 0 /\ Writing(req[r])
<1>1. JobPlaced(r, req[r]) /\ req[r].phase \in {"open", "body", "done", "waiting"}
      /\ req[r].buffered # 0
  BY DEF FileInvariant, TypeOK, Job, Phase, InFlight
<1> QED
  BY <1>1 DEF JobPlaced, Receiving

\* Closing the files of a job in flight completes what it has received in the
\* .part file and changes no other file.
LEMMA CloseFilesEffect ==
  ASSUME FileInvariant, Sound, NEW r \in Requests, InFlight(r),
         NEW kept \in Kept(req[r]), CloseFiles(req[r], kept)
  PROVE  /\ disk' \in [Inodes -> Seq(Units)]
         /\ \A f \in Inodes \ {part} : disk'[f] = disk[f]
         /\ part # 0 => \E v \in 1..version : \E n \in 0..Size[v] : disk'[part] = Prefix(v, n)
         /\ Writing(req[r]) /\ req[r].file = part /\ part # 0 =>
              disk'[part] = Prefix(req[r].served, req[r].next - 1)
         /\ \/ disk'[part] = disk[part]
            \/ /\ Serving(req[r])
               /\ \E n \in 0..Size[req[r].served] : disk'[part] = Prefix(req[r].served, n)
<1>1. PICK job \in Job : job = req[r] /\ JobPlaced(r, job)
  BY DEF FileInvariant, TypeOK
<1>2. disk \in [Inodes -> Seq(Units)] /\ part \in Inodes \cup {0}
      /\ version \in Versions /\ MaxVersion \in Nat /\ Size \in [Versions -> Nat]
  BY DownloadAssumption DEF FileInvariant, TypeOK
<1>3. kept = job.buffered
  BY <1>1 DEF Kept, Sound
<1>4. job.file \in Inodes \cup {0} /\ (job.file # 0 => job.file = part)
      /\ job.buffered \in Nat /\ job.next \in Nat /\ job.served \in Versions
  BY <1>1 DEF JobPlaced, Job
<1>5. part # 0 => \E v \in 1..version : \E n \in 0..Size[v] : disk[part] = Prefix(v, n)
  BY DEF FileInvariant, PartIsPrefix
<1>6. job.file # 0 => disk' = [disk EXCEPT ![job.file] = Flush(job, @, job.buffered)]
  BY <1>1, <1>3 DEF CloseFiles
<1>7. CASE job.file = 0 \/ job.buffered = 0
  <2>1. disk' = disk
    <3>1. CASE job.file = 0
      BY <1>1, <3>1 DEF CloseFiles
    <3>2. CASE job.file # 0 /\ job.buffered = 0
      <4>1. Flush(job, disk[job.file], 0) = disk[job.file]
        BY <1>2, <1>4, <3>2, FlushNone
      <4> QED
        BY <1>2, <1>4, <1>6, <3>2, <4>1
    <3> QED
      BY <1>7, <3>1, <3>2
  <2>2. Writing(job) /\ job.file # 0 => disk[part] = Prefix(job.served, job.next - 1)
    <3>1. job.buffered = 0 => job.next - 1 - job.buffered = job.next - 1
      BY <1>4
    <3> QED
      BY <1>7, <3>1 DEF Writing
  <2> QED
    BY <1>1, <1>2, <1>5, <2>1, <2>2
<1>8. CASE job.file # 0 /\ job.buffered > 0
  <2>1. Writing(job)
    BY <1>1, <1>8, BufferedIsWritten
  <2>2. Stored(job, disk[part])
    BY <2>1, WritingIsStored
  <2>3. PICK m \in Nat : m = job.next - 1 - job.buffered /\ Position(job, disk[part]) = m
    BY <2>2, StoredPosition
  <2>4. disk[part] = Prefix(job.served, m)
    BY <2>1, <2>3 DEF Writing
  <2>5. job.next - job.buffered - 1 = m /\ m + job.buffered = job.next - 1
    BY <1>4, <2>3
  <2>6. Flush(job, disk[part], job.buffered) = Prefix(job.served, job.next - 1)
    BY <1>4, <2>3, <2>4, <2>5, FlushExtends
  <2>7. disk' = [disk EXCEPT ![part] = Prefix(job.served, job.next - 1)] /\ part \in Inodes
    BY <1>2, <1>4, <1>6, <1>8, <2>6
  <2>8. job.next - 1 \in Nat /\ job.next - 1 \in 0..Size[job.served] /\ job.buffered < job.next
    BY <1>2, <1>4, <1>8, <2>1 DEF Writing
  <2>9. Prefix(job.served, job.next - 1) \in Seq(Units)
    BY <1>4, <2>8, PrefixSeq
  <2>10. job.served \in 1..version
    <3>1. CASE job.phase = "body"
      <4>1. job.served \in job.since..version /\ job.since \in 1..version
        BY <1>1, <3>1 DEF JobPlaced
      <4> QED
        BY <1>2, <4>1 DEF Versions
    <3>2. CASE job.phase = "done"
      BY <1>1, <1>8, <3>2 DEF JobPlaced
    <3>3. job.phase \in {"body", "done"}
      <4>1. job.buffered # 0 /\ job.phase \in Phase \ {"unsent", "over"}
        BY <1>1, <1>8 DEF InFlight, Job, Phase
      <4> QED
        BY <1>1, <1>8, <4>1 DEF JobPlaced, Phase
    <3> QED
      BY <3>1, <3>2, <3>3
  <2>11. Serving(job)
    BY <1>8 DEF Serving
  <2> QED
    BY <1>1, <1>2, <2>7, <2>8, <2>9, <2>10, <2>11
<1> QED
  BY <1>4, <1>7, <1>8

\* A job without a file stays placed whatever happens to the files.
LEMMA FilelessPlaced ==
  ASSUME NEW r \in Requests, NEW job \in Job, JobPlaced(r, job),
         job.phase \in {"unsent", "waiting", "over"}, version' = version
  PROVE  JobPlaced(r, job)'
BY SMT DEF JobPlaced

\* The attempt ends, or the request does, without a file being saved.
LEMMA CloseStep ==
  ASSUME FileInvariant, PartIsCurrent, Sound, NEW r \in Requests, InFlight(r),
         NEW kept \in Kept(req[r]), CloseFiles(req[r], kept),
         NEW new \in Job, JobPlaced(r, new), new.phase \in {"waiting", "over"},
         req' = [req EXCEPT ![r] = new],
         part' \in {part, 0}, UNCHANGED <<output, version, kills>>
  PROVE  FileInvariant' /\ PartIsCurrent'
<1>1. /\ disk' \in [Inodes -> Seq(Units)]
      /\ \A f \in Inodes \ {part} : disk'[f] = disk[f]
      /\ part # 0 => \E v \in 1..version : \E n \in 0..Size[v] : disk'[part] = Prefix(v, n)
  BY CloseFilesEffect
<1>2. /\ part \in Inodes \cup {0} /\ output \in Inodes \cup {0} /\ (part # 0 => part # output)
      /\ OutputWhole
  BY DEF FileInvariant, TypeOK
<1>3. PartIsPrefix'
  BY <1>1 DEF PartIsPrefix
<1>4. OutputWhole'
  BY <1>1, <1>2 DEF OutputWhole
<1>5. JobPlaced(r, new)'
  BY FilelessPlaced
<1>6. \A q \in Requests \ {r} : ~InFlight(q)
  BY OthersRest
<1>7. part' \in Inodes \cup {0} /\ output' \in Inodes \cup {0} /\ (part # 0 => part # output)'
  BY <1>2
<1>8. part' # 0 /\ (part = 0 \/ MayBeResumed) =>
        \E n \in 0..Size[version] : disk'[part'] = Prefix(version, n)
  <2>1. SUFFICES ASSUME part' # 0, MayBeResumed
                 PROVE  \E n \in 0..Size[version] : disk'[part] = Prefix(version, n)
    OBVIOUS
  <2>2. CASE disk'[part] = disk[part]
    BY <2>1, <2>2 DEF PartIsCurrent
  <2>3. CASE /\ Serving(req[r])
             /\ \E n \in 0..Size[req[r].served] : disk'[part] = Prefix(req[r].served, n)
    BY <2>1, <2>3 DEF PartIsCurrent
  <2> QED
    BY <2>2, <2>3, CloseFilesEffect
<1>9. ~Serving(new) /\ req[r].phase # "over"
  BY FilelessServesNot DEF InFlight
<1> QED
  BY <1>1, <1>3, <1>4, <1>5, <1>6, <1>7, <1>8, <1>9, JobStep

\* What of a job in flight its end carries over.
LEMMA InFlightPlaced ==
  ASSUME FileInvariant, NEW r \in Requests, InFlight(r)
  PROVE  /\ req[r] \in Job /\ req[r].since \in 1..version /\ req[r].result = "none"
         /\ req[r].offset > 0 => r \in Resuming
         /\ \A result \in Result \ {"none"} :
              Finish(req[r], result) \in Job /\ JobPlaced(r, Finish(req[r], result))
              /\ Finish(req[r], result).phase = "over"
         /\ ScheduleRetry(req[r]) \in Job /\ JobPlaced(r, ScheduleRetry(req[r]))
         /\ ScheduleRetry(req[r]).phase = "waiting"
<1>1. PICK job \in Job : job = req[r] /\ JobPlaced(r, job)
  BY DEF FileInvariant, TypeOK
<1>2. /\ job.since \in 1..version /\ job.result = "none" /\ (job.offset > 0 => r \in Resuming)
  BY <1>1 DEF JobPlaced, InFlight
<1>3. \A result \in Result \ {"none"} :
        Finish(job, result) \in Job /\ JobPlaced(r, Finish(job, result))
  BY <1>2, FinishPlaced
<1>4. ScheduleRetry(job) \in Job /\ JobPlaced(r, ScheduleRetry(job))
  BY <1>2, ScheduleRetryPlaced
<1>5. \A result : Finish(job, result).phase = "over"
  BY DEF Finish, Job
<1>6. ScheduleRetry(job).phase = "waiting"
  BY DEF ScheduleRetry, Job
<1> QED
  BY <1>1, <1>2, <1>3, <1>4, <1>5, <1>6

\* The answer was a success and has been received: the .part file, once closed,
\* is the body of the version the answer carried.
LEMMA ReceivedWhole ==
  ASSUME FileInvariant, PartIsCurrent, Sound, NEW r \in Requests,
         req[r].phase = "done", req[r].code = "OK", IsSuccess(req[r].status),
         NEW kept \in Kept(req[r]), CloseFiles(req[r], kept)
  PROVE  /\ part # 0 /\ req[r].served \in 1..version
         /\ req[r].served \in req[r].since..version
         /\ disk'[part] = Body(req[r].served)
<1>1. PICK job \in Job : job = req[r] /\ JobPlaced(r, job)
  BY DEF FileInvariant, TypeOK
<1>2. /\ job.file # 0 /\ job.file = part /\ job.served \in job.since..version
      /\ job.since \in 1..version
      /\ Receiving(job) /\ job.next > Size[job.served]
      /\ job.offset > 0 => r \in Resuming
  BY <1>1 DEF JobPlaced
<1>3. /\ version \in Versions /\ MaxVersion \in Nat /\ Size \in [Versions -> Nat]
      /\ job.served \in Versions /\ job.next \in Nat /\ job.offset \in Nat
      /\ job.served \in 1..version
  BY <1>1, <1>2, DownloadAssumption DEF FileInvariant, TypeOK, Job, Versions
<1>4. InFlight(r)
  BY DEF InFlight
<1>5. ~ServerIgnoredRange(job)
  <2>1. SUFFICES ASSUME ServerIgnoredRange(job) PROVE FALSE
    OBVIOUS
  <2>2. job.offset > 0 /\ job.next = 1 /\ AtStart(job)
    BY <1>2, <2>1 DEF ServerIgnoredRange, Receiving
  <2>3. Len(disk[part]) = job.offset
    BY <2>2 DEF AtStart
  <2>4. MayBeResumed /\ Serving(job)
    BY <1>1, <1>2, <2>2 DEF MayBeResumed, Serving
  <2>5. job.served = version
    BY <1>1, <2>4 DEF PartIsCurrent
  <2>6. PICK n \in 0..Size[version] : disk[part] = Prefix(version, n)
    BY <2>4 DEF PartIsCurrent
  <2>7. Size[version] = 0
    BY <1>2, <1>3, <2>2, <2>5
  <2>9. Len(disk[part]) = 0
    BY <2>6, <2>7, PrefixEmpty
  <2> QED
    BY <2>2, <2>3, <2>9
<1>6. Writing(job)
  BY <1>2, <1>5 DEF Receiving
<1>7. job.next - 1 = Size[job.served]
  BY <1>2, <1>3, <1>6 DEF Writing
<1>8. disk'[part] = Prefix(job.served, job.next - 1)
  BY <1>1, <1>2, <1>4, <1>6, CloseFilesEffect
<1> QED
  BY <1>1, <1>2, <1>3, <1>7, <1>8 DEF Body

LEMMA OnAttemptDoneInvariant ==
  ASSUME FileInvariant, PartIsCurrent, Sound, NEW r \in Requests, OnAttemptDone(r)
  PROVE  FileInvariant' /\ PartIsCurrent'
<1>1. PICK kept \in Kept(req[r]) : CloseFiles(req[r], kept)
  BY DEF OnAttemptDone
<1>2. req[r].phase = "done" /\ InFlight(r) /\ UNCHANGED <<version, kills>>
  BY DEF OnAttemptDone, InFlight
<1>3. /\ \A result \in {"Ok", "HttpError", "NetworkError", "IoError"} :
           Finish(req[r], result) \in Job /\ JobPlaced(r, Finish(req[r], result))
           /\ Finish(req[r], result).phase = "over"
      /\ ScheduleRetry(req[r]) \in Job /\ JobPlaced(r, ScheduleRetry(req[r]))
      /\ ScheduleRetry(req[r]).phase = "waiting"
  BY <1>2, InFlightPlaced DEF Result
<1>4. ASSUME NEW new \in {ScheduleRetry(req[r]), Finish(req[r], "HttpError"),
                          Finish(req[r], "NetworkError"), Finish(req[r], "IoError")},
             req' = [req EXCEPT ![r] = new], part' \in {part, 0}, output' = output
      PROVE  FileInvariant' /\ PartIsCurrent'
  <2>1. PICK n : n = new
    OBVIOUS
  <2>2. n \in Job /\ JobPlaced(r, n) /\ n.phase \in {"waiting", "over"}
    BY <1>3, <1>4, <2>1
  <2> QED
    BY <1>1, <1>2, <1>4, <2>1, <2>2, CloseStep
<1>5. CASE HandleTransportFailure(r)
  <2>1. /\ part' = part /\ output' = output
        /\ \/ req' = [req EXCEPT ![r] = Finish(req[r], "IoError")]
           \/ req' = [req EXCEPT ![r] = ScheduleRetry(req[r])]
           \/ req' = [req EXCEPT ![r] = Finish(req[r], "NetworkError")]
    BY <1>5 DEF HandleTransportFailure
  <2> QED
    BY <2>1, <1>4
<1>6. CASE HandleHttpFailure(r)
  <2>1. /\ part' \in {part, 0} /\ output' = output
        /\ \/ req' = [req EXCEPT ![r] = ScheduleRetry(req[r])]
           \/ req' = [req EXCEPT ![r] = Finish(req[r], "HttpError")]
    BY <1>6 DEF HandleHttpFailure
  <2> QED
    BY <2>1, <1>4
<1>7. CASE req[r].code = "OK" /\ IsSuccess(req[r].status) /\ HandleHttpSuccess(r)
  <2>1. CASE req' = [req EXCEPT ![r] = Finish(@, "IoError")] /\ UNCHANGED <<part, output>>
    BY <2>1, <1>4
  <2>2. CASE /\ part # 0 /\ output' = part /\ part' = 0
             /\ req' = [req EXCEPT ![r] = Finish(@, "Ok")]
    <3>1. /\ disk' \in [Inodes -> Seq(Units)]
          /\ part \in Inodes
      BY <1>1, <1>2, <2>2, CloseFilesEffect DEF FileInvariant, TypeOK
    <3>2. req[r].served \in 1..version /\ disk'[part] = Body(req[r].served)
      BY <1>1, <1>2, <1>7, ReceivedWhole
    <3>3. PartIsPrefix' /\ (part # 0 => part # output)'
      BY <2>2 DEF PartIsPrefix
    <3>4. OutputWhole'
      BY <1>2, <2>2, <3>2 DEF OutputWhole, Body, Prefix
    <3>5. PICK n : n = Finish(req[r], "Ok")
      OBVIOUS
    <3>6. n \in Job /\ JobPlaced(r, n) /\ n.phase = "over"
      BY <1>3, <3>5
    <3>7. JobPlaced(r, n)'
      BY <1>2, <3>6, FilelessPlaced
    <3>8. req' = [req EXCEPT ![r] = n]
      BY <2>2, <3>5
    <3>9. ~Serving(n)
      BY <3>6, FilelessServesNot
    <3> QED
      BY <1>2, <2>2, <3>1, <3>3, <3>4, <3>6, <3>7, <3>8, <3>9, OthersRest, JobStep
  <2> QED
    BY <1>7, <2>1, <2>2 DEF HandleHttpSuccess
<1> QED
  BY <1>5, <1>6, <1>7 DEF OnAttemptDone

LEMMA CancelInvariant ==
  ASSUME FileInvariant, PartIsCurrent, Sound, NEW r \in Requests, Cancel(r)
  PROVE  FileInvariant' /\ PartIsCurrent'
<1>1. PICK kept \in Kept(req[r]) : CloseFiles(req[r], kept)
  BY DEF Cancel
<1>2. InFlight(r) /\ UNCHANGED <<part, output, version, kills>>
  BY DEF Cancel, InFlight
<1>3. PICK n : n = Finish(req[r], "Cancelled")
  OBVIOUS
<1>4. n \in Job /\ JobPlaced(r, n) /\ n.phase = "over"
  BY <1>2, <1>3, InFlightPlaced DEF Result
<1>5. req' = [req EXCEPT ![r] = n]
  BY <1>3 DEF Cancel
<1> QED
  BY <1>1, <1>2, <1>4, <1>5, CloseStep

LEMMA KillInvariant ==
  ASSUME FileInvariant, PartIsCurrent, Kill
  PROVE  FileInvariant' /\ PartIsCurrent'
<1>1. /\ kills < MaxKills /\ kills' = kills + 1
      /\ req' = [r \in Requests |-> IF InFlight(r) THEN Finish(req[r], "killed") ELSE req[r]]
      /\ UNCHANGED <<disk, part, output, version>>
  BY DEF Kill
<1>2. ASSUME NEW r \in Requests
      PROVE  req'[r] \in Job /\ JobPlaced(r, req[r])' /\ ~InFlight(r)'
  <2>1. CASE InFlight(r)
    <3>1. PICK n : n = Finish(req[r], "killed")
      OBVIOUS
    <3>2. n \in Job /\ JobPlaced(r, n) /\ n.phase = "over"
      BY <2>1, <3>1, InFlightPlaced DEF Result
    <3>3. JobPlaced(r, n)'
      BY <1>1, <3>2, FilelessPlaced
    <3>4. req'[r] = n
      BY <1>1, <2>1, <3>1
    <3>5. JobPlaced(r, req[r])'
      BY <3>3, <3>4, SMT DEF JobPlaced, AtStart, Writing, Receiving
    <3> QED
      BY <3>2, <3>4, <3>5 DEF InFlight
  <2>2. CASE ~InFlight(r)
    <3>1. req'[r] = req[r]
      BY <1>1, <2>2
    <3>2. JobPlaced(r, req[r])'
      BY <1>1, <2>2, <3>1, RestingPlaced
    <3> QED
      BY <2>2, <3>1, <3>2 DEF FileInvariant, TypeOK, InFlight
  <2> QED
    BY <2>1, <2>2
<1>3. TypeOK'
  <2>1. req' \in [Requests -> Job]
    BY <1>1, <1>2
  <2>2. kills' \in 0..MaxKills
    BY <1>1, DownloadAssumption DEF FileInvariant, TypeOK
  <2> QED
    BY <1>1, <2>1, <2>2 DEF FileInvariant, TypeOK
<1>4. PartIsPrefix' /\ OutputWhole' /\ (part # 0 => part # output)'
  BY <1>1 DEF FileInvariant, PartIsPrefix, OutputWhole
<1>5. ASSUME MayBeResumed' PROVE MayBeResumed
  <2>1. PICK q \in Resuming : req'[q].phase # "over"
    BY <1>5 DEF MayBeResumed
  <2>2. q \in Requests
    BY DownloadAssumption
  <2>3. ~InFlight(q) => req'[q] = req[q]
    BY <1>1, <2>2
  <2>4. req[q].phase # "over"
    BY <2>1, <2>3 DEF InFlight
  <2> QED
    BY <1>1, <1>5, <2>4 DEF MayBeResumed
<1>6. FileInvariant'
  BY <1>2, <1>3, <1>4 DEF FileInvariant
<1>7. \A q \in Requests : ~Serving(req'[q])
  <2>1. SUFFICES ASSUME NEW q \in Requests PROVE ~Serving(req'[q])
    OBVIOUS
  <2>2. req'[q].phase \in {"unsent", "over"} /\ req'[q] \in Job /\ JobPlaced(q, req[q])'
    BY <1>2 DEF InFlight
  <2>3. req'[q].buffered = 0
    BY <2>2 DEF JobPlaced
  <2> QED
    BY <2>2, <2>3 DEF Serving
<1> QED
  BY <1>1, <1>5, <1>6, <1>7 DEF PartIsCurrent

LEMMA PublishInvariant ==
  ASSUME FileInvariant, Sound, Publish
  PROVE  FileInvariant' /\ PartIsCurrent'
<1>1. /\ version < MaxVersion /\ version' = version + 1
      /\ UNCHANGED <<disk, part, output, req, kills>>
  BY DEF Publish
<1>2. version \in 1..MaxVersion /\ MaxVersion \in Nat
  BY DownloadAssumption DEF FileInvariant, TypeOK, Versions
<1>3. version' \in Versions /\ \A v \in 1..version : v \in 1..version'
  BY <1>1, <1>2 DEF Versions
<1>4. TypeOK' /\ (part # 0 => part # output)'
  BY <1>1, <1>3 DEF FileInvariant, TypeOK
<1>5. PartIsPrefix'
  BY <1>1, <1>3 DEF FileInvariant, PartIsPrefix
<1>6. OutputWhole'
  BY <1>1, <1>3 DEF FileInvariant, OutputWhole
<1>7. ASSUME NEW r \in Requests PROVE JobPlaced(r, req[r])'
  <2>1. PICK job \in Job : job = req[r] /\ JobPlaced(r, job)
    BY DEF FileInvariant, TypeOK
  <2>2. job.since \in 1..version => job.since \in 1..version'
    BY <1>3
  <2>3. job.served \in 1..version => job.served \in 1..version'
    BY <1>3
  <2>4. job.since \in 1..version /\ job.served \in job.since..version =>
          job.served \in job.since..version'
    BY <1>1, <1>2
  <2>5. JobPlaced(r, job)'
    BY <1>1, <2>1, <2>2, <2>3, <2>4, SMT DEF JobPlaced, AtStart, Writing, Receiving
  <2>6. req'[r] = job
    BY <1>1, <2>1
  <2> QED
    BY <2>5, <2>6, SMT DEF JobPlaced, AtStart, Writing, Receiving
<1>8. (\A p, q \in Requests : InFlight(p) /\ InFlight(q) => p = q)'
  BY <1>1 DEF FileInvariant, InFlight
<1>9. ~MayBeResumed'
  BY <1>1 DEF Publish, Sound, MayBeResumed
<1> QED
  BY <1>4, <1>5, <1>6, <1>7, <1>8, <1>9 DEF FileInvariant, PartIsCurrent

----------------------------------------------------------------------------
(* The invariant *)

LEMMA InitInvariant ==
  Init => FileInvariant
<1> SUFFICES ASSUME Init PROVE FileInvariant
  OBVIOUS
<1>1. /\ disk = [i \in Inodes |-> <<>>] /\ part = 0 /\ output = 0
      /\ req = [r \in Requests |-> FreshJob] /\ version = 1 /\ kills = 0
  BY DEF Init
<1>2. 1 \in Versions
  BY DownloadAssumption DEF Versions
<1>3. FreshJob \in Job
  BY <1>2 DEF FreshJob, Job, Phase, Result
<1>4. /\ FreshJob.phase = "unsent" /\ FreshJob.since = 0 /\ FreshJob.result = "none"
      /\ FreshJob.file = 0 /\ FreshJob.buffered = 0 /\ FreshJob.offset = 0
  BY DEF FreshJob
<1>5. TypeOK
  BY <1>1, <1>2, <1>3, DownloadAssumption DEF TypeOK
<1>6. ASSUME NEW r \in Requests PROVE JobPlaced(r, req[r]) /\ ~InFlight(r)
  <2>1. req[r] = FreshJob
    BY <1>1
  <2>2. JobPlaced(r, FreshJob)
    BY <1>4 DEF JobPlaced
  <2> QED
    BY <1>4, <2>1, <2>2 DEF InFlight
<1> QED
  BY <1>1, <1>5, <1>6 DEF FileInvariant, PartIsPrefix, OutputWhole

LEMMA StepInvariant ==
  ASSUME FileInvariant, PartIsCurrent, Sound, [Next]_vars
  PROVE  FileInvariant' /\ PartIsCurrent'
<1>1. CASE UNCHANGED vars
  <2>1. UNCHANGED <<disk, part, output, req, version, kills>>
    BY <1>1 DEF vars
  <2>2. TypeOK' /\ PartIsPrefix' /\ OutputWhole' /\ (part # 0 => part # output)'
    BY <2>1 DEF FileInvariant, TypeOK, PartIsPrefix, OutputWhole
  <2>3. ASSUME NEW r \in Requests PROVE JobPlaced(r, req[r])'
    BY <2>1, SMT DEF FileInvariant, JobPlaced, AtStart, Writing, Receiving
  <2>4. (\A p, q \in Requests : InFlight(p) /\ InFlight(q) => p = q)'
    BY <2>1 DEF FileInvariant, InFlight
  <2>5. PartIsCurrent'
    BY <2>1 DEF PartIsCurrent, MayBeResumed
  <2> QED
    BY <2>2, <2>3, <2>4, <2>5 DEF FileInvariant
<1> QED
  BY <1>1, AnswerInvariant, BeginAttemptInvariant, WriteFileInvariant, CurlDoneInvariant,
     OnAttemptDoneInvariant, CancelInvariant, KillInvariant, PublishInvariant
  DEF Next, AllOver

\* Whatever the sizes, the number of requests and the number of kills, the .part
\* file is always the beginning of one version, the output path always names a
\* whole one, and every job in flight knows where it stands in the file, if one
\* request runs at a time, fclose writes what is buffered and what is resumed
\* does not change (OpenOutputFile, WriteFile, CloseFiles, FinalizeDownload).
THEOREM DownloadInvariantHolds ==
  ASSUME Sound PROVE Spec => []DownloadInvariant
<1>1. Init => DownloadInvariant
  BY InitInvariant DEF DownloadInvariant, PartIsCurrent, MayBeResumed, Init
<1>2. DownloadInvariant /\ [Next]_vars => DownloadInvariant'
  BY StepInvariant DEF DownloadInvariant
<1> QED
  BY <1>1, <1>2, PTL DEF Spec

\* What a killed or interrupted request leaves can always be continued.
THEOREM PartAlwaysPrefix ==
  ASSUME Sound PROVE Spec => []PartIsPrefix
<1>1. DownloadInvariant => PartIsPrefix
  BY DEF DownloadInvariant, FileInvariant
<1> QED
  BY <1>1, DownloadInvariantHolds, PTL

\* The output path never names an incomplete or a mixed file.
THEOREM OutputAlwaysWhole ==
  ASSUME Sound PROVE Spec => []OutputWhole
<1>1. DownloadInvariant => OutputWhole
  BY DEF DownloadInvariant, FileInvariant
<1> QED
  BY <1>1, DownloadInvariantHolds, PTL

----------------------------------------------------------------------------
(* What a step of one request does to the file at the output path *)

\* r moves, and the file at the output path stays as it is.
Moves(r, new) ==
  /\ req' = [req EXCEPT ![r] = new]
  /\ version' = version /\ output' = output
  /\ output # 0 => disk'[output] = disk[output]

Begins(r) ==
  \E new :
    /\ Moves(r, new) /\ req[r].since = 0 /\ req[r].result = "none" /\ new.since = version
    /\ new.result \in {"none", "NetworkError", "IoError"}

Goes(r) ==
  \E new :
    Moves(r, new) /\ new.since = req[r].since /\ new.result = req[r].result

EndsBadly(r) ==
  \E new :
    /\ Moves(r, new) /\ new.since = req[r].since
    /\ req[r].since # 0 /\ req[r].result = "none"
    /\ new.result \in Result \ {"none", "Ok"}

Saves(r) ==
  /\ req' = [req EXCEPT ![r] = Finish(req[r], "Ok")]
  /\ req[r].since # 0 /\ req[r].result = "none"
  /\ version' = version /\ output' # 0
  /\ req[r].served \in req[r].since..version
  /\ disk'[output'] = Body(req[r].served)

LEMMA FinishEffect ==
  ASSUME NEW job \in Job, NEW result
  PROVE  Finish(job, result).since = job.since /\ Finish(job, result).result = result
BY DEF Finish, Job

LEMMA ScheduleRetryEffect ==
  ASSUME NEW job \in Job
  PROVE  ScheduleRetry(job).since = job.since /\ ScheduleRetry(job).result = job.result
BY DEF ScheduleRetry, Job

LEMMA InFlightSince ==
  ASSUME FileInvariant, NEW r \in Requests, req[r].phase \notin {"unsent", "over"}
  PROVE  /\ req[r] \in Job /\ req[r].since # 0 /\ req[r].result = "none"
         /\ InFlight(r) /\ req[r].since \in 1..version
BY DEF InFlight, FileInvariant, TypeOK, JobPlaced

\* Closing a job's files leaves the file at the output path alone.
LEMMA CloseKeepsOutput ==
  ASSUME FileInvariant, Sound, NEW r \in Requests, InFlight(r),
         NEW kept \in Kept(req[r]), CloseFiles(req[r], kept)
  PROVE  output # 0 => disk'[output] = disk[output]
<1>1. \A f \in Inodes \ {part} : disk'[f] = disk[f]
  BY CloseFilesEffect
<1>2. output # 0 => output \in Inodes /\ output # part
  BY DEF FileInvariant, TypeOK
<1> QED
  BY <1>1, <1>2

LEMMA BeginAttemptStep ==
  ASSUME FileInvariant, NEW r \in Requests, BeginAttempt(r)
  PROVE  Begins(r) \/ Goes(r) \/ EndsBadly(r)
<1>1. PICK old \in Job : old = req[r] /\ JobPlaced(r, old)
  BY DEF FileInvariant, TypeOK
<1>2. PICK job : job = [old EXCEPT !.phase = "open", !.attempt = @ + 1, !.code = "OK",
                                   !.since = IF @ = 0 THEN version ELSE @]
  OBVIOUS
<1>3. version \in Versions /\ version \in 1..version /\ old.phase \in {"unsent", "waiting"}
  <2>1. version \in Versions /\ version \in 1..version
    BY DownloadAssumption DEF FileInvariant, TypeOK, Versions
  <2>2. old.phase \in {"unsent", "waiting"}
    BY <1>1, Zenon DEF BeginAttempt
  <2> QED
    BY <2>1, <2>2
<1>4. PICK s \in Versions : s = IF old.since = 0 THEN version ELSE old.since
  <2>1. old.since \in Versions \cup {0}
    BY DEF Job
  <2>2. CASE old.since = 0
    BY <1>3, <2>2
  <2>3. CASE old.since # 0
    BY <2>1, <2>3
  <2> QED
    BY <2>2, <2>3
<1>5. job \in Job /\ job.since = s /\ job.result = old.result
  <2>1. PICK a \in Nat : a = old.attempt + 1
    BY DEF Job
  <2>2. job = [old EXCEPT !.phase = "open", !.attempt = a, !.code = "OK", !.since = s]
    BY <1>2, <1>4, <2>1, Zenon
  <2> QED
    BY <2>2 DEF Job, Phase
<1>6. /\ old.result = "none"
      /\ old.phase = "unsent" => old.since = 0
      /\ old.phase = "waiting" => old.since # 0
  BY <1>1, <1>3 DEF JobPlaced
<1>7. UNCHANGED <<output, version, kills>>
  BY DEF BeginAttempt
<1>8. ASSUME NEW new \in Job, req' = [req EXCEPT ![r] = new],
             output # 0 => disk'[output] = disk[output],
             new.since = s, new.result \in {"none", "NetworkError", "IoError"}
      PROVE  Begins(r) \/ Goes(r) \/ EndsBadly(r)
  <2>1. Moves(r, new)
    BY <1>7, <1>8 DEF Moves
  <2>2. CASE old.phase = "unsent"
    BY <1>1, <1>4, <1>6, <1>8, <2>1, <2>2 DEF Begins
  <2>3. CASE old.phase = "waiting" /\ new.result = "none"
    BY <1>1, <1>4, <1>6, <1>8, <2>1, <2>3 DEF Goes
  <2>4. CASE old.phase = "waiting" /\ new.result # "none"
    BY <1>1, <1>4, <1>6, <1>8, <2>1, <2>4 DEF EndsBadly, Result
  <2> QED
    BY <1>3, <2>2, <2>3, <2>4
<1>9. ASSUME NEW f \in Inodes, OpenOutputFile(r, f)
      PROVE  output # 0 => disk'[output] = disk[output]
  <2>1. f # output /\ \A g \in Inodes \ {f} : disk'[g] = disk[g]
    BY <1>7, <1>9, OpenOutputFileEffect DEF OpenOutputFile, FileInvariant, TypeOK
  <2> QED
    BY <2>1 DEF FileInvariant, TypeOK
<1>10. ASSUME NEW f \in Inodes, OpenOutputFile(r, f)
       PROVE  LET opened == [job EXCEPT !.file = f, !.offset = Existing(r), !.pos = 0]
              IN  \A new \in {opened, Finish(opened, "NetworkError")} :
                    /\ new \in Job /\ new.since = s
                    /\ new.result \in {"none", "NetworkError", "IoError"}
  <2>1. Existing(r) \in Nat
    BY <1>7, <1>10, OpenOutputFileEffect
  <2>2. PICK e \in Nat : e = Existing(r)
    BY <2>1
  <2>3. PICK new : new = [job EXCEPT !.file = f, !.offset = e, !.pos = 0]
    OBVIOUS
  <2>4. new \in Job /\ new.since = s /\ new.result = "none"
    BY <1>5, <1>6, <2>3 DEF Job
  <2>5. PICK end : end = Finish(new, "NetworkError")
    OBVIOUS
  <2>6. end \in Job /\ end.since = s /\ end.result = "NetworkError"
    BY <2>4, <2>5 DEF Finish, Job, Phase, Result
  <2>7. [job EXCEPT !.file = f, !.offset = Existing(r), !.pos = 0] = new
    BY <2>2, <2>3, Zenon
  <2> QED
    BY <2>4, <2>5, <2>6, <2>7
<1>11. \/ \E f \in Inodes :
             /\ OpenOutputFile(r, f)
             /\ \E new \in {[job EXCEPT !.file = f, !.offset = Existing(r), !.pos = 0],
                            Finish([job EXCEPT !.file = f, !.offset = Existing(r), !.pos = 0],
                                   "NetworkError")} :
                  req' = [req EXCEPT ![r] = new]
       \/ req' = [req EXCEPT ![r] = Finish(job, "IoError")] /\ UNCHANGED <<disk, part>>
  BY <1>1, <1>2 DEF BeginAttempt
<1>12. CASE req' = [req EXCEPT ![r] = Finish(job, "IoError")] /\ UNCHANGED <<disk, part>>
  <2>1. PICK end : end = Finish(job, "IoError")
    OBVIOUS
  <2>2. end \in Job /\ end.since = s /\ end.result = "IoError"
    BY <1>5, <2>1 DEF Finish, Job, Phase, Result
  <2> QED
    BY <1>8, <1>12, <2>1, <2>2
<1>13. ASSUME NEW f \in Inodes, OpenOutputFile(r, f),
              NEW new \in {[job EXCEPT !.file = f, !.offset = Existing(r), !.pos = 0],
                            Finish([job EXCEPT !.file = f, !.offset = Existing(r), !.pos = 0],
                                   "NetworkError")},
              req' = [req EXCEPT ![r] = new]
       PROVE  Begins(r) \/ Goes(r) \/ EndsBadly(r)
  <2>1. PICK n : n = new
    OBVIOUS
  <2>2. n \in Job /\ n.since = s /\ n.result \in {"none", "NetworkError", "IoError"}
    BY <1>10, <1>13, <2>1
  <2>3. output # 0 => disk'[output] = disk[output]
    BY <1>9, <1>13
  <2> QED
    BY <1>8, <1>13, <2>1, <2>2, <2>3
<1> QED
  BY <1>11, <1>12, <1>13

LEMMA AnswerStep ==
  ASSUME FileInvariant, NEW r \in Requests, Answer(r)
  PROVE  Goes(r)
<1>1. PICK job \in Job : job = req[r]
  BY DEF FileInvariant, TypeOK
<1>2. \E status, next : req' = [req EXCEPT ![r] = Answered(job, status, next)]
  BY <1>1 DEF Answer
<1>3. PICK status, next : req' = [req EXCEPT ![r] = Answered(job, status, next)]
  BY <1>2
<1>4. /\ Answered(job, status, next).since = job.since
      /\ Answered(job, status, next).result = job.result
  BY DEF Answered, Job
<1>5. UNCHANGED <<disk, version, output>>
  BY DEF Answer
<1> QED
  BY <1>1, <1>3, <1>4, <1>5 DEF Goes, Moves

LEMMA FwriteKeeps ==
  ASSUME NEW job \in Job, NEW content, NEW w \in Fwrite(job, content)
  PROVE  w.job.since = job.since /\ w.job.result = job.result
<1>1. PICK got : got = [job EXCEPT !.next = @ + 1, !.buffered = @ + 1]
  OBVIOUS
<1>2. PICK n, b : n = job.next + 1 /\ b = job.buffered + 1
  OBVIOUS
<1>3. got = [job EXCEPT !.next = n, !.buffered = b]
  BY <1>1, <1>2, Zenon
<1>4. /\ got.since = job.since /\ got.result = job.result
      /\ DOMAIN got = DOMAIN job
  BY <1>3 DEF Job
<1>5. CASE w = [content |-> content, job |-> got]
  BY <1>4, <1>5
<1>6. CASE w = [content |-> Flush(got, content, got.buffered),
                job     |-> [got EXCEPT !.pos = @ + got.buffered, !.buffered = 0]]
  <2>1. PICK p : p = got.pos + got.buffered
    OBVIOUS
  <2>2. PICK new : new = [job EXCEPT !.next = n, !.buffered = 0, !.pos = p]
    OBVIOUS
  <2>3. new.since = job.since /\ new.result = job.result
    BY <2>2 DEF Job
  <2>4. [got EXCEPT !.pos = p, !.buffered = 0] = new
    BY <1>3, <2>2 DEF Job
  <2>5. w.job = [got EXCEPT !.pos = @ + got.buffered, !.buffered = 0]
    BY <1>6
  <2>6. w.job = [got EXCEPT !.pos = p, !.buffered = 0]
    BY <2>1, <2>5, Zenon
  <2> QED
    BY <2>3, <2>4, <2>6
<1>7. CASE w = [content |-> content,
                job     |-> [job EXCEPT !.phase = "done", !.code = "WRITE_ERROR"]]
  <2>1. w.job = [job EXCEPT !.phase = "done", !.code = "WRITE_ERROR"]
    BY <1>7
  <2> QED
    BY <2>1 DEF Job
<1> QED
  BY <1>1, <1>5, <1>6, <1>7 DEF Fwrite

LEMMA WriteFileStep ==
  ASSUME FileInvariant, NEW r \in Requests, WriteFile(r)
  PROVE  Goes(r)
<1>1. PICK job \in Job : job = req[r] /\ JobPlaced(r, job)
  BY DEF FileInvariant, TypeOK
<1>2. job.phase = "body" /\ job.file # 0 /\ job.file = part
  BY <1>1 DEF WriteFile, JobPlaced
<1>3. UNCHANGED <<output, version, kills>>
  BY DEF WriteFile
<1>4. /\ output # 0 => output \in Inodes /\ output # part
      /\ disk \in [Inodes -> Seq(Units)]
  BY <1>2 DEF FileInvariant, TypeOK
<1>5. ASSUME NEW f \in Inodes, f = part, NEW open \in Job, NEW content,
             open.since = job.since, open.result = job.result,
             NEW w \in Fwrite(open, content),
             disk' = [disk EXCEPT ![f] = w.content],
             req' = [req EXCEPT ![r] = w.job]
      PROVE  Goes(r)
  <2>1. w.job.since = job.since /\ w.job.result = job.result
    BY <1>5, FwriteKeeps
  <2>2. output # 0 => disk'[output] = disk[output]
    BY <1>4, <1>5
  <2>3. Moves(r, w.job)
    BY <1>3, <1>5, <2>2 DEF Moves
  <2> QED
    BY <1>1, <2>1, <2>3 DEF Goes
<1>6. \A f : /\ [job EXCEPT !.file = f, !.offset = 0, !.pos = 0].since = job.since
             /\ [job EXCEPT !.file = f, !.offset = 0, !.pos = 0].result = job.result
             /\ f \in Inodes => [job EXCEPT !.file = f, !.offset = 0, !.pos = 0] \in Job
  BY DEF Job
<1>7. CASE ServerIgnoredRange(job)
  <2>1. CASE \E f \in Inodes :
             /\ Opens(f)
             /\ \E w \in Fwrite([job EXCEPT !.file = f, !.offset = 0, !.pos = 0], <<>>) :
                  /\ disk' = [disk EXCEPT ![f] = w.content]
                  /\ req' = [req EXCEPT ![r] = w.job]
    <3>1. PICK f \in Inodes :
             /\ Opens(f)
             /\ \E w \in Fwrite([job EXCEPT !.file = f, !.offset = 0, !.pos = 0], <<>>) :
                  /\ disk' = [disk EXCEPT ![f] = w.content]
                  /\ req' = [req EXCEPT ![r] = w.job]
      BY <2>1
    <3>2. f = part
      BY <1>2, <3>1 DEF Opens
    <3>3. PICK open \in Job : /\ open = [job EXCEPT !.file = f, !.offset = 0, !.pos = 0]
                              /\ open.since = job.since /\ open.result = job.result
      BY <1>6
    <3>4. PICK w \in Fwrite(open, <<>>) :
                  /\ disk' = [disk EXCEPT ![f] = w.content]
                  /\ req' = [req EXCEPT ![r] = w.job]
      BY <3>1, <3>3
    <3> QED
      BY <3>2, <3>3, <3>4, <1>5
  <2>2. CASE /\ req' = [req EXCEPT ![r] =
                         [[job EXCEPT !.file = 0, !.offset = 0, !.pos = 0]
                            EXCEPT !.phase = "done", !.code = "WRITE_ERROR"]]
             /\ UNCHANGED <<disk, part>>
    <3>1. PICK new : new = [[job EXCEPT !.file = 0, !.offset = 0, !.pos = 0]
                            EXCEPT !.phase = "done", !.code = "WRITE_ERROR"]
      OBVIOUS
    <3>2. new.since = job.since /\ new.result = job.result
      BY <3>1 DEF Job
    <3>3. Moves(r, new)
      BY <1>3, <2>2, <3>1 DEF Moves
    <3> QED
      BY <1>1, <3>2, <3>3 DEF Goes
  <2>3. \/ \E f \in Inodes :
             /\ Opens(f)
             /\ \E w \in Fwrite([job EXCEPT !.file = f, !.offset = 0, !.pos = 0], <<>>) :
                  /\ disk' = [disk EXCEPT ![f] = w.content]
                  /\ req' = [req EXCEPT ![r] = w.job]
        \/ /\ req' = [req EXCEPT ![r] =
                         [[job EXCEPT !.file = 0, !.offset = 0, !.pos = 0]
                            EXCEPT !.phase = "done", !.code = "WRITE_ERROR"]]
           /\ UNCHANGED <<disk, part>>
    BY <1>1, <1>7, Zenon DEF WriteFile
  <2> QED
    BY <2>1, <2>2, <2>3
<1>8. CASE ~ServerIgnoredRange(job)
  <2>1. PICK f \in Inodes :
            /\ f = job.file
            /\ \E w \in Fwrite(job, disk[f]) :
                  /\ disk' = [disk EXCEPT ![f] = w.content]
                  /\ req' = [req EXCEPT ![r] = w.job]
    BY <1>1, <1>8, Zenon DEF WriteFile
  <2>2. PICK c : c = disk[f]
    OBVIOUS
  <2>3. PICK w \in Fwrite(job, c) :
                  /\ disk' = [disk EXCEPT ![f] = w.content]
                  /\ req' = [req EXCEPT ![r] = w.job]
    BY <2>1, <2>2
  <2> QED
    BY <1>2, <2>1, <2>3, <1>5
<1> QED
  BY <1>7, <1>8

LEMMA CurlDoneStep ==
  ASSUME FileInvariant, NEW r \in Requests, CurlDone(r)
  PROVE  Goes(r)
<1>1. PICK job \in Job : job = req[r]
  BY DEF FileInvariant, TypeOK
<1>2. \/ req' = [req EXCEPT ![r] = [job EXCEPT !.phase = "done"]]
      \/ req' = [req EXCEPT ![r] = [job EXCEPT !.phase = "done", !.code = "RECV_ERROR"]]
  <2>1. [req EXCEPT ![r].phase = "done"] = [req EXCEPT ![r] = [job EXCEPT !.phase = "done"]]
    BY <1>1
  <2>2. [req EXCEPT ![r].phase = "done", ![r].code = "RECV_ERROR"]
          = [req EXCEPT ![r] = [job EXCEPT !.phase = "done", !.code = "RECV_ERROR"]]
    BY <1>1 DEF FileInvariant, TypeOK
  <2> QED
    BY <2>1, <2>2, Zenon DEF CurlDone
<1>3. UNCHANGED <<disk, version, output>>
  BY DEF CurlDone
<1>4. CASE req' = [req EXCEPT ![r] = [job EXCEPT !.phase = "done"]]
  <2>1. PICK new : new = [job EXCEPT !.phase = "done"]
    OBVIOUS
  <2>2. new.since = job.since /\ new.result = job.result
    BY <2>1 DEF Job
  <2> QED
    BY <1>1, <1>3, <1>4, <2>1, <2>2 DEF Goes, Moves
<1>5. CASE req' = [req EXCEPT ![r] = [job EXCEPT !.phase = "done", !.code = "RECV_ERROR"]]
  <2>1. PICK new : new = [job EXCEPT !.phase = "done", !.code = "RECV_ERROR"]
    OBVIOUS
  <2>2. new.since = job.since /\ new.result = job.result
    BY <2>1 DEF Job
  <2> QED
    BY <1>1, <1>3, <1>5, <2>1, <2>2 DEF Goes, Moves
<1> QED
  BY <1>2, <1>4, <1>5

LEMMA OnAttemptDoneStep ==
  ASSUME FileInvariant, PartIsCurrent, Sound, NEW r \in Requests, OnAttemptDone(r)
  PROVE  Goes(r) \/ EndsBadly(r) \/ Saves(r)
<1>1. PICK kept \in Kept(req[r]) : CloseFiles(req[r], kept)
  BY DEF OnAttemptDone
<1>2. req[r].phase = "done" /\ version' = version
  BY DEF OnAttemptDone
<1>3. req[r] \in Job /\ req[r].since # 0 /\ req[r].result = "none" /\ InFlight(r)
  BY <1>2, InFlightSince
<1>4. output # 0 => disk'[output] = disk[output]
  BY <1>1, <1>3, CloseKeepsOutput
<1>5. ASSUME NEW result \in {"HttpError", "NetworkError", "IoError"},
             req' = [req EXCEPT ![r] = Finish(req[r], result)], output' = output
      PROVE  EndsBadly(r)
  <2>1. PICK new : new = Finish(req[r], result)
    OBVIOUS
  <2>2. new.since = req[r].since /\ new.result = result
    BY <1>3, <2>1, FinishEffect
  <2>3. Moves(r, new)
    BY <1>2, <1>4, <1>5, <2>1 DEF Moves
  <2> QED
    BY <1>3, <1>5, <2>2, <2>3 DEF EndsBadly, Result
<1>6. ASSUME req' = [req EXCEPT ![r] = ScheduleRetry(req[r])], output' = output
      PROVE  Goes(r)
  <2>1. PICK new : new = ScheduleRetry(req[r])
    OBVIOUS
  <2>2. new.since = req[r].since /\ new.result = req[r].result
    BY <1>3, <2>1, ScheduleRetryEffect
  <2>3. Moves(r, new)
    BY <1>2, <1>4, <1>6, <2>1 DEF Moves
  <2> QED
    BY <2>2, <2>3 DEF Goes
<1>7. CASE HandleTransportFailure(r)
  <2>1. /\ output' = output
        /\ \/ req' = [req EXCEPT ![r] = Finish(req[r], "IoError")]
           \/ req' = [req EXCEPT ![r] = ScheduleRetry(req[r])]
           \/ req' = [req EXCEPT ![r] = Finish(req[r], "NetworkError")]
    BY <1>7 DEF HandleTransportFailure
  <2> QED
    BY <2>1, <1>5, <1>6
<1>8. CASE HandleHttpFailure(r)
  <2>1. /\ output' = output
        /\ \/ req' = [req EXCEPT ![r] = ScheduleRetry(req[r])]
           \/ req' = [req EXCEPT ![r] = Finish(req[r], "HttpError")]
    BY <1>8 DEF HandleHttpFailure
  <2> QED
    BY <2>1, <1>5, <1>6
<1>9. CASE req[r].code = "OK" /\ IsSuccess(req[r].status) /\ HandleHttpSuccess(r)
  <2>1. CASE req' = [req EXCEPT ![r] = Finish(@, "IoError")] /\ UNCHANGED <<part, output>>
    BY <2>1, <1>5
  <2>2. CASE /\ part # 0 /\ output' = part /\ part' = 0
             /\ req' = [req EXCEPT ![r] = Finish(@, "Ok")]
    <3>1. /\ req[r].served \in req[r].since..version
          /\ disk'[part] = Body(req[r].served)
      BY <1>1, <1>2, <1>9, ReceivedWhole
    <3> QED
      BY <1>2, <1>3, <2>2, <3>1 DEF Saves
  <2> QED
    BY <1>9, <2>1, <2>2 DEF HandleHttpSuccess
<1> QED
  BY <1>7, <1>8, <1>9 DEF OnAttemptDone

LEMMA CancelStep ==
  ASSUME FileInvariant, Sound, NEW r \in Requests, Cancel(r)
  PROVE  EndsBadly(r)
<1>1. PICK kept \in Kept(req[r]) : CloseFiles(req[r], kept)
  BY DEF Cancel
<1>2. req[r] \in Job /\ req[r].since # 0 /\ req[r].result = "none" /\ InFlight(r)
  BY InFlightSince DEF Cancel
<1>3. output # 0 => disk'[output] = disk[output]
  BY <1>1, <1>2, CloseKeepsOutput
<1>4. PICK new : new = Finish(req[r], "Cancelled")
  OBVIOUS
<1>5. new.since = req[r].since /\ new.result = "Cancelled"
  BY <1>2, <1>4, FinishEffect
<1>6. Moves(r, new)
  BY <1>3, <1>4 DEF Moves, Cancel
<1> QED
  BY <1>2, <1>5, <1>6 DEF EndsBadly, Result

\* Every step, by what it does to the file at the output path.
LEMMA StepEffect ==
  ASSUME FileInvariant, PartIsCurrent, Sound, [Next]_vars
  PROVE  \/ \E r \in Requests : Begins(r) \/ Goes(r) \/ EndsBadly(r) \/ Saves(r)
         \/ Kill \/ Publish \/ UNCHANGED vars
BY AnswerStep, BeginAttemptStep, WriteFileStep, CurlDoneStep, OnAttemptDoneStep, CancelStep
   DEF Next, AllOver

KillResult(r) == IF InFlight(r) THEN Finish(req[r], "killed") ELSE req[r]

LEMMA KillEffect ==
  ASSUME FileInvariant, Kill, NEW r \in Requests
  PROVE  /\ req'[r] = KillResult(r)
         /\ req'[r].since = req[r].since
         /\ InFlight(r) => /\ req'[r].result = "killed"
                           /\ req[r].since # 0 /\ req[r].result = "none"
         /\ ~InFlight(r) => req'[r].result = req[r].result
<1>1. req'[r] = KillResult(r)
  BY DEF Kill, KillResult
<1>2. CASE InFlight(r)
  <2>1. req[r] \in Job /\ req[r].since # 0 /\ req[r].result = "none"
    BY <1>2, InFlightSince DEF InFlight
  <2> QED
    BY <1>1, <1>2, <2>1, FinishEffect DEF KillResult
<1>3. CASE ~InFlight(r)
  BY <1>1, <1>3 DEF KillResult
<1> QED
  BY <1>1, <1>2, <1>3

LEMMA StepSavesBody ==
  ASSUME FileInvariant, PartIsCurrent, Sound, [Next]_vars, NEW q \in Requests,
         req[q].result # "Ok", req'[q].result = "Ok"
  PROVE  output' # 0 /\ disk'[output'] = Body(req[q].served)
<1>1. req \in [Requests -> Job]
  BY DEF FileInvariant, TypeOK
<1>2. ASSUME NEW r \in Requests, Begins(r) \/ Goes(r) \/ EndsBadly(r) PROVE FALSE
  <2>1. PICK new : /\ req' = [req EXCEPT ![r] = new]
                   /\ \/ new.result \in {"none", "NetworkError", "IoError"}
                      \/ new.result = req[r].result
                      \/ new.result \in Result \ {"none", "Ok"}
    BY <1>2 DEF Begins, Goes, EndsBadly, Moves
  <2> QED
    BY <1>1, <2>1
<1>3. ASSUME NEW r \in Requests, Saves(r)
      PROVE  output' # 0 /\ disk'[output'] = Body(req[q].served)
  <2>1. q = r
    BY <1>1, <1>3 DEF Saves
  <2> QED
    BY <1>3, <2>1 DEF Saves
<1>4. ~Kill /\ ~Publish /\ ~UNCHANGED vars
  <2>1. ~Kill
    BY KillEffect
  <2> QED
    BY <2>1 DEF Publish, vars
<1> QED
  BY <1>2, <1>3, <1>4, StepEffect

\* When a request reports Ok, the file at its output path is the version it was
\* answered with (FinalizeDownload before Finish).
THEOREM SavesBodyHolds ==
  ASSUME Sound PROVE Spec => SavesBody
<1> DEFINE SavedBy(r) == req[r].result # "Ok" /\ req'[r].result = "Ok" =>
                         output' # 0 /\ disk'[output'] = Body(req[r].served)
<1>1. DownloadInvariant /\ [Next]_vars => \A r \in Requests : SavedBy(r)
  BY StepSavesBody DEF DownloadInvariant
<1>2. DownloadInvariant /\ [Next]_vars => [\A r \in Requests : SavedBy(r)]_vars
  BY <1>1
<1> QED
  BY <1>2, DownloadInvariantHolds, PTL DEF Spec, SavesBody

----------------------------------------------------------------------------
(* Refinement *)

SavedStep == [Saved!SavedNext]_(Saved!savedVars)

Ended(result) ==
  CASE result = "none" -> "no" [] result = "Ok" -> "well" [] OTHER -> "badly"

LEMMA EndedValues ==
  /\ Ended("none") = "no" /\ Ended("Ok") = "well"
  /\ \A result \in Result \ {"none", "Ok"} : Ended(result) = "badly"
BY DEF Ended, Result

Sinces == [r \in Requests |-> req[r].since]
Endings == [r \in Requests |-> Ended(req[r].result)]
AtOutput == IF output = 0 THEN Nothing ELSE disk[output]

LEMMA SavedInitHolds == Init => Saved!SavedInit
<1> SUFFICES ASSUME Init PROVE Saved!SavedInit
  OBVIOUS
<1>1. req = [r \in Requests |-> FreshJob] /\ output = 0 /\ version = 1
  BY DEF Init
<1>2. FreshJob.since = 0 /\ FreshJob.result = "none"
  BY DEF FreshJob
<1> QED
  BY <1>1, <1>2 DEF Saved!SavedInit

LEMMA SavedStepHolds ==
  ASSUME FileInvariant, PartIsCurrent, Sound, [Next]_vars
  PROVE  SavedStep
<1>1. req \in [Requests -> Job]
  BY DEF FileInvariant, TypeOK
<1>2. ASSUME UNCHANGED <<version, AtOutput, Sinces, Endings>>
      PROVE  SavedStep
  BY <1>2 DEF SavedStep, Saved!savedVars, AtOutput, Sinces, Endings, Ended
<1>3. ASSUME NEW r \in Requests, NEW new, Moves(r, new), new.since = req[r].since
      PROVE  UNCHANGED <<version, AtOutput, Sinces>>
  BY <1>1, <1>3 DEF Moves, AtOutput, Sinces
<1>4. ASSUME NEW r \in Requests, NEW new, Moves(r, new)
      PROVE  /\ Endings' = [Endings EXCEPT ![r] = Ended(new.result)]
             /\ Sinces' = [Sinces EXCEPT ![r] = new.since]
             /\ UNCHANGED <<version, AtOutput>>
  BY <1>1, <1>4 DEF Moves, Endings, Sinces, AtOutput
<1>5. ASSUME NEW r \in Requests, Goes(r) PROVE SavedStep
  <2>1. PICK new : Moves(r, new) /\ new.since = req[r].since /\ new.result = req[r].result
    BY <1>5 DEF Goes
  <2>2. Endings' = [Endings EXCEPT ![r] = Ended(new.result)]
    BY <1>4, <2>1
  <2>3. Endings[r] = Ended(new.result)
    BY <2>1 DEF Endings
  <2>4. Endings' = Endings
    BY <2>2, <2>3 DEF Endings
  <2> QED
    BY <1>2, <1>3, <2>1, <2>4
<1>6. ASSUME NEW r \in Requests, Begins(r) PROVE SavedStep
  <2>1. PICK new : /\ Moves(r, new) /\ req[r].since = 0 /\ req[r].result = "none"
                   /\ new.since = version
                   /\ new.result \in {"none", "NetworkError", "IoError"}
    BY <1>6 DEF Begins
  <2>2. /\ Endings' = [Endings EXCEPT ![r] = Ended(new.result)]
        /\ Sinces' = [Sinces EXCEPT ![r] = version]
        /\ UNCHANGED <<version, AtOutput>> /\ Sinces[r] = 0
    BY <1>4, <2>1 DEF Sinces
  <2>3. PICK end \in {"no", "badly"} : end = Ended(new.result)
    BY <2>1, EndedValues DEF Result
  <2>4. Saved!Request(r)
    BY <2>2, <2>3 DEF Saved!Request, Endings, Sinces, AtOutput, Ended
  <2> QED
    BY <2>4 DEF SavedStep, Saved!SavedNext
<1>7. ASSUME NEW R \in SUBSET Requests,
             \A r \in R : Sinces[r] # 0 /\ Endings[r] = "no",
             Endings' = [r \in Requests |-> IF r \in R THEN "badly" ELSE Endings[r]],
             UNCHANGED <<version, AtOutput, Sinces>>
      PROVE  SavedStep
  <2>1. Saved!Fail(R)
    BY <1>7 DEF Saved!Fail, Endings, Sinces, AtOutput, Ended
  <2> QED
    BY <2>1 DEF SavedStep, Saved!SavedNext
<1>8. ASSUME NEW r \in Requests, EndsBadly(r) PROVE SavedStep
  <2>1. PICK new : /\ Moves(r, new) /\ new.since = req[r].since
                   /\ req[r].since # 0 /\ req[r].result = "none"
                   /\ new.result \in Result \ {"none", "Ok"}
    BY <1>8 DEF EndsBadly
  <2>2. /\ Endings' = [Endings EXCEPT ![r] = "badly"]
        /\ UNCHANGED <<version, AtOutput, Sinces>>
    BY <1>3, <1>4, <2>1, EndedValues
  <2>3. Sinces[r] # 0 /\ Endings[r] = "no"
    BY <2>1, EndedValues DEF Sinces, Endings
  <2>4. Endings' = [q \in Requests |-> IF q \in {r} THEN "badly" ELSE Endings[q]]
    BY <2>2 DEF Endings
  <2> QED
    BY <1>7, <2>2, <2>3, <2>4
<1>9. ASSUME NEW r \in Requests, Saves(r) PROVE SavedStep
  <2>1. /\ req' = [req EXCEPT ![r] = Finish(req[r], "Ok")]
        /\ req[r].since # 0 /\ req[r].result = "none"
        /\ version' = version /\ output' # 0
        /\ req[r].served \in req[r].since..version
        /\ disk'[output'] = Body(req[r].served)
    BY <1>9 DEF Saves
  <2>2. Finish(req[r], "Ok").since = req[r].since /\ Finish(req[r], "Ok").result = "Ok"
    BY <1>1, FinishEffect
  <2>3. Sinces' = Sinces /\ Endings' = [Endings EXCEPT ![r] = "well"]
    BY <1>1, <2>1, <2>2, EndedValues DEF Sinces, Endings
  <2>4. Sinces[r] = req[r].since /\ Endings[r] = "no"
    BY <2>1, EndedValues DEF Sinces, Endings
  <2>5. AtOutput' = Body(req[r].served)
    BY <2>1 DEF AtOutput, Body, Prefix
  <2>6. Saved!Save(r)
    BY <2>1, <2>3, <2>4, <2>5 DEF Saved!Save, Endings, Sinces, AtOutput, Ended
  <2> QED
    BY <2>6 DEF SavedStep, Saved!SavedNext
<1>10. ASSUME Kill PROVE SavedStep
  <2> DEFINE R == {r \in Requests : InFlight(r)}
  <2>1. UNCHANGED <<version, AtOutput>>
    BY <1>10 DEF Kill, AtOutput
  <2>2. Sinces' = Sinces
    BY <1>10, KillEffect DEF Sinces
  <2>3. \A r \in R : Sinces[r] # 0 /\ Endings[r] = "no"
    BY <1>10, KillEffect, EndedValues DEF Sinces, Endings
  <2>4. Endings' = [r \in Requests |-> IF r \in R THEN "badly" ELSE Endings[r]]
    <3>1. ASSUME NEW r \in Requests
          PROVE  Ended(req'[r].result) = IF r \in R THEN "badly" ELSE Ended(req[r].result)
      BY <1>10, KillEffect, EndedValues DEF Result
    <3> QED
      BY <3>1 DEF Endings
  <2> QED
    BY <1>7, <2>1, <2>2, <2>3, <2>4
<1>11. ASSUME Publish PROVE SavedStep
  <2>1. Saved!Renew
    BY <1>11 DEF Publish, Saved!Renew
  <2> QED
    BY <2>1 DEF SavedStep, Saved!SavedNext
<1>12. ASSUME UNCHANGED vars PROVE SavedStep
  BY <1>2, <1>12 DEF vars, AtOutput, Sinces, Endings
<1> QED
  BY <1>5, <1>6, <1>8, <1>9, <1>10, <1>11, <1>12, StepEffect

\* Saving a file over attempts, restarts and a changing resource is, seen from
\* the output path, one step that replaces the file by a version that was
\* current while the request ran.
THEOREM DownloadImplementsSavedFile ==
  ASSUME Sound PROVE Spec => ImplementsSavedFile
<1>1. DownloadInvariant /\ [Next]_vars => SavedStep
  BY SavedStepHolds DEF DownloadInvariant
<1> QED
  BY <1>1, SavedInitHolds, DownloadInvariantHolds, PTL
  DEF Spec, ImplementsSavedFile, Saved!SavedSpec, SavedStep
=============================================================================
