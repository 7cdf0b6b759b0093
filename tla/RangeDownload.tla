---------------------------- MODULE RangeDownload ----------------------------
(***************************************************************************)
(* A download into one local file: runDownloadTask and handleTaskResult    *)
(* (task.go), Download (download.go) and downloadRange with its progress   *)
(* sidecar (range_download.go), through retries, pauses, crashes and       *)
(* downloads of the same object to the same path again.                    *)
(*                                                                         *)
(* The file has its full size from the start, so what was transferred is   *)
(* known from the sidecar alone: a text file with one line, a segment's    *)
(* offset in decimal, per finished segment.  A line that was only partly   *)
(* written stays at the end of the text (tail) and is read like any other. *)
(* Offsets are counted in units of data; the object does not change.       *)
(***************************************************************************)
EXTENDS PartSizing, FiniteSets

CONSTANTS
    ObjectSizes,              \* sizes the object may have
    Concurrency,              \* DefaultPartConcurrency
    Overrides,                \* segment sizes the user may ask for
    Radix,                    \* base in which offsets are written: 10
    FileDeletions,            \* whether the user may delete the local file
    MaxTorn, MaxCalls, MaxCrashes   \* bounds on torn lines, user calls and crashes

ASSUME DownloadAssumption ==
    /\ ObjectSizes \subseteq Positive
    /\ Concurrency \in Positive
    /\ Overrides \subseteq Int
    /\ Radix \in Nat \ {0, 1}
    /\ FileDeletions \in BOOLEAN
    /\ MaxTorn \in Nat /\ MaxCalls \in Nat /\ MaxCrashes \in Nat

NoLine == -1                  \* the sidecar ends with a whole line
Junk == -2                    \* it ends with a torn line that is no segment's offset

VARIABLES
    totalBytes, partSizeOverride, status,
    written,                  \* the units of the local file that hold the object's data
    lines, tail,              \* the sidecar: its whole lines' offsets, and a torn last line
    \* the running attempt
    pc, segmentSize,
    segments,                 \* planned and not yet given to a worker
    fetching, fetched,        \* the workers' segments: being read, and written but not recorded
    err,                      \* the attempt's first error: "none", "failed" or "canceled"
    canceled,
    \* history: the sidecar was used for another layout or for a file it does not describe, or
    \* what a torn line left in it was read as a segment that was not the line's
    recordedSize, spoiled,
    torn, calls, crashes

sidecar == <<lines, tail>>
attempt == <<pc, segmentSize, segments, fetching, fetched, err, canceled>>
bounds == <<torn, calls, crashes>>
vars == <<totalBytes, partSizeOverride, status, written, sidecar, attempt, recordedSize, spoiled,
          bounds>>

Units == 1 .. totalBytes
Offsets == 0 .. totalBytes - 1
Workers == fetching \cup fetched
End(o) == IF o + segmentSize < totalBytes THEN o + segmentSize ELSE totalBytes

\* readCompletedSegmentOffsets
Completed == lines \cup (IF tail >= 0 THEN {tail} ELSE {})

\* planDownloadSegments' layout, before the completed segments are dropped.
Layout(size) == {(n - 1) * size : n \in 1 .. PartCount(totalBytes, size)}

TypeOK ==
    /\ totalBytes \in ObjectSizes
    /\ partSizeOverride \in {0} \cup partSizeOverrideMin .. partSizeOverrideMax
    /\ status \in {"pending", "running", "paused", "failed", "completed", "cancelled"}
    /\ written \subseteq Units
    /\ lines \subseteq Offsets /\ tail \in Offsets \cup {NoLine, Junk}
    /\ pc \in {"idle", "head", "plan", "run", "close", "result"}
    /\ segmentSize \in Nat
    /\ segments \subseteq Offsets /\ fetching \subseteq Offsets /\ fetched \subseteq Offsets
    /\ segments \cap Workers = {} /\ fetching \cap fetched = {}
    /\ Cardinality(Workers) <= Concurrency
    /\ err \in {"none", "failed", "canceled"} /\ canceled \in BOOLEAN
    /\ recordedSize \in Nat /\ spoiled \in BOOLEAN
    /\ torn \in 0 .. MaxTorn /\ calls \in 0 .. MaxCalls /\ crashes \in 0 .. MaxCrashes

NoAttempt ==
    /\ pc' = "idle" /\ segmentSize' = 0 /\ segments' = {} /\ fetching' = {} /\ fetched' = {}
    /\ err' = "none" /\ canceled' = FALSE

\* QueueDownload has just created the task; nothing was downloaded to its path.
Init ==
    /\ totalBytes \in ObjectSizes /\ partSizeOverride = 0
    /\ status = "pending" /\ written = {} /\ lines = {} /\ tail = NoLine
    /\ pc = "idle" /\ segmentSize = 0 /\ segments = {} /\ fetching = {} /\ fetched = {}
    /\ err = "none" /\ canceled = FALSE
    /\ recordedSize = 0 /\ spoiled = FALSE
    /\ torn = 0 /\ calls = 0 /\ crashes = 0

-----------------------------------------------------------------------------
(* The attempt *)

\* The error a request or a worker may return.
Errors == IF canceled THEN {"failed", "canceled"} ELSE {"failed"}

Start ==
    /\ pc = "idle" /\ status = "pending"
    /\ status' = "running" /\ pc' = "head"
    /\ UNCHANGED <<totalBytes, partSizeOverride, written, sidecar, segmentSize, segments, fetching,
                   fetched, err, canceled, recordedSize, spoiled, bounds>>

AttemptUnchanged == <<totalBytes, partSizeOverride, status, canceled, calls, crashes>>

\* headObject, twice; also the failures of runTask before it and of the file system after it.
HeadObject ==
    /\ pc = "head"
    /\ \/ pc' = "plan" /\ UNCHANGED err
       \/ pc' = "result" /\ err' \in Errors
    /\ UNCHANGED <<written, sidecar, segmentSize, segments, fetching, fetched, recordedSize,
                   spoiled, torn, AttemptUnchanged>>

\* removeProgressSidecar, whose failure is ignored.
RemoveSidecar == (lines' = {} /\ tail' = NoLine) \/ UNCHANGED sidecar

\* A fault: a resumed download plans every segment.
PlanIgnoringSidecar ==
    /\ pc = "plan"
    /\ segmentSize' = EffectivePartSize(totalBytes, partSizeOverride)
    /\ segments' = Layout(segmentSize') /\ pc' = "run"
    /\ recordedSize' = segmentSize'
    /\ UNCHANGED <<written, sidecar, fetching, fetched, err, spoiled, torn, AttemptUnchanged>>

\* The sidecar is read, the file is given its full size, the segments that are not
\* recorded are planned; when there are none, the file is taken as complete.
Plan ==
    /\ pc = "plan"
    /\ segmentSize' = EffectivePartSize(totalBytes, partSizeOverride)
    /\ segments' = Layout(segmentSize') \ Completed
    /\ IF segments' = {} THEN pc' = "result" /\ RemoveSidecar
                         ELSE pc' = "run" /\ UNCHANGED sidecar
    /\ recordedSize' = segmentSize'
    /\ spoiled' = (spoiled \/ (Completed # {} /\ recordedSize # segmentSize'))
    /\ UNCHANGED <<written, fetching, fetched, err, torn, AttemptUnchanged>>

\* The next segment is given to a free worker; after an error the workers do nothing.
Launch ==
    /\ pc = "run" /\ err = "none" /\ Cardinality(Workers) < Concurrency
    /\ \E o \in segments :
         /\ \A p \in segments : o <= p
         /\ segments' = segments \ {o}
         /\ fetching' = fetching \cup {o}
    /\ UNCHANGED <<written, sidecar, pc, segmentSize, fetched, err, recordedSize, spoiled, torn,
                   AttemptUnchanged>>

\* downloadSegment: an attempt of WithRetry breaks off after some of the data ...
FetchPartly(o) ==
    /\ o \in fetching
    /\ \E k \in o + 1 .. End(o) - 1 : written' = written \cup (o + 1 .. k)
    /\ UNCHANGED <<sidecar, pc, segmentSize, segments, fetching, fetched, err, recordedSize,
                   spoiled, torn, AttemptUnchanged>>

\* A fault: a segment counts as done although the answer was short.
FetchShort(o) ==
    /\ o \in fetching
    /\ \E k \in o + 1 .. End(o) : written' = written \cup (o + 1 .. k)
    /\ fetching' = fetching \ {o} /\ fetched' = fetched \cup {o}
    /\ UNCHANGED <<sidecar, pc, segmentSize, segments, err, recordedSize, spoiled, torn,
                   AttemptUnchanged>>

\* ... or writes the whole segment ...
Fetch(o) ==
    /\ o \in fetching
    /\ written' = written \cup (o + 1 .. End(o))
    /\ fetching' = fetching \ {o} /\ fetched' = fetched \cup {o}
    /\ UNCHANGED <<sidecar, pc, segmentSize, segments, err, recordedSize, spoiled, torn,
                   AttemptUnchanged>>

Fail(errors) == err' \in IF err = "none" THEN errors ELSE {err}

\* ... or fails for good, which stops the other workers.
SegmentFails(o) ==
    /\ o \in fetching
    /\ fetching' = fetching \ {o}
    /\ Fail(Errors)
    /\ UNCHANGED <<written, sidecar, pc, segmentSize, segments, fetched, recordedSize, spoiled,
                   torn, AttemptUnchanged>>

\* The offsets read from the line of o when it is written behind the torn line.
Joined(o) ==
    IF tail = NoLine \/ tail = 0 THEN {o}
    ELSE IF o = 0 /\ tail > 0 /\ tail * Radix < totalBytes THEN {tail * Radix} ELSE {}

\* recordCompleted
Record(o) ==
    /\ o \in fetched
    /\ lines' = lines \cup Joined(o) /\ tail' = NoLine
    /\ spoiled' = (spoiled \/ Joined(o) \ {o} # {})
    /\ fetched' = fetched \ {o}
    /\ UNCHANGED <<written, pc, segmentSize, segments, fetching, err, recordedSize, torn,
                   AttemptUnchanged>>

\* What remains of the line of o when its end is missing: only the line break, or
\* digits too, which leaves the offset it is a multiple of, if any, or no offset at all.
Remains(o) == {o} \cup {p \in Offsets \ {0} : \E digits \in 1 .. o : p * Radix^digits = o}

\* recordCompleted writes a part of the line and fails.
RecordTorn(o) ==
    /\ o \in fetched /\ torn < MaxTorn
    /\ torn' = torn + 1
    /\ tail' \in {Junk} \cup UNION {Joined(p) : p \in Remains(o)}
    /\ spoiled' = (spoiled \/ tail' \notin {Junk, o})
    /\ fetched' = fetched \ {o}
    /\ Fail({"failed"})
    /\ UNCHANGED <<written, lines, pc, segmentSize, segments, fetching, recordedSize,
                   AttemptUnchanged>>

\* A fault: after an error the attempt still waits for every segment to be taken.
WaitForWorkersOnly ==
    /\ pc = "run" /\ Workers = {} /\ segments = {}
    /\ pc' = IF err = "none" THEN "close" ELSE "result"
    /\ UNCHANGED <<written, sidecar, segmentSize, segments, fetching, fetched, err, recordedSize,
                   spoiled, torn, AttemptUnchanged>>

\* group.Wait
Wait ==
    /\ pc = "run" /\ Workers = {} /\ (err # "none" \/ segments = {})
    /\ pc' = IF err = "none" THEN "close" ELSE "result"
    /\ UNCHANGED <<written, sidecar, segmentSize, segments, fetching, fetched, err, recordedSize,
                   spoiled, torn, AttemptUnchanged>>

\* The sidecar is closed, which may fail, and removed.
CloseSidecar ==
    /\ pc = "close"
    /\ \/ UNCHANGED err /\ RemoveSidecar
       \/ err' = "failed" /\ UNCHANGED sidecar
    /\ pc' = "result"
    /\ UNCHANGED <<written, segmentSize, segments, fetching, fetched, recordedSize, spoiled, torn,
                   AttemptUnchanged>>

\* handleTaskResult; whether a canceled attempt was paused or cancelled is the
\* subject of TransferService.
HandleResult ==
    /\ pc = "result"
    /\ status' \in CASE err = "none" -> {"completed"}
                     [] err = "failed" -> {"failed"}
                     [] err = "canceled" -> {"paused", "cancelled"}
    /\ NoAttempt
    /\ UNCHANGED <<totalBytes, partSizeOverride, written, sidecar, recordedSize, spoiled, bounds>>

Attempt ==
    \/ HeadObject \/ Plan \/ Launch
    \/ \E o \in Offsets : FetchPartly(o) \/ Fetch(o) \/ SegmentFails(o) \/ Record(o) \/ RecordTorn(o)
    \/ Wait \/ CloseSidecar \/ HandleResult

-----------------------------------------------------------------------------
(* The user's calls and the death of the process *)

Call(from, to) ==
    /\ status \in from /\ calls < MaxCalls
    /\ calls' = calls + 1
    /\ status' = to
    /\ UNCHANGED <<totalBytes, partSizeOverride, written, sidecar, attempt, recordedSize, spoiled,
                   torn, crashes>>

ResumeTask == Call({"paused"}, "pending")
RetryTask == Call({"failed"}, "pending")
\* The user downloads the object to the same path again; the old task is in the history.
QueueDownload == Call({"completed", "cancelled"}, "pending")

\* PauseTask or CancelTask of the running task cancels its context.
Stop ==
    /\ pc # "idle" /\ ~canceled /\ calls < MaxCalls
    /\ calls' = calls + 1
    /\ canceled' = TRUE
    /\ UNCHANGED <<totalBytes, partSizeOverride, status, written, sidecar, pc, segmentSize,
                   segments, fetching, fetched, err, recordedSize, spoiled, torn, crashes>>

SetPartSizeOverrideMB(mb) ==
    /\ calls < MaxCalls /\ calls' = calls + 1
    /\ partSizeOverride' = ClampOverride(mb)
    /\ UNCHANGED <<totalBytes, status, written, sidecar, attempt, recordedSize, spoiled, torn,
                   crashes>>

\* The user deletes the local file, and not the sidecar beside it.
DeleteLocalFile ==
    /\ FileDeletions /\ pc = "idle"
    /\ written # {}
    /\ written' = {}
    /\ spoiled' = (spoiled \/ Completed # {})
    /\ UNCHANGED <<totalBytes, partSizeOverride, status, sidecar, attempt, recordedSize, bounds>>

\* The process dies, what was written remains, and RecoverOrphanedTasks pauses the row.
Crash ==
    /\ crashes < MaxCrashes /\ crashes' = crashes + 1
    /\ status' = IF status = "running" THEN "paused" ELSE status
    /\ NoAttempt
    /\ UNCHANGED <<totalBytes, partSizeOverride, written, sidecar, recordedSize, spoiled, torn,
                   calls>>

User ==
    \/ ResumeTask \/ RetryTask \/ QueueDownload \/ Stop \/ DeleteLocalFile
    \/ \E mb \in Overrides : SetPartSizeOverrideMB(mb)

Next == Start \/ Attempt \/ User \/ Crash

\* A worker's segment is in the end written or given up: WithRetry makes a limited
\* number of attempts.
Completes(o) == Fetch(o) \/ SegmentFails(o) \/ Record(o)

Fairness ==
    /\ WF_vars(HeadObject \/ Plan \/ Launch \/ Wait \/ CloseSidecar \/ HandleResult)
    /\ WF_vars(\E o \in Offsets : Completes(o))

Spec == Init /\ [][Next]_vars
FairSpec == Spec /\ Fairness

-----------------------------------------------------------------------------
(* Properties *)

Succeeded == pc = "result" /\ err = "none"

\* A download that succeeds leaves the whole object in the file, whatever failed,
\* stopped or died before it, as long as the sidecar it resumed from described this
\* file and this layout and no torn line in it named another segment.
FileIsObject == Succeeded /\ ~spoiled => written = Units

\* The same without the condition, as the comment of progressSidecarSuffix has it:
\* no segment is left as a hole of zero bytes.
ResumedFileIsObject == Succeeded => written = Units

\* What was recorded is not forgotten before the file is complete.
ProgressKept == [][lines \subseteq lines' \/ spoiled' \/ written = Units]_vars

\* A resumed download does not read again a segment that was recorded.
NoSegmentTwice == [][(fetching' \ fetching) \cap lines = {} \/ spoiled]_vars

\* An attempt that runs comes to its end, whatever fails.
AttemptReturns == (pc # "idle") ~> (pc = "idle")

=============================================================================
