------------------------- MODULE CrossConnectionCopy -------------------------
(***************************************************************************)
(* A copy or move of one object between two connections, a "copy_cross"    *)
(* task: QueueCopyBetweenProfiles (service.go), runCrossConnectionCopyTask *)
(* (cross_connection_copy.go) with the Download and Upload it is made of,  *)
(* handleTaskResult (task.go) and the user's calls (service.go).           *)
(*                                                                         *)
(* The source object is downloaded into a staging file, which is uploaded  *)
(* to the destination; a move deletes the source at the end.  Segments and *)
(* parts are one unit of data here (RangeDownload and MultipartUpload have *)
(* their layouts and their workers), and they are transferred one by one.  *)
(*                                                                         *)
(* The stores are external.  What an object holds is the version each of   *)
(* its units was taken from: somebody may replace the source meanwhile.    *)
(***************************************************************************)
EXTENDS Naturals, Sequences

CONSTANTS
    Sizes,                    \* sizes an object may have, in units
    singlePutThreshold,       \* the largest size that is sent in one request
    MaxReplaces,              \* bound on replacements of the source
    MaxUploads,               \* bound on multipart uploads ever created
    MaxFaults, MaxCalls, MaxCrashes   \* bounds on failures, user calls and crashes

\* What the constants must be.
CrossCopyAssumption ==
    /\ Sizes \subseteq Nat \ {0}
    /\ singlePutThreshold \in Nat
    /\ MaxReplaces \in Nat /\ MaxUploads \in Nat
    /\ MaxFaults \in Nat /\ MaxCalls \in Nat /\ MaxCrashes \in Nat

Gone == 0                     \* the version of a source that was deleted
Versions == 1 .. MaxReplaces + 1
Uploads == 1 .. MaxUploads
NoUpload == 0
None == <<>>                  \* no object, no file
Hole == 0                     \* a unit of the staging file that was not written

VARIABLES
    \* the two stores: the source's version and the sizes of its versions, the
    \* destination object, its multipart uploads and their parts
    source, size, dest, upload, parts,
    \* the transfer_queue row, or what became of it
    status, totalBytes, isMove, multipartUploadID,
    \* the staging file and the offsets its progress sidecar records
    staging, sidecar,
    \* the running attempt
    pc, uploadID, partETags, err, intent, canceled,
    \* history: the version that was queued; some attempt has staged the whole object;
    \* a running task was cancelled
    queued, staged, cancelAsked,
    faults, calls, crashes

stores == <<source, size, dest, upload, parts>>
row == <<status, totalBytes, isMove, multipartUploadID>>
files == <<staging, sidecar>>
attempt == <<pc, uploadID, partETags, err, intent, canceled>>
bounds == <<faults, calls, crashes>>
history == <<queued, staged, cancelAsked>>
vars == <<stores, row, files, attempt, history, bounds>>

\* A whole copy of a version of the source.
Copy(v) == [n \in 1 .. size[v] |-> v]
InQueue == status \notin {"none", "completed", "cancelled"}
Open(u) == u # NoUpload /\ upload[u] = "open"

TypeOK ==
    /\ source \in Versions \cup {Gone}
    /\ size \in [Versions -> Sizes]
    /\ dest \in Seq(Versions \cup {Hole}) /\ Len(dest) \in Sizes \cup {0}
    /\ upload \in [Uploads -> {"none", "open", "completed", "aborted"}]
    /\ \A u \in Uploads : \A n \in DOMAIN parts[u] : parts[u][n] \in Versions \cup {Hole}
    /\ status \in {"none", "pending", "running", "paused", "failed", "completed", "cancelled"}
    /\ totalBytes \in Sizes \cup {0} /\ isMove \in BOOLEAN
    /\ multipartUploadID \in Uploads \cup {NoUpload}
    /\ staging \in Seq(Versions \cup {Hole}) /\ sidecar \subseteq Nat
    /\ pc \in {"idle", "head", "fetch", "put", "create", "persist", "list", "parts", "complete",
               "unstage", "delete", "result", "abort", "archive"}
    /\ uploadID \in Uploads \cup {NoUpload}
    /\ err \in {"none", "failed", "canceled"}
    /\ intent \in {"none", "pause", "cancel"} /\ canceled \in BOOLEAN
    /\ faults \in 0 .. MaxFaults /\ calls \in 0 .. MaxCalls /\ crashes \in 0 .. MaxCrashes

NoAttempt ==
    /\ pc' = "idle" /\ uploadID' = NoUpload /\ partETags' = None
    /\ err' = "none" /\ intent' = "none" /\ canceled' = FALSE

Init ==
    /\ source = 1 /\ size \in [Versions -> Sizes]
    /\ dest = None
    /\ upload = [u \in Uploads |-> "none"] /\ parts = [u \in Uploads |-> None]
    /\ status = "none" /\ totalBytes = 0 /\ isMove = FALSE /\ multipartUploadID = NoUpload
    /\ staging = None /\ sidecar = {}
    /\ pc = "idle" /\ uploadID = NoUpload /\ partETags = None
    /\ err = "none" /\ intent = "none" /\ canceled = FALSE
    /\ queued = Gone /\ staged = FALSE /\ cancelAsked = FALSE
    /\ faults = 0 /\ calls = 0 /\ crashes = 0

-----------------------------------------------------------------------------
(* What may go wrong *)

\* The outcomes of a request that is not answered, which counts as a fault, or is
\* refused, which does not; a canceled context also ends it.
Errors(refused) ==
    (IF refused \/ faults < MaxFaults THEN {"failed"} ELSE {})
        \cup (IF canceled THEN {"canceled"} ELSE {})

Ends(refused) ==
    /\ err' \in Errors(refused)
    /\ faults' = IF err' = "failed" /\ ~refused THEN faults + 1 ELSE faults
    /\ pc' = "result"

AttemptUnchanged == <<row, intent, canceled, queued, cancelAsked, calls, crashes>>

-----------------------------------------------------------------------------
(* The first half: Download *)

\* QueueCopyBetweenProfiles: the size is taken from a HeadObject.
QueueCopyBetweenProfiles(move) ==
    /\ status = "none" /\ source # Gone
    /\ status' = "pending" /\ totalBytes' = size[source] /\ isMove' = move
    /\ queued' = source
    /\ UNCHANGED <<stores, multipartUploadID, files, attempt, staged, cancelAsked, bounds>>

\* runTask up to the first request; the row it has may not be older than the attempt
\* before, which wrote the upload id (MultipartUpload has the row that is).
Start ==
    /\ status = "pending" /\ pc = "idle"
    /\ status' = "running" /\ pc' = "head" /\ uploadID' = multipartUploadID
    /\ UNCHANGED <<stores, totalBytes, isMove, multipartUploadID, files, partETags, err, intent,
                   canceled, history, bounds>>

Resized(f, n) == [i \in 1 .. n |-> IF i <= Len(f) THEN f[i] ELSE Hole]

AfterDownload ==
    IF totalBytes <= singlePutThreshold THEN "put"
    ELSE IF multipartUploadID = NoUpload THEN "create" ELSE "list"

\* headObject, and downloadRange before its first segment: the staging file gets the
\* size the source has now; when the sidecar has all its segments, it is complete.
HeadObject ==
    /\ pc = "head" /\ source # Gone
    /\ staging' = Resized(staging, size[source])
    /\ IF DOMAIN staging' \subseteq sidecar
         THEN pc' = AfterDownload /\ sidecar' = {} /\ staged' = TRUE
         ELSE pc' = "fetch" /\ UNCHANGED <<sidecar, staged>>
    /\ UNCHANGED <<stores, uploadID, partETags, err, faults, AttemptUnchanged>>

\* downloadSegment and recordCompleted
DownloadSegment(n) ==
    /\ pc = "fetch" /\ n \in DOMAIN staging \ sidecar
    /\ source # Gone /\ n <= size[source]
    /\ staging' = [staging EXCEPT ![n] = source]
    /\ sidecar' = sidecar \cup {n}
    /\ UNCHANGED <<stores, pc, uploadID, partETags, err, staged, faults, AttemptUnchanged>>

\* All segments are there: the sidecar is removed.
DownloadDone ==
    /\ pc = "fetch" /\ DOMAIN staging \subseteq sidecar
    /\ sidecar' = {} /\ staged' = TRUE
    /\ pc' = AfterDownload
    /\ UNCHANGED <<stores, staging, uploadID, partETags, err, faults, AttemptUnchanged>>

\* The source is gone, or is shorter than it was, or a request fails.
DownloadFails ==
    /\ pc \in {"head", "fetch"}
    /\ Ends(\/ source = Gone
            \/ pc = "fetch" /\ \E n \in DOMAIN staging \ sidecar : n > size[source])
    /\ UNCHANGED <<stores, files, uploadID, partETags, staged, AttemptUnchanged>>

Download ==
    HeadObject \/ (\E n \in DOMAIN staging : DownloadSegment(n)) \/ DownloadDone \/ DownloadFails

-----------------------------------------------------------------------------
(* The second half: Upload, of the first totalBytes units of the staging file *)

UploadUnchanged == <<source, size, files, staged, AttemptUnchanged>>

\* uploadSingle: the request declares totalBytes and sends the whole file.
PutObject ==
    /\ pc = "put" /\ Len(staging) = totalBytes
    /\ dest' = staging
    /\ pc' = "unstage"
    /\ UNCHANGED <<upload, parts, uploadID, partETags, err, faults, UploadUnchanged>>

\* Of a file that has grown the declared length is sent, and then the request fails.
PutObjectTooLong ==
    /\ pc = "put" /\ Len(staging) > totalBytes
    /\ dest' \in {dest, SubSeq(staging, 1, totalBytes)}
    /\ Ends(TRUE)
    /\ UNCHANGED <<upload, parts, uploadID, partETags, UploadUnchanged>>

\* ensureMultipartUploadID
CreateMultipartUpload ==
    /\ pc = "create"
    /\ \E u \in Uploads :
         /\ upload[u] = "none" /\ \A v \in 1 .. u - 1 : upload[v] # "none"
         /\ upload' = [upload EXCEPT ![u] = "open"]
         /\ uploadID' = u
    /\ pc' = "persist"
    /\ UNCHANGED <<dest, parts, partETags, err, faults, UploadUnchanged>>

\* OnMultipartUploadIDAssigned
PersistUploadID ==
    /\ pc = "persist"
    /\ multipartUploadID' = uploadID /\ pc' = "parts"
    /\ UNCHANGED <<stores, status, totalBytes, isMove, files, uploadID, partETags, err, intent,
                   canceled, history, bounds>>

\* listCompletedParts
ListParts ==
    /\ pc = "list" /\ Open(uploadID)
    /\ partETags' = parts[uploadID] /\ pc' = "parts"
    /\ UNCHANGED <<dest, upload, parts, uploadID, err, faults, UploadUnchanged>>

\* uploadPart reads the part from the staging file.
UploadPart(n) ==
    /\ pc = "parts" /\ Open(uploadID)
    /\ n \in (1 .. totalBytes) \ DOMAIN partETags /\ n <= Len(staging)
    /\ partETags' = [m \in DOMAIN partETags \cup {n} |->
                       IF m = n THEN staging[n] ELSE partETags[m]]
    /\ parts' = [parts EXCEPT ![uploadID] = partETags']
    /\ UNCHANGED <<dest, upload, pc, uploadID, err, faults, UploadUnchanged>>

PartsDone ==
    /\ pc = "parts" /\ 1 .. totalBytes \subseteq DOMAIN partETags
    /\ pc' = "complete"
    /\ UNCHANGED <<stores, files, uploadID, partETags, err, staged, faults, AttemptUnchanged>>

\* completeMultipartUpload; the answer may be lost, and then the repeated request
\* finds no such upload.
CompleteMultipartUpload ==
    /\ pc = "complete" /\ Open(uploadID)
    /\ dest' = [n \in 1 .. totalBytes |-> partETags[n]]
    /\ upload' = [upload EXCEPT ![uploadID] = "completed"]
    /\ parts' = [parts EXCEPT ![uploadID] = None]
    /\ (pc' = "unstage" /\ UNCHANGED <<err, faults>>) \/ Ends(FALSE)
    /\ UNCHANGED <<uploadID, partETags, UploadUnchanged>>

\* The staging file is shorter than totalBytes, or the upload is not open.
UploadRefused ==
    \/ pc = "put" /\ Len(staging) < totalBytes
    \/ pc \in {"list", "parts", "complete"} /\ ~Open(uploadID)
    \/ pc = "parts" /\ \E n \in (1 .. totalBytes) \ DOMAIN partETags : n > Len(staging)

\* A fault: an upload that failed is taken for done.
UploadFailsUnnoticed ==
    /\ pc \in {"put", "create", "list", "parts", "complete"}
    /\ Errors(UploadRefused) # {}
    /\ pc' = "unstage"
    /\ UNCHANGED <<stores, files, uploadID, partETags, err, staged, faults, AttemptUnchanged>>

UploadFails ==
    /\ pc \in {"put", "create", "list", "parts", "complete"}
    /\ Ends(UploadRefused)
    /\ UNCHANGED <<stores, files, uploadID, partETags, staged, AttemptUnchanged>>

Upload ==
    \/ PutObject \/ PutObjectTooLong
    \/ CreateMultipartUpload \/ PersistUploadID \/ ListParts
    \/ (\E n \in 1 .. totalBytes : UploadPart(n)) \/ PartsDone
    \/ CompleteMultipartUpload \/ UploadFails

-----------------------------------------------------------------------------
(* The end *)

\* removeCrossConnectionTempFileBestEffort
RemoveStaging ==
    /\ pc = "unstage"
    /\ \/ staging' = None /\ UNCHANGED faults
       \/ faults < MaxFaults /\ faults' = faults + 1 /\ UNCHANGED staging
    /\ pc' = IF isMove THEN "delete" ELSE "result"
    /\ UNCHANGED <<stores, sidecar, uploadID, partETags, err, staged, AttemptUnchanged>>

\* deleteCrossConnectionSourceObject, which no cancel reaches; a failure, with or
\* without effect, is the task's.
DeleteSource ==
    /\ pc = "delete"
    /\ \/ source' = Gone /\ UNCHANGED <<err, faults>>
       \/ /\ faults < MaxFaults /\ faults' = faults + 1
          /\ source' \in {source, Gone} /\ err' = "failed"
    /\ pc' = "result"
    /\ UNCHANGED <<size, dest, upload, parts, files, uploadID, partETags, staged,
                   AttemptUnchanged>>

ResultUnchanged == <<totalBytes, isMove, multipartUploadID, files, history, calls, crashes>>

\* handleTaskResult, but for a cancelled task.
HandleResult ==
    /\ pc = "result"
    /\ \/ err = "none" /\ status' = "completed"
       \/ err = "failed" /\ status' = "failed"
       \/ err = "canceled" /\ intent # "cancel" /\ status' = "paused"
    /\ NoAttempt
    /\ UNCHANGED <<stores, faults, ResultUnchanged>>

CancelledResult ==
    /\ pc = "result" /\ err = "canceled" /\ intent = "cancel"
    /\ pc' = IF uploadID = NoUpload THEN "archive" ELSE "abort"
    /\ UNCHANGED <<stores, status, uploadID, partETags, err, intent, canceled, faults,
                   ResultUnchanged>>

\* AbortMultipartUpload at the destination, whose failure is only logged.
AbortUpload ==
    /\ pc = "abort"
    /\ \/ /\ upload' = [upload EXCEPT ![uploadID] = IF @ = "open" THEN "aborted" ELSE @]
          /\ parts' = [parts EXCEPT ![uploadID] = None]
          /\ UNCHANGED faults
       \/ faults < MaxFaults /\ faults' = faults + 1 /\ UNCHANGED <<upload, parts>>
    /\ pc' = "archive"
    /\ UNCHANGED <<source, size, dest, status, uploadID, partETags, err, intent, canceled,
                   ResultUnchanged>>

ArchiveCancelled ==
    /\ pc = "archive"
    /\ status' = "cancelled"
    /\ NoAttempt
    /\ UNCHANGED <<stores, faults, ResultUnchanged>>

End ==
    RemoveStaging \/ DeleteSource \/ HandleResult \/ CancelledResult \/ AbortUpload
        \/ ArchiveCancelled

-----------------------------------------------------------------------------
(* The user, somebody else at the source, and the death of the process *)

\* PauseTask and CancelTask of the running task.
Signal(what) ==
    /\ pc # "idle" /\ calls < MaxCalls
    /\ calls' = calls + 1
    /\ intent' = what /\ canceled' = TRUE
    /\ cancelAsked' = (cancelAsked \/ what = "cancel")
    /\ UNCHANGED <<stores, row, files, pc, uploadID, partETags, err, queued, staged, faults,
                   crashes>>

\* PauseTask of a task that is not running.
PauseTask ==
    /\ pc = "idle" /\ status = "pending" /\ calls < MaxCalls
    /\ calls' = calls + 1 /\ status' = "paused"
    /\ UNCHANGED <<stores, totalBytes, isMove, multipartUploadID, files, attempt, history, faults,
                   crashes>>

\* CancelTask of a task that is not running: abortOrphanedMultipartUpload returns at
\* once, because the task's type is not "upload".
CancelTask ==
    /\ pc = "idle" /\ status \in {"pending", "paused", "failed"} /\ calls < MaxCalls
    /\ calls' = calls + 1 /\ status' = "cancelled"
    /\ UNCHANGED <<stores, totalBytes, isMove, multipartUploadID, files, attempt, history, faults,
                   crashes>>

\* A fault: what failed cannot be retried.
ResumeOnly ==
    /\ status = "paused"
    /\ status' = "pending"
    /\ UNCHANGED <<stores, totalBytes, isMove, multipartUploadID, files, attempt, history, bounds>>

\* ResumeTask and RetryTask
MakePending ==
    /\ status \in {"paused", "failed"}
    /\ status' = "pending"
    /\ UNCHANGED <<stores, totalBytes, isMove, multipartUploadID, files, attempt, history, bounds>>

\* Somebody stores another object under the source's key.
Replace ==
    /\ source \in Versions /\ source + 1 \in Versions
    /\ source' = source + 1
    /\ UNCHANGED <<size, dest, upload, parts, row, files, attempt, history, bounds>>

\* RecoverOrphanedTasks pauses the row that was running.
Crash ==
    /\ crashes < MaxCrashes /\ crashes' = crashes + 1
    /\ status' = IF status = "running" THEN "paused" ELSE status
    /\ NoAttempt
    /\ UNCHANGED <<stores, totalBytes, isMove, multipartUploadID, files, history, faults, calls>>

User == Signal("pause") \/ Signal("cancel") \/ PauseTask \/ CancelTask \/ MakePending

Next ==
    \/ (\E move \in BOOLEAN : QueueCopyBetweenProfiles(move))
    \/ Start \/ Download \/ Upload \/ End \/ User \/ Replace \/ Crash

\* The attempt runs, and the user resumes or retries a task that rests.
Fairness == WF_vars(Start) /\ WF_vars(Download) /\ WF_vars(Upload) /\ WF_vars(End)
                /\ WF_vars(MakePending)

Spec == Init /\ [][Next]_vars
FairSpec == Spec /\ Fairness

-----------------------------------------------------------------------------
(* Properties *)

\* A source that is deleted has its whole copy at the destination, through every
\* pause, failure, retry and crash, if it is still the object that was queued ...
MoveKeepsObject == [][source' = Gone /\ source = queued => dest = Copy(source)]_vars

\* ... and whatever it is, as the comment of runCrossConnectionCopyTask has it: a
\* source is never lost while its copy is unconfirmed.
MoveNeverLosesObject == [][source' = Gone /\ source # Gone => dest = Copy(source)]_vars

\* A task recorded as completed has copied the object it was queued for, unless that
\* was replaced, and has deleted the source exactly when it was a move.
CompletedIsCopied ==
    status = "completed" =>
        /\ source = queued => dest = Copy(queued)
        /\ Len(dest) = totalBytes
        /\ isMove <=> source = Gone

\* A pause keeps the upload that the next attempt continues.
UploadKept ==
    [][\A u \in Uploads : upload[u] = "open" /\ upload'[u] = "aborted" => cancelAsked]_vars

\* Once staged, the object is not downloaded again: the staging file is kept until
\* the copy is complete, as the comment of runCrossConnectionCopyTask has it.
NothingDownloadedAgain == [][staged => pc' # "fetch"]_vars

\* A cancelled task leaves no upload of its own open at the destination.
CancelledUploadIsAborted == status = "cancelled" => ~Open(multipartUploadID)

\* A move that copied the object and failed to delete the source completes when it is
\* retried and nothing fails any more, as the comment of runCrossConnectionCopyTask
\* has it.
LeftoverSourceRecovers ==
    (status = "failed" /\ isMove /\ source # Gone /\ dest = Copy(source) /\ staging = None)
        ~> (status \in {"completed", "cancelled"})

\* Retries complete every task that failed for an object that is sent in one request,
\* unless its source was replaced, or was deleted by a request without an answer.
SmallRecovers ==
    (status = "failed" /\ totalBytes <= singlePutThreshold)
        ~> (status \in {"completed", "cancelled"} \/ source # queued)

\* An attempt of a copy comes to its end.
CopyReturns == (pc # "idle") ~> (pc = "idle")

=============================================================================
