--------------------------- MODULE MultipartUpload ---------------------------
(***************************************************************************)
(* One upload task and the object store: Upload (upload.go),               *)
(* uploadMultipart (multipart_upload.go), what runUploadTask and           *)
(* handleTaskResult (task.go) do with the upload id, and CancelTask's      *)
(* abort of an upload that is not running (service.go).                    *)
(*                                                                         *)
(* The task's attempts, each of them up to Concurrency part workers, run   *)
(* one at a time (TransferService shows that) and may be started from a    *)
(* queue row that was listed earlier.  A request either takes effect and   *)
(* is answered, takes effect and its answer is lost (WithRetry then sends  *)
(* it again), or fails for good; a canceled context makes it return        *)
(* context.Canceled.                                                       *)
(*                                                                         *)
(* The store is external: an open upload holds parts, completing it needs  *)
(* exactly the listed parts and closes it, and so does aborting it.        *)
(***************************************************************************)
EXTENDS PartSizing, FiniteSets

CONSTANTS
    FileSizes,                \* sizes the local file may have
    singlePutThreshold,
    Concurrency,              \* DefaultPartConcurrency
    Overrides,                \* part sizes the user may ask for
    MaxUploads,               \* bound on the multipart uploads ever created
    MaxLost, MaxCalls, MaxCrashes   \* bounds on lost answers, user calls and crashes

ASSUME UploadAssumption ==
    /\ FileSizes \subseteq Positive
    /\ singlePutThreshold \in Nat
    /\ Concurrency \in Positive
    /\ Overrides \subseteq Int
    /\ MaxUploads \in Nat /\ MaxLost \in Nat /\ MaxCalls \in Nat /\ MaxCrashes \in Nat

Uploads == 1 .. MaxUploads
NoUpload == 0

VARIABLES
    \* the local file and the setting
    totalBytes, partSizeOverride,
    \* the transfer_queue row; "completed" and "cancelled" rows are in the history
    status, multipartUploadID,
    \* the object store: state and parts of each upload, and the object's parts
    state, parts, object,
    \* the upload ids in the rows that dispatches have listed and not yet started
    listed,
    \* the running attempt
    pc,
    uploadID,             \* assignedUploadID
    partSize,
    partETags,            \* the parts known to be stored, with their content
    inflight,             \* the parts being uploaded
    err,                  \* the first error of the attempt: "none", "failed" or "canceled"
    intent, canceled,
    \* CancelTask of a task that does not run
    cpc, cuploadID,
    \* history: the attempts used one upload with two part sizes; CancelTask was called
    sizeOf, mixed, cancelAsked,
    lost, calls, crashes

store == <<state, parts, object>>
row == <<status, multipartUploadID>>
attempt == <<pc, uploadID, partSize, partETags, inflight, err, intent, canceled>>
cancelling == <<cpc, cuploadID>>
history == <<sizeOf, mixed, cancelAsked>>
bounds == <<lost, calls, crashes>>
vars == <<totalBytes, partSizeOverride, row, store, listed, attempt, cancelling, history, bounds>>

\* Parts, as functions from part numbers to the content stored under them; an
\* object is what its parts were, and has none when it does not exist.
NoParts == <<>>
Put(f, n, content) == [m \in DOMAIN f \cup {n} |-> IF m = n THEN content ELSE f[m]]

InQueue == status \notin {"completed", "cancelled"}
Open(u) == u # NoUpload /\ state[u] = "open"
Count == PartCount(totalBytes, partSize)
Content(n) == Extent(n, totalBytes, partSize)

TypeOK ==
    /\ totalBytes \in FileSizes
    /\ partSizeOverride \in {0} \cup partSizeOverrideMin .. partSizeOverrideMax
    /\ status \in {"pending", "running", "paused", "failed", "completed", "cancelled"}
    /\ multipartUploadID \in Uploads \cup {NoUpload}
    /\ state \in [Uploads -> {"none", "open", "completed", "aborted"}]
    /\ listed \subseteq Uploads \cup {NoUpload}
    /\ pc \in {"idle", "put", "create", "persist", "list", "parts", "complete", "result",
               "abort", "archive"}
    /\ uploadID \in Uploads \cup {NoUpload}
    /\ partSize \in Nat
    /\ inflight \subseteq 1 .. Count /\ Cardinality(inflight) <= Concurrency
    /\ inflight \cap DOMAIN partETags = {}
    /\ err \in {"none", "failed", "canceled"}
    /\ intent \in {"none", "pause", "cancel"} /\ canceled \in BOOLEAN
    /\ cpc \in {"idle", "abort", "archive"} /\ cuploadID \in Uploads \cup {NoUpload}
    /\ lost \in 0 .. MaxLost /\ calls \in 0 .. MaxCalls /\ crashes \in 0 .. MaxCrashes

\* The attempt's variables when none runs.
NoAttempt ==
    /\ pc' = "idle" /\ uploadID' = NoUpload /\ partSize' = 0 /\ partETags' = NoParts
    /\ inflight' = {} /\ err' = "none" /\ intent' = "none" /\ canceled' = FALSE

\* QueueUpload has just created the task.
Init ==
    /\ totalBytes \in FileSizes
    /\ partSizeOverride = 0
    /\ status = "pending" /\ multipartUploadID = NoUpload
    /\ state = [u \in Uploads |-> "none"]
    /\ parts = [u \in Uploads |-> NoParts]
    /\ object = NoParts
    /\ listed = {}
    /\ pc = "idle" /\ uploadID = NoUpload /\ partSize = 0 /\ partETags = NoParts
    /\ inflight = {} /\ err = "none" /\ intent = "none" /\ canceled = FALSE
    /\ cpc = "idle" /\ cuploadID = NoUpload
    /\ sizeOf = [u \in Uploads |-> 0] /\ mixed = FALSE /\ cancelAsked = FALSE
    /\ lost = 0 /\ calls = 0 /\ crashes = 0

-----------------------------------------------------------------------------
(* The attempt *)

\* A dispatch reads the row ...
List ==
    /\ status = "pending"
    /\ listed' = listed \cup {multipartUploadID}
    /\ UNCHANGED <<totalBytes, partSizeOverride, row, store, attempt, cancelling, history, bounds>>

\* ... and, possibly much later, starts the task as it was listed; another dispatch
\* may hold the same row.  runTask and runUploadTask up to the first request; what
\* fails before it shows as that request failing.
Start ==
    /\ pc = "idle"
    /\ \E u \in listed :
         /\ listed' \in {listed, listed \ {u}}
         /\ uploadID' = u
         /\ pc' = IF totalBytes <= singlePutThreshold THEN "put"
                  ELSE IF u = NoUpload THEN "create" ELSE "list"
    /\ status' = IF InQueue THEN "running" ELSE status
    /\ partSize' = EffectivePartSize(totalBytes, partSizeOverride)
    /\ UNCHANGED <<totalBytes, partSizeOverride, multipartUploadID, store, partETags, inflight,
                   err, intent, canceled, cancelling, history, bounds>>

\* The request of this step took effect: its answer arrives and the attempt
\* goes on at label, or is lost and the request is sent again.
Answered(label) ==
    \/ pc' = label /\ UNCHANGED lost
    \/ lost < MaxLost /\ lost' = lost + 1 /\ UNCHANGED pc

AttemptUnchanged == <<totalBytes, partSizeOverride, row, listed, intent, canceled, cancelling,
                      cancelAsked, calls, crashes>>

\* The request did not take effect, or its answer never arrived.
RequestFails ==
    /\ pc \in {"put", "create", "list", "complete"}
    /\ err' \in IF canceled THEN {"failed", "canceled"} ELSE {"failed"}
    /\ pc' = "result"
    /\ UNCHANGED <<store, uploadID, partSize, partETags, inflight, sizeOf, mixed, lost,
                   AttemptUnchanged>>

\* uploadSingle
PutObject ==
    /\ pc = "put"
    /\ object' = [n \in {1} |-> [from |-> 1, to |-> totalBytes]]
    /\ Answered("result")
    /\ UNCHANGED <<state, parts, uploadID, partSize, partETags, inflight, err, sizeOf, mixed,
                   AttemptUnchanged>>

\* ensureMultipartUploadID; an upload whose answer was lost stays on the server.
CreateMultipartUpload ==
    /\ pc = "create"
    /\ \E u \in Uploads :
         /\ state[u] = "none" /\ \A v \in 1 .. u - 1 : state[v] # "none"
         /\ state' = [state EXCEPT ![u] = "open"]
         /\ Answered("persist")
         /\ uploadID' = IF lost' = lost THEN u ELSE uploadID
    /\ UNCHANGED <<parts, object, partSize, partETags, inflight, err, sizeOf, mixed,
                   AttemptUnchanged>>

\* OnMultipartUploadIDAssigned; it fails when the row has left the queue.
PersistUploadID ==
    /\ pc = "persist"
    /\ multipartUploadID' = IF InQueue THEN uploadID ELSE multipartUploadID
    /\ pc' = IF InQueue THEN "parts" ELSE "result"
    /\ err' = IF InQueue THEN "none" ELSE "failed"
    /\ sizeOf' = [sizeOf EXCEPT ![uploadID] = partSize]
    /\ UNCHANGED <<totalBytes, partSizeOverride, status, store, listed, uploadID, partSize,
                   partETags, inflight, intent, canceled, cancelling, mixed, cancelAsked, bounds>>

\* A fault: only the first page of the answer is used.
ListPartsFirstPage ==
    /\ pc = "list" /\ Open(uploadID)
    /\ partETags' = [n \in DOMAIN parts[uploadID] \cap {1} |-> parts[uploadID][n]]
    /\ pc' = "parts"
    /\ sizeOf' = [sizeOf EXCEPT ![uploadID] = partSize]
    /\ mixed' = (mixed \/ (sizeOf[uploadID] # partSize /\ parts[uploadID] # NoParts))
    /\ UNCHANGED <<store, uploadID, partSize, inflight, err, lost, AttemptUnchanged>>

\* listCompletedParts
ListParts ==
    /\ pc = "list" /\ Open(uploadID)
    /\ partETags' = parts[uploadID]
    /\ pc' = "parts"
    /\ sizeOf' = [sizeOf EXCEPT ![uploadID] = partSize]
    /\ mixed' = (mixed \/ (sizeOf[uploadID] # partSize /\ parts[uploadID] # NoParts))
    /\ UNCHANGED <<store, uploadID, partSize, inflight, err, lost, AttemptUnchanged>>

\* The loop over the parts starts a worker for the next one that is not known to
\* be stored, when one is free; after an error the workers it starts do nothing.
Launch ==
    /\ pc = "parts" /\ err = "none"
    /\ Cardinality(inflight) < Concurrency
    /\ \E n \in (1 .. Count) \ (DOMAIN partETags \cup inflight) :
         /\ 1 .. n - 1 \subseteq DOMAIN partETags \cup inflight
         /\ inflight' = inflight \cup {n}
    /\ UNCHANGED <<store, pc, uploadID, partSize, partETags, err, sizeOf, mixed, lost,
                   AttemptUnchanged>>

\* uploadPart: the part is stored, and recorded unless the answer is lost.
UploadPart(n) ==
    /\ pc = "parts" /\ n \in inflight /\ Open(uploadID)
    /\ parts' = [parts EXCEPT ![uploadID] = Put(@, n, Content(n))]
    /\ \/ /\ partETags' = Put(partETags, n, Content(n))
          /\ inflight' = inflight \ {n}
          /\ UNCHANGED lost
       \/ /\ lost < MaxLost /\ lost' = lost + 1
          /\ UNCHANGED <<partETags, inflight>>
    /\ UNCHANGED <<state, object, pc, uploadID, partSize, err, sizeOf, mixed, AttemptUnchanged>>

\* The first error is the attempt's and cancels the other workers.
PartFails(n) ==
    /\ pc = "parts" /\ n \in inflight
    /\ inflight' = inflight \ {n}
    /\ IF err # "none" THEN UNCHANGED err
                   ELSE err' \in IF canceled THEN {"failed", "canceled"} ELSE {"failed"}
    /\ UNCHANGED <<store, pc, uploadID, partSize, partETags, sizeOf, mixed, lost,
                   AttemptUnchanged>>

\* A fault: group.Wait's error is not looked at.
WaitIgnoringError ==
    /\ pc = "parts" /\ inflight = {}
    /\ err # "none" \/ 1 .. Count \subseteq DOMAIN partETags
    /\ pc' = "complete" /\ err' = "none"
    /\ UNCHANGED <<store, uploadID, partSize, partETags, inflight, sizeOf, mixed, lost,
                   AttemptUnchanged>>

\* group.Wait
Wait ==
    /\ pc = "parts" /\ inflight = {}
    /\ err # "none" \/ 1 .. Count \subseteq DOMAIN partETags
    /\ pc' = IF err = "none" THEN "complete" ELSE "result"
    /\ UNCHANGED <<store, uploadID, partSize, partETags, inflight, err, sizeOf, mixed, lost,
                   AttemptUnchanged>>

\* completeMultipartUpload: the object is made of exactly the listed parts, which
\* must be stored as listed.
CompleteMultipartUpload ==
    /\ pc = "complete" /\ Open(uploadID)
    /\ DOMAIN partETags \subseteq DOMAIN parts[uploadID]
    /\ \A n \in DOMAIN partETags : parts[uploadID][n] = partETags[n]
    /\ object' = partETags
    /\ state' = [state EXCEPT ![uploadID] = "completed"]
    /\ parts' = [parts EXCEPT ![uploadID] = NoParts]
    /\ Answered("result")
    /\ UNCHANGED <<uploadID, partSize, partETags, inflight, err, sizeOf, mixed, AttemptUnchanged>>

Transfer ==
    \/ RequestFails \/ PutObject \/ CreateMultipartUpload \/ PersistUploadID \/ ListParts
    \/ Launch \/ (\E n \in inflight : UploadPart(n) \/ PartFails(n)) \/ Wait
    \/ CompleteMultipartUpload

-----------------------------------------------------------------------------
(* handleTaskResult *)

ResultUnchanged == <<totalBytes, partSizeOverride, multipartUploadID, listed, cancelling, history,
                     bounds>>

ArchiveCompleted ==
    /\ pc = "result" /\ err = "none"
    /\ status' = IF InQueue THEN "completed" ELSE status
    /\ NoAttempt
    /\ UNCHANGED <<store, ResultUnchanged>>

MarkFailed ==
    /\ pc = "result" /\ err = "failed"
    /\ status' = IF InQueue THEN "failed" ELSE status
    /\ NoAttempt
    /\ UNCHANGED <<store, ResultUnchanged>>

MarkPaused ==
    /\ pc = "result" /\ err = "canceled" /\ intent # "cancel"
    /\ status' = IF InQueue THEN "paused" ELSE status
    /\ NoAttempt
    /\ UNCHANGED <<store, ResultUnchanged>>

\* The attempt was cancelled, as the intent says when it is read here.
CancelledResult ==
    /\ pc = "result" /\ err = "canceled" /\ intent = "cancel"
    /\ pc' = IF uploadID = NoUpload THEN "archive" ELSE "abort"
    /\ UNCHANGED <<status, store, uploadID, partSize, partETags, inflight, err, intent, canceled,
                   ResultUnchanged>>

\* AbortMultipartUpload, whose failure is only logged.
Abort(u) ==
    \/ UNCHANGED store
    \/ /\ Open(u)
       /\ state' = [state EXCEPT ![u] = "aborted"]
       /\ parts' = [parts EXCEPT ![u] = NoParts]
       /\ UNCHANGED object

\* A fault: the task waits until the abort has succeeded.
AbortUploadForSure ==
    /\ pc = "abort"
    /\ Abort(uploadID)
    /\ pc' = IF store' = store THEN "abort" ELSE "archive"
    /\ UNCHANGED <<status, uploadID, partSize, partETags, inflight, err, intent, canceled,
                   ResultUnchanged>>

AbortUpload ==
    /\ pc = "abort"
    /\ Abort(uploadID)
    /\ pc' = "archive"
    /\ UNCHANGED <<status, uploadID, partSize, partETags, inflight, err, intent, canceled,
                   ResultUnchanged>>

ArchiveCancelled ==
    /\ pc = "archive"
    /\ status' = IF InQueue THEN "cancelled" ELSE status
    /\ NoAttempt
    /\ UNCHANGED <<store, ResultUnchanged>>

HandleResult ==
    \/ ArchiveCompleted \/ MarkFailed \/ MarkPaused \/ CancelledResult \/ AbortUpload
    \/ ArchiveCancelled

-----------------------------------------------------------------------------
(* The user's calls and the death of the process *)

\* PauseTask or CancelTask finds the task running.
Signal(why) ==
    /\ pc # "idle" /\ calls < MaxCalls
    /\ calls' = calls + 1
    /\ intent' = why /\ canceled' = TRUE
    /\ cancelAsked' = (cancelAsked \/ why = "cancel")
    /\ UNCHANGED <<totalBytes, partSizeOverride, row, store, listed, pc, uploadID, partSize,
                   partETags, inflight, err, cancelling, sizeOf, mixed, lost, crashes>>

\* A call that finds the row in status from and writes status to: PauseTask of a
\* pending task, ResumeTask, RetryTask.
Rewrite(from, to) ==
    /\ status = from /\ calls < MaxCalls
    /\ calls' = calls + 1
    /\ status' = to
    /\ UNCHANGED <<totalBytes, partSizeOverride, multipartUploadID, store, listed, attempt,
                   cancelling, history, lost, crashes>>

PauseTask == pc = "idle" /\ Rewrite("pending", "paused")
ResumeTask == Rewrite("paused", "pending")
RetryTask == Rewrite("failed", "pending")

\* CancelTask of a task that does not run, in three steps: it reads the row ...
CancelRead ==
    /\ pc = "idle" /\ cpc = "idle" /\ calls < MaxCalls
    /\ status \in {"pending", "paused", "failed"}
    /\ calls' = calls + 1
    /\ cpc' = IF multipartUploadID = NoUpload THEN "archive" ELSE "abort"
    /\ cuploadID' = multipartUploadID
    /\ cancelAsked' = TRUE
    /\ UNCHANGED <<totalBytes, partSizeOverride, row, store, listed, attempt, sizeOf, mixed,
                   lost, crashes>>

\* ... aborts the upload (abortOrphanedMultipartUpload) ...
CancelAbort ==
    /\ cpc = "abort"
    /\ Abort(cuploadID)
    /\ cpc' = "archive"
    /\ UNCHANGED <<totalBytes, partSizeOverride, row, listed, attempt, cuploadID, history, bounds>>

\* ... and archives the task, which a dispatch may have started meanwhile.
CancelArchive ==
    /\ cpc = "archive"
    /\ status' = IF InQueue THEN "cancelled" ELSE status
    /\ cpc' = "idle" /\ cuploadID' = NoUpload
    /\ UNCHANGED <<totalBytes, partSizeOverride, multipartUploadID, store, listed, attempt,
                   history, bounds>>

SetPartSizeOverrideMB(mb) ==
    /\ calls < MaxCalls /\ calls' = calls + 1
    /\ partSizeOverride' = ClampOverride(mb)
    /\ UNCHANGED <<totalBytes, row, store, listed, attempt, cancelling, history, lost, crashes>>

\* The process dies and starts again: RecoverOrphanedTasks pauses a running row.
Crash ==
    /\ crashes < MaxCrashes /\ crashes' = crashes + 1
    /\ status' = IF status = "running" THEN "paused" ELSE status
    /\ listed' = {} /\ NoAttempt /\ cpc' = "idle" /\ cuploadID' = NoUpload
    /\ UNCHANGED <<totalBytes, partSizeOverride, multipartUploadID, store, history, lost, calls>>

User ==
    \/ Signal("pause") \/ Signal("cancel") \/ PauseTask \/ ResumeTask \/ RetryTask
    \/ CancelRead \/ CancelAbort \/ CancelArchive
    \/ \E mb \in Overrides : SetPartSizeOverrideMB(mb)

Next == List \/ Start \/ Transfer \/ HandleResult \/ User \/ Crash

\* The goroutine of an attempt runs until it returns, and every request is answered
\* or fails by its timeout.
Fairness == WF_vars(Transfer \/ HandleResult)

Spec == Init /\ [][Next]_vars
FairSpec == Spec /\ Fairness

-----------------------------------------------------------------------------
(* Properties *)

\* o is the whole file: its parts are numbered from 1 and follow each other from
\* the file's first unit to its last.
IsFile(o) ==
    \E m \in 1 .. totalBytes :
       /\ DOMAIN o = 1 .. m
       /\ o[1].from = 1 /\ o[m].to = totalBytes
       /\ \A n \in 1 .. m - 1 : o[n + 1].from = o[n].to + 1

\* What the store serves under the key after a completed upload is the file, through
\* failed parts, lost answers, resumed and abandoned uploads and crashes, unless an
\* upload that held parts was resumed with another part size: the code does not
\* notice that, and the object is then wrong.
ObjectIsFile == object # NoParts /\ ~mixed => IsFile(object)

\* A task is shown as completed only when its object is stored.
CompletedIsStored == status = "completed" => object # NoParts

\* An upload is aborted, and its parts lost, only after a call of CancelTask: a pause,
\* a failure or a crash keeps them for the resume (uploadMultipart's comment).
AbortOnlyOnCancel ==
    [][\A u \in Uploads : state[u] = "open" /\ state'[u] = "aborted" => cancelAsked]_vars

\* Resuming sends no part again that the upload already holds.
NoPartSentTwice ==
    [][\A n \in inflight' \ inflight : n \notin DOMAIN parts[uploadID]]_vars

\* An attempt that runs comes to its end, whatever fails.
AttemptReturns == (pc # "idle") ~> (pc = "idle")

\* What is stored and what is shown as stored is the file, in every typed state.
StoredIsFile == TypeOK /\ ObjectIsFile /\ CompletedIsStored

\* What an upload holds is lost only by a cancel, and is not sent again.
PartsAreKept == AbortOnlyOnCancel /\ NoPartSentTwice

=============================================================================
