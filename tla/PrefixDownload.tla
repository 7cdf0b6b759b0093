---------------------------- MODULE PrefixDownload ----------------------------
(***************************************************************************)
(* Downloads of everything under a prefix: one task per object             *)
(* (QueueDownloadPrefix, service.go) or one "download_zip" task that       *)
(* writes an archive (zip_download.go), from the listing to the user's     *)
(* calls, while other clients store and delete objects under the prefix.   *)
(*                                                                         *)
(* Keys are numbered in the order in which they are listed.  An object is  *)
(* what was stored under its key, by number, or Absent; its data comes in  *)
(* Chunks pieces.  Names that would leave the folder are left out.         *)
(***************************************************************************)
EXTENDS Naturals, Sequences, FiniteSets, FiniteSetsExt

CONSTANTS
    Keys,
    Placeholders,             \* keys that end in "/" and hold nothing: folders
    PageSize,                 \* downloadPrefixPageSize
    Chunks,
    MaxChanges,               \* bound on what other clients store and delete
    MaxFaults, MaxCalls, MaxCrashes   \* bounds on failures, user calls and crashes

\* What an instance gives.
PrefixAssumption ==
    /\ Keys \subseteq Nat \ {0} /\ IsFiniteSet(Keys)
    /\ Placeholders \subseteq Keys
    /\ PageSize \in Nat \ {0} /\ Chunks \in Nat \ {0}
    /\ MaxChanges \in Nat /\ MaxFaults \in Nat /\ MaxCalls \in Nat /\ MaxCrashes \in Nat

Absent == 0
NoFile == "none"

VARIABLES
    object, changes,
    \* the keys that hold an object since the listing began and were not touched
    stable,
    \* the zip task's row and whether its prefix is empty, the keys of the download
    \* tasks, and whether they were queued after a listing that broke off
    status, rooted, downloads, partial,
    \* the archive: its state and the data of its entries
    file, entries,
    \* what runs: a call that queues, or the task's attempt
    pc, op,
    token, keys,              \* the listing: the last key that was listed, and what it found
    todo,                     \* listed and not yet written to the archive
    getting, buf,             \* the object that is read, and what was read of it
    err, intent, canceled,
    \* history: the removal of an archive failed
    left,
    faults, calls, crashes

bucket == <<object, changes, stable>>
row == <<status, rooted, downloads, partial>>
archive == <<file, entries>>
listing == <<token, keys>>
reading == <<todo, getting, buf>>
result == <<err, intent, canceled>>
bounds == <<faults, calls, crashes>>
vars == <<bucket, row, archive, pc, op, listing, reading, result, left, bounds>>

Present == {k \in Keys : object[k] # Absent}
NoEntries == <<>>
Whole(v) == [i \in 1 .. Chunks |-> v]

TypeOK ==
    /\ object \in [Keys -> 0 .. MaxChanges + 1] /\ changes \in 0 .. MaxChanges
    /\ stable \subseteq Present
    /\ status \in {"none", "pending", "running", "paused", "failed", "completed", "cancelled"}
    /\ downloads \subseteq Keys /\ rooted \in BOOLEAN /\ partial \in BOOLEAN
    /\ file \in {NoFile, "partial", "complete"}
    /\ DOMAIN entries \subseteq Keys
    /\ pc \in {"idle", "list", "create", "get", "read", "write", "remove", "result"}
    /\ op \in {"none", "prefix", "zip", "run"}
    /\ token \in Keys \cup {0} /\ todo \subseteq keys /\ keys \subseteq Keys \ Placeholders
    /\ getting \in 0 .. MaxChanges + 1 /\ Len(buf) <= Chunks
    /\ err \in {"none", "failed", "canceled"}
    /\ intent \in {"none", "cancel"} /\ canceled \in BOOLEAN /\ left \in BOOLEAN
    /\ faults \in 0 .. MaxFaults /\ calls \in 0 .. MaxCalls /\ crashes \in 0 .. MaxCrashes

Idle ==
    /\ pc' = "idle" /\ op' = "none" /\ token' = 0 /\ keys' = {} /\ todo' = {}
    /\ getting' = Absent /\ buf' = <<>>
    /\ err' = "none" /\ intent' = "none" /\ canceled' = FALSE

Init ==
    /\ object \in [Keys -> {Absent, 1}] /\ changes = 0 /\ stable = {}
    /\ status = "none" /\ rooted = FALSE /\ downloads = {} /\ partial = FALSE
    /\ file = NoFile /\ entries = NoEntries
    /\ pc = "idle" /\ op = "none" /\ token = 0 /\ keys = {} /\ todo = {}
    /\ getting = Absent /\ buf = <<>>
    /\ err = "none" /\ intent = "none" /\ canceled = FALSE
    /\ left = FALSE /\ faults = 0 /\ calls = 0 /\ crashes = 0

Fault == faults < MaxFaults /\ faults' = faults + 1

-----------------------------------------------------------------------------
(* The listing *)

BeginListing(what) ==
    /\ pc' = "list" /\ op' = what /\ token' = 0 /\ keys' = {}
    /\ stable' = Present \ Placeholders

QueueUnchanged == <<object, changes, row, archive, reading, result, left, bounds>>

QueueDownloadPrefix ==
    /\ pc = "idle" /\ status = "none" /\ downloads = {}
    /\ BeginListing("prefix")
    /\ UNCHANGED QueueUnchanged

\* An empty prefix is refused only when the task runs.
QueueDownloadPrefixZip(root) ==
    /\ pc = "idle" /\ status = "none" /\ downloads = {}
    /\ rooted' = root
    /\ BeginListing("zip")
    /\ UNCHANGED <<object, changes, status, downloads, partial, archive, reading, result, left,
                   bounds>>

\* runTask and runZipDownloadTask up to the listing, which is made again.
Start ==
    /\ pc = "idle" /\ status = "pending"
    /\ status' = "running"
    /\ IF rooted
         THEN pc' = "result" /\ op' = "run" /\ err' = "failed" /\ UNCHANGED <<stable, listing>>
         ELSE BeginListing("run") /\ UNCHANGED err
    /\ UNCHANGED <<object, changes, rooted, downloads, partial, archive, reading, intent, canceled,
                   left, bounds>>

\* The rest of the caller, once the listing has found these keys.
Listed(found, complete) ==
    \/ /\ op = "run"
       /\ keys' = found /\ todo' = found
       /\ pc' = IF complete THEN "create" ELSE "result"
       /\ err' = IF complete THEN "none" ELSE "failed"
       /\ UNCHANGED <<status, downloads, partial, op, token, getting, buf, intent, canceled>>
    \/ /\ op = "zip"
       /\ status' = IF complete /\ found # {} THEN "pending" ELSE "none"
       /\ Idle /\ UNCHANGED <<downloads, partial>>
    \/ /\ op = "prefix"
       /\ downloads' = found /\ partial' = ~complete
       /\ Idle /\ UNCHANGED status

\* The next page of listObjectsPageForDownloadPrefix: the keys after the token, as
\* they are now; no cancel reaches it.
Rest == {k \in Present : k > token}
Page == CHOOSE page \in SUBSET Rest :
            /\ Cardinality(page) = Min({PageSize, Cardinality(Rest)})
            /\ \A k \in Rest \ page : \A i \in page : i < k
Found == keys \cup (Page \ Placeholders)

ListPage ==
    /\ pc = "list"
    /\ \/ Page = Rest /\ Listed(Found, TRUE)
       \/ /\ Page # Rest
          /\ keys' = Found /\ token' = Max(Page)
          /\ UNCHANGED <<status, downloads, partial, pc, op, reading, result>>
    /\ UNCHANGED <<bucket, rooted, archive, left, bounds>>

\* A page fails: QueueDownloadPrefix goes on with what it has, the others give up.
ListFails ==
    /\ pc = "list" /\ Fault
    /\ Listed(keys, FALSE)
    /\ UNCHANGED <<bucket, rooted, archive, left, calls, crashes>>

-----------------------------------------------------------------------------
(* The archive *)

RunUnchanged == <<bucket, row, op, listing, intent, canceled, calls, crashes>>

\* os.Create truncates what an attempt before may have left.
CreateArchive ==
    /\ pc = "create"
    /\ \/ file' = "partial" /\ entries' = NoEntries /\ pc' = "get" /\ UNCHANGED <<err, faults>>
       \/ Fault /\ err' = "failed" /\ pc' = "result" /\ UNCHANGED archive
    /\ UNCHANGED <<reading, left, RunUnchanged>>

Current == Min(todo)

\* A fault: what a failed attempt has read stays in the buffer.
GetObjectAppending ==
    /\ pc = "get" /\ todo # {} /\ object[Current] # Absent
    /\ getting' = object[Current] /\ pc' = "read"
    /\ UNCHANGED <<todo, buf, archive, err, left, faults, RunUnchanged>>

\* fetchObjectBytes: the answer to a GetObject has begun, and the buffer is emptied.
GetObject ==
    /\ pc = "get" /\ todo # {} /\ object[Current] # Absent
    /\ getting' = object[Current] /\ buf' = <<>>
    /\ pc' = "read"
    /\ UNCHANGED <<todo, archive, err, left, faults, RunUnchanged>>

ReadChunk ==
    /\ pc = "read" /\ Len(buf) < Chunks
    /\ buf' = Append(buf, getting)
    /\ UNCHANGED <<todo, getting, archive, pc, err, left, faults, RunUnchanged>>

\* The answer breaks off, and WithRetry asks again.
BreakOff ==
    /\ pc = "read" /\ Fault
    /\ pc' = "get"
    /\ UNCHANGED <<reading, archive, err, left, RunUnchanged>>

Fetched ==
    /\ pc = "read" /\ Len(buf) = Chunks
    /\ pc' = "write"
    /\ UNCHANGED <<reading, archive, err, left, faults, RunUnchanged>>

\* The object is gone, the attempts are used up, or the task is canceled.
GetFails ==
    /\ pc \in {"get", "read"} /\ todo # {}
    /\ \/ pc = "get" /\ object[Current] = Absent /\ err' = "failed" /\ UNCHANGED faults
       \/ canceled /\ err' = "canceled" /\ UNCHANGED faults
       \/ Fault /\ err' = "failed"
    /\ pc' = "remove"
    /\ UNCHANGED <<reading, archive, left, RunUnchanged>>

\* streamOneZipEntry writes the whole buffer as one entry.
WriteEntry ==
    /\ pc = "write"
    /\ \/ /\ entries' = [k \in DOMAIN entries \cup {Current} |->
                           IF k = Current THEN buf ELSE entries[k]]
          /\ todo' = todo \ {Current} /\ getting' = Absent /\ buf' = <<>>
          /\ pc' = "get" /\ UNCHANGED <<err, faults>>
       \/ /\ Fault /\ err' = "failed" /\ pc' = "remove"
          /\ UNCHANGED <<entries, reading>>
    /\ UNCHANGED <<file, left, RunUnchanged>>

CloseArchive ==
    /\ pc = "get" /\ todo = {}
    /\ \/ file' = "complete" /\ pc' = "result" /\ UNCHANGED <<err, faults>>
       \/ Fault /\ err' = "failed" /\ pc' = "remove" /\ UNCHANGED file
    /\ UNCHANGED <<entries, reading, left, RunUnchanged>>

\* removeArchiveBestEffort
RemoveArchive ==
    /\ pc = "remove"
    /\ \/ file' = NoFile /\ entries' = NoEntries /\ UNCHANGED <<left, faults>>
       \/ Fault /\ left' = TRUE /\ UNCHANGED archive
    /\ pc' = "result"
    /\ UNCHANGED <<reading, err, RunUnchanged>>

\* handleTaskResult
HandleResult ==
    /\ pc = "result"
    /\ status' = CASE err = "none" -> "completed"
                   [] err = "failed" -> "failed"
                   [] err = "canceled" -> IF intent = "cancel" THEN "cancelled" ELSE "paused"
    /\ Idle
    /\ UNCHANGED <<bucket, rooted, downloads, partial, archive, left, bounds>>

Work ==
    \/ ListPage \/ ListFails
    \/ CreateArchive \/ GetObject \/ ReadChunk \/ BreakOff \/ Fetched \/ GetFails \/ WriteEntry
    \/ CloseArchive \/ RemoveArchive \/ HandleResult

-----------------------------------------------------------------------------
(* The user, other clients and the death of the process *)

CallUnchanged == <<bucket, rooted, downloads, partial, archive, listing, reading, left, crashes>>

\* CancelTask; PauseTask refuses the task.
CancelRunning ==
    /\ op = "run" /\ calls < MaxCalls /\ calls' = calls + 1
    /\ intent' = "cancel" /\ canceled' = TRUE
    /\ UNCHANGED <<status, pc, op, err, faults, CallUnchanged>>

CancelAtRest ==
    /\ pc = "idle" /\ status \in {"pending", "paused", "failed"}
    /\ calls < MaxCalls /\ calls' = calls + 1
    /\ status' = "cancelled"
    /\ UNCHANGED <<pc, op, result, faults, CallUnchanged>>

\* RetryTask, and ResumeTask of a task that a restart has paused.
MakePending ==
    /\ status \in {"paused", "failed"} /\ status' = "pending"
    /\ UNCHANGED <<pc, op, result, faults, calls, CallUnchanged>>

\* Another client stores or deletes an object.
Change(k) ==
    /\ changes < MaxChanges /\ changes' = changes + 1
    /\ object' \in {[object EXCEPT ![k] = v] : v \in {changes + 2, Absent} \ {object[k]}}
    /\ stable' = stable \ {k}
    /\ UNCHANGED <<row, archive, pc, op, listing, reading, result, left, bounds>>

\* RecoverOrphanedTasks pauses the row that was running.
Crash ==
    /\ crashes < MaxCrashes /\ crashes' = crashes + 1
    /\ status' = IF status = "running" THEN "paused" ELSE status
    /\ Idle
    /\ UNCHANGED <<bucket, rooted, downloads, partial, archive, left, faults, calls>>

Next ==
    \/ QueueDownloadPrefix \/ (\E root \in BOOLEAN : QueueDownloadPrefixZip(root))
    \/ Start \/ Work
    \/ CancelRunning \/ CancelAtRest \/ MakePending
    \/ (\E k \in Keys : Change(k)) \/ Crash

\* Tasks run, and the user retries one that rests.
Fairness == WF_vars(Start) /\ WF_vars(Work) /\ WF_vars(MakePending)

Spec == Init /\ [][Next]_vars
FairSpec == Spec /\ Fairness

-----------------------------------------------------------------------------
(* Properties *)

\* A completed archive is whole: every object that was there from the beginning of
\* its listing on and was not touched is in it, and every entry is one object as it
\* was stored, whatever broke off and was asked for again.
ArchiveIsWhole ==
    status = "completed" =>
        /\ file = "complete"
        /\ stable \subseteq DOMAIN entries
        /\ \A k \in DOMAIN entries : \E v \in 1 .. MaxChanges + 1 : entries[k] = Whole(v)
        /\ \A k \in DOMAIN entries \cap stable : entries[k] = Whole(object[k])

\* A folder that is queued object by object is queued whole, unless a page of its
\* listing failed, which nobody is told.
PrefixIsWhole == downloads # {} /\ ~partial => stable \subseteq downloads

\* What an attempt that failed or was cancelled has written is removed, unless the
\* process died during it or the removal failed.
FailureRemoves ==
    status \in {"failed", "cancelled"} /\ crashes = 0 /\ ~left => file # "partial"

\* The same whatever happened, as the comment of writeZipArchive has it: a failed or
\* cancelled task never leaves an incomplete archive.
NoStrayArchive == status \in {"failed", "cancelled"} => file # "partial"

\* A failed archive is completed by retries once nothing fails or changes any more.
RetryCompletes == (status = "failed" /\ ~rooted) ~> (status \in {"completed", "cancelled"})

\* Every call and every attempt comes to its end.
WorkEnds == (pc # "idle") ~> (pc = "idle")

=============================================================================
