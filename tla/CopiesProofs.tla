---------------------------- MODULE CopiesProofs ----------------------------
(***************************************************************************)
(* What copies, moves, renames and deletes keep, for all objects, requests,*)
(* workers, callers, part counts and faults.                               *)
(*                                                                         *)
(* First CrossConnectionCopy (CrossInv): what an attempt has sent is of    *)
(* the object that was queued, as long as that is at the source.  Then     *)
(* BulkOperations: its counts hold of any requests (ControlInv), and where *)
(* its objects are (BulkInv) of requests that do not overlap (Apart).      *)
(***************************************************************************)
EXTENDS MCObjectCopies, Sequences, FiniteSetTheorems, TLAPS

-----------------------------------------------------------------------------
(* A copy to another connection: what an attempt has and knows *)

\* The steps at which the staging file is complete, and those after it.
Uploading == {"put", "create", "persist", "list", "parts", "complete"}
Downloaded == Uploading \cup {"unstage"}

\* Where an attempt is agrees with its error, with what the user asked, with the row
\* and with the sidecar, which a complete staging file no longer has.
CrossStepInv ==
    /\ pc # "idle" => status = "running"
    /\ pc \notin {"result", "abort", "archive"} => err = "none"
    /\ intent = "cancel" \/ pc \in {"abort", "archive"} => cancelAsked
    /\ pc = "abort" => uploadID \in X!Uploads
    /\ pc = "delete" \/ source = X!Gone => isMove
    /\ pc \in Downloaded => sidecar = {}

\* The task knows the size of the object it was queued for, whose place only later
\* versions take.
QueuedInv ==
    IF status = "none" THEN queued = X!Gone /\ source \in X!Versions
    ELSE /\ queued \in X!Versions /\ totalBytes = size[queued]
         /\ source = X!Gone \/ queued <= source

\* What an attempt has sent of the parts is of the task's size.
PartsInv ==
    /\ parts = [u \in X!Uploads |-> parts[u]]
    /\ \A n \in DOMAIN partETags : partETags[n] \in X!Versions \cup {X!Hole}
    /\ pc = "complete" => 1 .. totalBytes \subseteq DOMAIN partETags

\* While the source is the object that was queued, the recorded segments and all parts
\* are of that object, and a complete staging file is a copy of it.
SameSourceInv ==
  /\ status = "none" =>
      /\ Len(staging) = 0 /\ sidecar = {} /\ DOMAIN partETags = {}
      /\ \A u \in X!Uploads : DOMAIN parts[u] = {}
  /\ source = queued =>
      /\ Len(staging) \in {0, size[queued]}
      /\ \A n \in sidecar : n \in DOMAIN staging /\ staging[n] = queued
      /\ pc = "fetch" => Len(staging) = size[queued]
      /\ pc \in Uploading => staging = X!Copy(queued)
      /\ \A u \in X!Uploads : \A n \in DOMAIN parts[u] : parts[u][n] = queued
      /\ \A n \in DOMAIN partETags : partETags[n] = queued

\* The copy is stored: before the staging file and the source go, and for good.
CopyStored == Len(dest) = totalBytes /\ (source = queued => dest = X!Copy(queued))
StoredInv ==
    /\ pc \in {"unstage", "delete"} => CopyStored
    /\ (pc = "result" /\ err = "none") \/ status = "completed" =>
         CopyStored /\ (isMove <=> source = X!Gone)

CrossInv == X!TypeOK /\ CrossStepInv /\ QueuedInv /\ PartsInv /\ SameSourceInv /\ StoredInv

-----------------------------------------------------------------------------
(* Copies, moves, renames and deletes within a connection *)

\* Where the requests and renames put what is at l.
Targets(l) ==
    {m \in Locations :
       \/ <<l, m>> \in Renames
       \/ \E r \in Requests : /\ r.type # "delete" /\ m = <<r.dest, l[2]>>
                              /\ \E i \in 1 .. Len(r.keys) : r.keys[i] = l}

\* What is asked for does not overlap: a target holds no object, is the target of one
\* source only, and is neither moved on nor deleted; no placeholder takes part; and a
\* request names an object once.
Apart ==
    /\ \A l \in Stored : l[2] # Marker
    /\ \A l \in Locations : \A m \in Targets(l) :
         /\ m \notin Stored /\ m[2] # Marker /\ l[2] # Marker /\ Targets(m) = {}
         /\ \A k \in Locations : m \in Targets(k) => k = l
    /\ \A r \in Requests : \A i \in 1 .. Len(r.keys) :
         /\ \A j \in 1 .. Len(r.keys) : r.keys[i] = r.keys[j] => i = j
         /\ r.type = "delete" =>
              r.keys[i][2] # Marker /\ \A l \in Locations : r.keys[i] \notin Targets(l)

Steps == {"none", "resolve", "pool", "batch", "request", "finish", "ended"}
Operation == [type: {"none", "copy", "move", "delete"}, keys: Seq(Locations),
              dest: Folders \cup {NotStarted.dest}, step: Steps, cancelled: BOOLEAN,
              feed: Nat, closed: BOOLEAN, completed: Nat, failed: Nat,
              shown: {"none", "running", "completed", "cancelled"}, answered: BOOLEAN]
Worker == [pc: Requested \cup {"check", "receive", "exit"}, key: Locations \cup {NoLocation},
           upload: Nat]

CallInv ==
    /\ call \in [Callers -> [step: {"idle", "wait", "rename"}, op: OpIds \cup {0},
                             key: Locations \cup {NoLocation}]]
    /\ \A c \in Callers : call[c].step = "wait" => call[c].op \in OpIds
ShapeInv ==
    /\ ops \in [OpIds -> Operation]
    /\ worker \in [OpIds -> [Workers -> Worker]]
    /\ CallInv

\* An operation is what was requested, and its workers work only while it has a pool.
RequestInv ==
    \A o \in OpIds :
      /\ ops[o].step # "none" =>
           \E r \in Requests : ops[o].type = r.type /\ ops[o].keys = r.keys /\ ops[o].dest = r.dest
      /\ ops[o].step = "none" => ops[o].type = "none"
      /\ ops[o].step = "pool" => ops[o].type # "delete"
      /\ ops[o].step \in {"batch", "request"} => ops[o].type = "delete"
      /\ ops[o].step = "request" => ops[o].feed <= Total(o)
      /\ ops[o].step \in {"none", "resolve"} =>
           /\ ops[o].feed = 1 /\ ops[o].completed = 0 /\ ~ops[o].closed
           /\ \A w \in Workers : worker[o][w].pc = "check"
      /\ Shown(o) => ops[o].step \in {"finish", "ended"}
      /\ \A w \in Workers :
           /\ worker[o][w].pc \in Requested => ops[o].step = "pool"
           /\ (worker[o][w].pc \in Requested) = (worker[o][w].key # NoLocation)

\* The keys that are held by a worker are those fed and not yet counted.
Busy(o) == {w \in Workers : worker[o][w].key # NoLocation}
CountInv ==
    \A o \in OpIds :
      /\ ops[o].feed \in 1 .. Total(o) + 1
      /\ ops[o].failed <= ops[o].completed /\ ops[o].completed <= Total(o)
      /\ ops[o].step \notin {"finish", "ended"} =>
           ops[o].completed + Cardinality(Busy(o)) = ops[o].feed - 1
      /\ ops[o].closed => ops[o].feed > Total(o) \/ ops[o].cancelled
      /\ \A w \in Workers :
           /\ worker[o][w].pc = "exit" => ops[o].closed \/ ops[o].cancelled
           /\ worker[o][w].key # NoLocation =>
                \E i \in 1 .. ops[o].feed - 1 : ops[o].keys[i] = worker[o][w].key

\* And each of them is held by one worker, as a request names an object once.
HeldInv ==
    \A o \in OpIds : \A v, w \in Workers :
      worker[o][w].key # NoLocation /\ worker[o][v].key = worker[o][w].key => v = w

\* Every worker that copies part by part has an upload of its own, whose parts are all of
\* its object; the others are orphans.
InParts(o, w) == worker[o][w].pc \in {"parts", "complete", "abort"}
OwnUpload(o, w) ==
    \E u \in uploads :
      /\ u.id = worker[o][w].upload
      /\ worker[o][w].pc = "parts" => Len(u.got) < Parts
      /\ worker[o][w].pc = "complete" => Len(u.got) = Parts
      /\ \A i \in 1 .. Len(u.got) : u.got[i] = worker[o][w].key
UploadInv ==
    /\ uploads \subseteq [id: 1 .. nextID, got: Seq(Data), orphan: BOOLEAN]
    /\ \A u \in uploads : Len(u.got) <= Parts
    /\ \A u, v \in uploads : u.id = v.id => u = v
    /\ \A o \in OpIds : \A w \in Workers : InParts(o, w) =>
         /\ OwnUpload(o, w)
         /\ \A p \in OpIds : \A v \in Workers :
              InParts(p, v) /\ worker[p][v].upload = worker[o][w].upload => p = o /\ v = w
    /\ \A u \in uploads : ~u.orphan =>
         \E o \in OpIds : \E w \in Workers : InParts(o, w) /\ worker[o][w].upload = u.id

\* An object keeps its data at its source and has it at every target that it reached.
DataInv ==
    /\ store \in [Locations -> Object \cup {NoObject}]
    /\ \A l \in Stored : Present(l) => store[l].data = l /\ store[l].meta # "none"
    /\ \A l \in Locations :
         /\ l \notin Stored /\ Targets(l) # {} => ~Present(l)
         /\ \A m \in Targets(l) : Present(m) =>
              store[m].data = l /\ (l \notin Large => store[m].meta # "none")

\* A source is deleted when a target holds the object.
KeptInv ==
    /\ \A o \in OpIds : \A w \in Workers : worker[o][w].pc = "delete" =>
         ops[o].type = "move" /\ Present(Dest(o, w))
    /\ \A c \in Callers :
         call[c].step = "rename" =>
           call[c].key \in Locations /\ \E m \in Targets(call[c].key) : Present(m)
    /\ \A o \in OpIds : \A w \in Workers : worker[o][w].pc = "create" \/ InParts(o, w) =>
         worker[o][w].key \in Large
    /\ \A l \in Stored \ Doomed : Present(l) \/ \E m \in Targets(l) : Present(m)

\* The keys that an operation has succeeded with are done.
Tried(o) ==
    {i \in 1 .. ops[o].feed - 1 :
       Done(o, i) /\ \A w \in Workers : worker[o][w].key # ops[o].keys[i]}
SuccessInv ==
    \A o \in OpIds : ops[o].completed - ops[o].failed <= Cardinality(Tried(o))

FinalInv ==
    \A o \in OpIds : ops[o].step \in {"finish", "ended"} =>
      /\ Shown(o)
      /\ ops[o].shown = "completed" => ops[o].completed = Total(o)
      /\ ops[o].completed = Total(o) \/ ops[o].completed = ops[o].feed - 1
      /\ ops[o].shown = "cancelled" => ops[o].cancelled

LimitInv == nextID \in Nat /\ calls \in 0 .. MaxCalls /\ faults \in 0 .. MaxFaults

\* The first part holds of any requests, the second of those that do not overlap.
ControlInv == ShapeInv /\ LimitInv /\ RequestInv /\ CountInv /\ FinalInv
BulkInv == HeldInv /\ UploadInv /\ DataInv /\ KeptInv /\ SuccessInv

-----------------------------------------------------------------------------
(* A behaviour is one of either kind. *)

LEMMA SpecIsBulk == MCSpec => Spec
<1>1. MCInit => Init
  BY DEF MCInit
<1>2. [MCNext]_all => [Next]_vars
  BY DEF MCNext, OfBulk, OfCross, all
<1> QED
  BY <1>1, <1>2, PTL DEF MCSpec, Spec

LEMMA SpecIsCross == MCSpec => X!Spec
<1>1. MCInit => X!Init
  BY DEF MCInit
<1>2. [MCNext]_all => [X!Next]_(X!vars)
  BY DEF MCNext, OfBulk, OfCross, all, cross, X!vars, X!stores, X!row, X!files, X!attempt,
     X!history, X!bounds
<1> QED
  BY <1>1, <1>2, PTL DEF MCSpec, X!Spec

LEMMA NoData == DOMAIN <<>> = {} /\ Len(<<>>) = 0
<1>. DEFINE t == <<>>
<1>1. t \in Seq({}) /\ Len(t) = 0
  OBVIOUS
<1>2. DOMAIN t = 1 .. Len(t)
  BY <1>1
<1> QED
  BY <1>1, <1>2

LEMMA CrossConstants ==
    /\ MaxReplaces \in Nat /\ X!Versions = 1 .. MaxReplaces + 1
    /\ 1 \in X!Versions /\ X!Versions \subseteq Nat /\ X!Gone \notin X!Versions
    /\ X!Hole = X!Gone /\ X!Gone = 0 /\ Sizes \subseteq Nat \ {0}
    /\ X!Uploads \subseteq Nat \ {0} /\ X!NoUpload = 0
    /\ MaxCopyFaults \in Nat /\ MaxCopyCalls \in Nat /\ MaxCrashes \in Nat
BY CopiesAssumption
DEF X!CrossCopyAssumption, X!Versions, X!Gone, X!Hole, X!Uploads, X!NoUpload

LEMMA FilesAreData ==
    ASSUME X!TypeOK
    PROVE  /\ staging = [i \in 1 .. Len(staging) |-> staging[i]]
           /\ Len(staging) \in Nat /\ DOMAIN staging = 1 .. Len(staging)
           /\ \A i \in DOMAIN staging : staging[i] \in X!Versions \cup {X!Hole}
           /\ \A v \in X!Versions : size[v] \in Sizes /\ size[v] \in Nat \ {0}
           /\ totalBytes \in Nat /\ Len(dest) \in Nat
<1>1. staging \in Seq(X!Versions \cup {X!Hole}) /\ dest \in Seq(X!Versions \cup {X!Hole})
  BY DEF X!TypeOK
<1>2. /\ staging = [i \in 1 .. Len(staging) |-> staging[i]]
      /\ Len(staging) \in Nat /\ DOMAIN staging = 1 .. Len(staging) /\ Len(dest) \in Nat
      /\ \A i \in DOMAIN staging : staging[i] \in X!Versions \cup {X!Hole}
  BY <1>1
<1> QED
  BY <1>2, CrossConstants DEF X!TypeOK

LEMMA ResizedIsFile ==
    ASSUME X!TypeOK, NEW k \in Nat
    PROVE  /\ X!Resized(staging, k) \in Seq(X!Versions \cup {X!Hole})
           /\ Len(X!Resized(staging, k)) = k
           /\ DOMAIN X!Resized(staging, k) = 1 .. k
<1>1. \A i \in 1 .. k : (IF i <= Len(staging) THEN staging[i] ELSE X!Hole)
                           \in X!Versions \cup {X!Hole}
  BY FilesAreData
<1>2. X!Resized(staging, k) = [i \in 1 .. k |-> IF i <= Len(staging) THEN staging[i] ELSE X!Hole]
  BY DEF X!Resized
<1> QED
  BY <1>1, <1>2

LEMMA CrossTypeStep ==
    ASSUME X!TypeOK, CrossStepInv, QueuedInv, PartsInv, [X!Next]_(X!vars)
    PROVE  X!TypeOK'
<1>. USE CrossConstants
<1>1. ASSUME NEW move \in BOOLEAN, X!QueueCopyBetweenProfiles(move) PROVE X!TypeOK'
  BY <1>1 DEF X!QueueCopyBetweenProfiles, X!stores, X!files, X!attempt, X!bounds, X!TypeOK
<1>2. CASE X!Start
  BY <1>2 DEF X!Start, X!stores, X!files, X!bounds, X!history, X!TypeOK
<1>3. CASE X!HeadObject
  <2>1. size[source] \in Nat /\ size[source] \in Sizes
    BY <1>3, FilesAreData DEF X!HeadObject, X!TypeOK
  <2>2. staging' \in Seq(X!Versions \cup {X!Hole})
    BY <1>3, <2>1, ResizedIsFile DEF X!HeadObject
  <2>3. pc' \in {"fetch", "put", "create", "list"} /\ sidecar' \subseteq Nat
    BY <1>3 DEF X!HeadObject, X!AfterDownload, X!TypeOK
  <2> QED
    BY <1>3, <2>2, <2>3 DEF X!HeadObject, X!stores, X!AttemptUnchanged, X!row, X!TypeOK
<1>4. ASSUME NEW n \in DOMAIN staging, X!DownloadSegment(n) PROVE X!TypeOK'
  <2>1. staging' \in Seq(X!Versions \cup {X!Hole})
    BY <1>4 DEF X!DownloadSegment, X!TypeOK
  <2>2. sidecar' \subseteq Nat
    BY <1>4, FilesAreData DEF X!DownloadSegment, X!TypeOK
  <2>3. UNCHANGED <<source, size, dest, upload, parts, status, totalBytes, isMove,
                   multipartUploadID, pc, uploadID, err, intent, canceled, copyFaults, copyCalls,
                   crashes>>
    BY <1>4 DEF X!DownloadSegment, X!stores, X!AttemptUnchanged, X!row
  <2> QED
    BY <2>1, <2>2, <2>3 DEF X!TypeOK
<1>5. CASE X!DownloadDone
  BY <1>5 DEF X!DownloadDone, X!stores, X!AttemptUnchanged, X!row, X!TypeOK, X!AfterDownload
<1>6. CASE X!DownloadFails
  BY <1>6
  DEF X!DownloadFails, X!stores, X!files, X!AttemptUnchanged, X!Ends, X!Errors, X!row, X!TypeOK
<1>7. CASE X!PutObject
  BY <1>7 DEF X!PutObject, X!UploadUnchanged, X!files, X!AttemptUnchanged, X!row, X!TypeOK
<1>8. CASE X!PutObjectTooLong
  <2>1. dest' \in Seq(X!Versions \cup {X!Hole}) /\ Len(dest') \in {Len(dest), totalBytes}
    <3>1. SubSeq(staging, 1, totalBytes) = [i \in 1 .. totalBytes |-> staging[i]]
      BY <1>8, FilesAreData DEF X!PutObjectTooLong
    <3>2. \A i \in 1 .. totalBytes : staging[i] \in X!Versions \cup {X!Hole}
      BY <1>8, FilesAreData DEF X!PutObjectTooLong
    <3>3. /\ SubSeq(staging, 1, totalBytes) \in Seq(X!Versions \cup {X!Hole})
          /\ Len(SubSeq(staging, 1, totalBytes)) = totalBytes
      BY <3>1, <3>2, FilesAreData
    <3> QED
      BY <1>8, <3>3 DEF X!PutObjectTooLong, X!TypeOK
  <2>2. /\ err' \in {"none", "failed", "canceled"} /\ copyFaults' \in 0 .. MaxCopyFaults
    BY <1>8 DEF X!PutObjectTooLong, X!Ends, X!Errors, X!TypeOK
  <2> QED
    BY <1>8, <2>1, <2>2
    DEF X!PutObjectTooLong, X!UploadUnchanged, X!Ends, X!files, X!AttemptUnchanged,
        X!row, X!TypeOK
<1>9. CASE X!CreateMultipartUpload
  BY <1>9
  DEF X!CreateMultipartUpload, X!UploadUnchanged, X!files, X!AttemptUnchanged, X!row, X!TypeOK,
      X!NoUpload
<1>10. CASE X!PersistUploadID
  BY <1>10 DEF X!PersistUploadID, X!stores, X!files, X!bounds, X!history, X!TypeOK
<1>11. CASE X!ListParts
  BY <1>11 DEF X!ListParts, X!UploadUnchanged, X!files, X!AttemptUnchanged, X!row, X!TypeOK
<1>12. ASSUME NEW n \in 1 .. totalBytes, X!UploadPart(n) PROVE X!TypeOK'
  <2>1. /\ \A m \in DOMAIN partETags' : partETags'[m] \in X!Versions \cup {X!Hole}
    BY <1>12, FilesAreData DEF X!UploadPart, PartsInv
  <2>2. \A u \in X!Uploads : \A m \in DOMAIN parts'[u] : parts'[u][m] \in X!Versions \cup {X!Hole}
    BY <1>12, <2>1 DEF X!UploadPart, X!TypeOK, PartsInv
  <2>3. UNCHANGED <<source, size, dest, upload, X!row, X!files, pc, uploadID, err, intent, canceled,
                    copyFaults, copyCalls, crashes>>
    BY <1>12 DEF X!UploadPart, X!UploadUnchanged, X!files, X!AttemptUnchanged, X!row
  <2> QED
    BY <2>2, <2>3 DEF X!TypeOK, X!row, X!files
<1>13. CASE X!PartsDone
  BY <1>13 DEF X!PartsDone, X!stores, X!files, X!AttemptUnchanged, X!row, X!TypeOK
<1>14. CASE X!CompleteMultipartUpload
  <2>1. dest' \in Seq(X!Versions \cup {X!Hole}) /\ Len(dest') = totalBytes
    <3>1. \A n \in 1 .. totalBytes : partETags[n] \in X!Versions \cup {X!Hole}
      BY <1>14 DEF X!CompleteMultipartUpload, PartsInv
    <3>2. dest' = [n \in 1 .. totalBytes |-> partETags[n]]
      BY <1>14 DEF X!CompleteMultipartUpload
    <3>3. dest' \in [1 .. totalBytes -> X!Versions \cup {X!Hole}] /\ totalBytes \in Nat
      BY <3>1, <3>2, FilesAreData
    <3> QED
      BY <3>3
  <2>2. upload' \in [X!Uploads -> {"none", "open", "completed", "aborted"}]
    BY <1>14 DEF X!CompleteMultipartUpload, X!TypeOK
  <2>3. \A u \in X!Uploads : \A n \in DOMAIN parts'[u] : parts'[u][n] \in X!Versions \cup {X!Hole}
    BY <1>14, NoData DEF X!CompleteMultipartUpload, X!TypeOK, PartsInv, X!None
  <2>4. /\ pc' \in {"unstage", "result"} /\ err' \in {"none", "failed", "canceled"}
        /\ copyFaults' \in 0 .. MaxCopyFaults
    BY <1>14 DEF X!CompleteMultipartUpload, X!Ends, X!Errors, X!TypeOK
  <2> QED
    BY <1>14, <2>1, <2>2, <2>3, <2>4
    DEF X!CompleteMultipartUpload, X!UploadUnchanged, X!files, X!AttemptUnchanged, X!row, X!TypeOK
<1>15. CASE X!UploadFails
  BY <1>15
  DEF X!UploadFails, X!stores, X!files, X!AttemptUnchanged, X!Ends, X!Errors, X!row, X!TypeOK
<1>16. CASE X!RemoveStaging
  <2>1. copyFaults' \in 0 .. MaxCopyFaults
    BY <1>16 DEF X!RemoveStaging, X!TypeOK
  <2>2. <<>> \in Seq(X!Versions \cup {X!Hole})
    OBVIOUS
  <2>3. staging' \in Seq(X!Versions \cup {X!Hole})
    BY <1>16, <2>2 DEF X!RemoveStaging, X!TypeOK, X!None
  <2> QED
    BY <1>16, <2>1, <2>3 DEF X!RemoveStaging, X!stores, X!AttemptUnchanged, X!row, X!TypeOK
<1>17. CASE X!DeleteSource
  BY <1>17 DEF X!DeleteSource, X!files, X!AttemptUnchanged, X!row, X!TypeOK
<1>18. CASE X!HandleResult
  BY <1>18
  DEF X!HandleResult, X!stores, X!ResultUnchanged, X!NoAttempt, X!files, X!history, X!TypeOK
<1>19. CASE X!CancelledResult
  BY <1>19 DEF X!CancelledResult, X!stores, X!ResultUnchanged, X!files, X!history, X!TypeOK
<1>20. CASE X!AbortUpload
  <2>1. /\ upload' \in [X!Uploads -> {"none", "open", "completed", "aborted"}]
        /\ copyFaults' \in 0 .. MaxCopyFaults
    BY <1>20 DEF X!AbortUpload, X!TypeOK
  <2>2. \A u \in X!Uploads : \A n \in DOMAIN parts'[u] : parts'[u][n] \in X!Versions \cup {X!Hole}
    BY <1>20, NoData DEF X!AbortUpload, X!TypeOK, PartsInv, X!None
  <2> QED
    BY <1>20, <2>1, <2>2 DEF X!AbortUpload, X!ResultUnchanged, X!files, X!history, X!TypeOK
<1>21. CASE X!ArchiveCancelled
  BY <1>21
  DEF X!ArchiveCancelled, X!stores, X!ResultUnchanged, X!NoAttempt, X!files, X!history,
      X!TypeOK
<1>22. ASSUME NEW what \in {"pause", "cancel"}, X!Signal(what) PROVE X!TypeOK'
  BY <1>22 DEF X!Signal, X!stores, X!row, X!files, X!TypeOK
<1>23. CASE X!PauseTask
  BY <1>23 DEF X!PauseTask, X!stores, X!files, X!attempt, X!history, X!TypeOK
<1>24. CASE X!CancelTask
  BY <1>24 DEF X!CancelTask, X!stores, X!files, X!attempt, X!history, X!TypeOK
<1>25. CASE X!MakePending
  BY <1>25 DEF X!MakePending, X!stores, X!files, X!attempt, X!bounds, X!history, X!TypeOK
<1>26. CASE X!Replace
  BY <1>26 DEF X!Replace, X!row, X!files, X!attempt, X!bounds, X!history, X!TypeOK
<1>27. CASE X!Crash
  <2>1. crashes' \in 0 .. MaxCrashes
    BY <1>27 DEF X!Crash, X!TypeOK
  <2> QED
    BY <1>27, <2>1 DEF X!Crash, X!stores, X!files, X!history, X!NoAttempt, X!TypeOK
<1>28. CASE UNCHANGED X!vars
  BY <1>28 DEF X!vars, X!stores, X!row, X!files, X!attempt, X!history, X!bounds, X!TypeOK
<1>29. ASSUME X!Download PROVE X!TypeOK'
  BY <1>29, <1>3, <1>4, <1>5, <1>6 DEF X!Download
<1>30. ASSUME X!Upload PROVE X!TypeOK'
  BY <1>30, <1>7, <1>8, <1>9, <1>10, <1>11, <1>12, <1>13, <1>14, <1>15 DEF X!Upload
<1>31. ASSUME X!End PROVE X!TypeOK'
  BY <1>31, <1>16, <1>17, <1>18, <1>19, <1>20, <1>21 DEF X!End
<1>32. ASSUME X!User PROVE X!TypeOK'
  BY <1>32, <1>22, <1>23, <1>24, <1>25 DEF X!User
<1> QED
  BY <1>1, <1>2, <1>29, <1>30, <1>31, <1>32, <1>26, <1>27, <1>28 DEF X!Next

LEMMA CrossStepStep ==
    ASSUME X!TypeOK, CrossStepInv, [X!Next]_(X!vars)
    PROVE  CrossStepInv'
<1>. USE CrossConstants
<1>1. ASSUME NEW move \in BOOLEAN, X!QueueCopyBetweenProfiles(move) PROVE CrossStepInv'
  BY <1>1
  DEF X!QueueCopyBetweenProfiles, X!stores, X!files, X!attempt, X!bounds, X!TypeOK,
      CrossStepInv, Downloaded, Uploading
<1>2. CASE X!Start
  BY <1>2
  DEF X!Start, X!stores, X!files, X!bounds, X!history, X!TypeOK, CrossStepInv, Downloaded,
      Uploading
<1>3. CASE X!HeadObject
  BY <1>3
  DEF X!HeadObject, X!stores, X!AttemptUnchanged, X!row, X!TypeOK, CrossStepInv, Downloaded,
      Uploading, X!AfterDownload
<1>4. ASSUME NEW n \in DOMAIN staging, X!DownloadSegment(n) PROVE CrossStepInv'
  BY <1>4
  DEF X!DownloadSegment, X!stores, X!AttemptUnchanged, X!row, X!TypeOK, CrossStepInv,
      Downloaded, Uploading
<1>5. CASE X!DownloadDone
  BY <1>5
  DEF X!DownloadDone, X!stores, X!AttemptUnchanged, X!row, X!TypeOK, CrossStepInv, Downloaded,
      Uploading, X!AfterDownload
<1>6. CASE X!DownloadFails
  BY <1>6
  DEF X!DownloadFails, X!stores, X!files, X!AttemptUnchanged, X!Ends, X!Errors, X!row,
      X!TypeOK, CrossStepInv, Downloaded, Uploading
<1>7. CASE X!PutObject
  BY <1>7
  DEF X!PutObject, X!UploadUnchanged, X!files, X!AttemptUnchanged, X!row, X!TypeOK,
      CrossStepInv, Downloaded, Uploading
<1>8. CASE X!PutObjectTooLong
  BY <1>8
  DEF X!PutObjectTooLong, X!UploadUnchanged, X!Ends, X!Errors, X!files, X!AttemptUnchanged,
      X!row, X!TypeOK, CrossStepInv, Downloaded, Uploading
<1>9. CASE X!CreateMultipartUpload
  BY <1>9
  DEF X!CreateMultipartUpload, X!UploadUnchanged, X!files, X!AttemptUnchanged, X!row, X!TypeOK,
      CrossStepInv, Downloaded, Uploading
<1>10. CASE X!PersistUploadID
  BY <1>10
  DEF X!PersistUploadID, X!stores, X!files, X!bounds, X!history, X!TypeOK, CrossStepInv,
      Downloaded, Uploading
<1>11. CASE X!ListParts
  BY <1>11
  DEF X!ListParts, X!UploadUnchanged, X!files, X!AttemptUnchanged, X!row, X!TypeOK,
      CrossStepInv, Downloaded, Uploading
<1>12. ASSUME NEW n \in 1 .. totalBytes, X!UploadPart(n) PROVE CrossStepInv'
  BY <1>12
  DEF X!UploadPart, X!UploadUnchanged, X!files, X!AttemptUnchanged, X!row, X!TypeOK,
      CrossStepInv, Downloaded, Uploading
<1>13. CASE X!PartsDone
  BY <1>13
  DEF X!PartsDone, X!stores, X!files, X!AttemptUnchanged, X!row, X!TypeOK, CrossStepInv,
      Downloaded, Uploading
<1>14. CASE X!CompleteMultipartUpload
  BY <1>14
  DEF X!CompleteMultipartUpload, X!UploadUnchanged, X!Ends, X!Errors, X!files,
      X!AttemptUnchanged, X!row, X!TypeOK, CrossStepInv, Downloaded, Uploading
<1>15. CASE X!UploadFails
  BY <1>15
  DEF X!UploadFails, X!stores, X!files, X!AttemptUnchanged, X!Ends, X!Errors, X!row, X!TypeOK,
      CrossStepInv, Downloaded, Uploading
<1>16. CASE X!RemoveStaging
  BY <1>16
  DEF X!RemoveStaging, X!stores, X!AttemptUnchanged, X!row, X!TypeOK, CrossStepInv, Downloaded,
      Uploading
<1>17. CASE X!DeleteSource
  BY <1>17
  DEF X!DeleteSource, X!files, X!AttemptUnchanged, X!row, X!TypeOK, CrossStepInv, Downloaded,
      Uploading
<1>18. CASE X!HandleResult
  BY <1>18
  DEF X!HandleResult, X!stores, X!ResultUnchanged, X!NoAttempt, X!files, X!history, X!TypeOK,
      CrossStepInv, Downloaded, Uploading
<1>19. CASE X!CancelledResult
  BY <1>19
  DEF X!CancelledResult, X!stores, X!ResultUnchanged, X!files, X!history, X!TypeOK,
      CrossStepInv, Downloaded, Uploading, X!NoUpload
<1>20. CASE X!AbortUpload
  BY <1>20
  DEF X!AbortUpload, X!ResultUnchanged, X!files, X!history, X!TypeOK, CrossStepInv, Downloaded,
      Uploading
<1>21. CASE X!ArchiveCancelled
  BY <1>21
  DEF X!ArchiveCancelled, X!stores, X!ResultUnchanged, X!NoAttempt, X!files, X!history,
      X!TypeOK, CrossStepInv, Downloaded, Uploading
<1>22. ASSUME NEW what \in {"pause", "cancel"}, X!Signal(what) PROVE CrossStepInv'
  BY <1>22 DEF X!Signal, X!stores, X!row, X!files, X!TypeOK, CrossStepInv, Downloaded, Uploading
<1>23. CASE X!PauseTask
  BY <1>23
  DEF X!PauseTask, X!stores, X!files, X!attempt, X!history, X!TypeOK, CrossStepInv, Downloaded,
      Uploading
<1>24. CASE X!CancelTask
  BY <1>24
  DEF X!CancelTask, X!stores, X!files, X!attempt, X!history, X!TypeOK, CrossStepInv,
      Downloaded, Uploading
<1>25. CASE X!MakePending
  BY <1>25
  DEF X!MakePending, X!stores, X!files, X!attempt, X!bounds, X!history, X!TypeOK, CrossStepInv,
      Downloaded, Uploading
<1>26. CASE X!Replace
  BY <1>26
  DEF X!Replace, X!row, X!files, X!attempt, X!bounds, X!history, X!TypeOK, CrossStepInv,
      Downloaded, Uploading
<1>27. CASE X!Crash
  BY <1>27
  DEF X!Crash, X!stores, X!files, X!history, X!NoAttempt, X!TypeOK, CrossStepInv, Downloaded,
      Uploading
<1>28. CASE UNCHANGED X!vars
  BY <1>28
  DEF X!vars, X!stores, X!row, X!files, X!attempt, X!history, X!bounds, X!TypeOK, CrossStepInv,
      Downloaded, Uploading
<1>29. ASSUME X!Download PROVE CrossStepInv'
  BY <1>29, <1>3, <1>4, <1>5, <1>6 DEF X!Download
<1>30. ASSUME X!Upload PROVE CrossStepInv'
  BY <1>30, <1>7, <1>8, <1>9, <1>10, <1>11, <1>12, <1>13, <1>14, <1>15 DEF X!Upload
<1>31. ASSUME X!End PROVE CrossStepInv'
  BY <1>31, <1>16, <1>17, <1>18, <1>19, <1>20, <1>21 DEF X!End
<1>32. ASSUME X!User PROVE CrossStepInv'
  BY <1>32, <1>22, <1>23, <1>24, <1>25 DEF X!User
<1> QED
  BY <1>1, <1>2, <1>29, <1>30, <1>31, <1>32, <1>26, <1>27, <1>28 DEF X!Next

LEMMA QueuedStep ==
    ASSUME X!TypeOK, CrossStepInv, QueuedInv, [X!Next]_(X!vars)
    PROVE  QueuedInv'
<1>. USE CrossConstants, FilesAreData
<1>1. ASSUME NEW move \in BOOLEAN, X!QueueCopyBetweenProfiles(move) PROVE QueuedInv'
  BY <1>1
  DEF X!QueueCopyBetweenProfiles, X!stores, X!files, X!attempt, X!bounds, X!TypeOK,
      CrossStepInv, QueuedInv
<1>2. CASE X!Start
  BY <1>2 DEF X!Start, X!stores, X!files, X!bounds, X!history, X!TypeOK, CrossStepInv, QueuedInv
<1>3. CASE X!HeadObject
  BY <1>3
  DEF X!HeadObject, X!stores, X!AttemptUnchanged, X!row, X!TypeOK, CrossStepInv, QueuedInv
<1>4. ASSUME NEW n \in DOMAIN staging, X!DownloadSegment(n) PROVE QueuedInv'
  BY <1>4
  DEF X!DownloadSegment, X!stores, X!AttemptUnchanged, X!row, X!TypeOK, CrossStepInv, QueuedInv
<1>5. CASE X!DownloadDone
  BY <1>5
  DEF X!DownloadDone, X!stores, X!AttemptUnchanged, X!row, X!TypeOK, CrossStepInv, QueuedInv
<1>6. CASE X!DownloadFails
  BY <1>6
  DEF X!DownloadFails, X!stores, X!files, X!AttemptUnchanged, X!Ends, X!Errors, X!row,
      X!TypeOK, CrossStepInv, QueuedInv
<1>7. CASE X!PutObject
  BY <1>7
  DEF X!PutObject, X!UploadUnchanged, X!files, X!AttemptUnchanged, X!row, X!TypeOK,
      CrossStepInv, QueuedInv
<1>8. CASE X!PutObjectTooLong
  BY <1>8
  DEF X!PutObjectTooLong, X!UploadUnchanged, X!Ends, X!Errors, X!files, X!AttemptUnchanged,
      X!row, X!TypeOK, CrossStepInv, QueuedInv
<1>9. CASE X!CreateMultipartUpload
  BY <1>9
  DEF X!CreateMultipartUpload, X!UploadUnchanged, X!files, X!AttemptUnchanged, X!row, X!TypeOK,
      CrossStepInv, QueuedInv
<1>10. CASE X!PersistUploadID
  BY <1>10
  DEF X!PersistUploadID, X!stores, X!files, X!bounds, X!history, X!TypeOK, CrossStepInv,
      QueuedInv
<1>11. CASE X!ListParts
  BY <1>11
  DEF X!ListParts, X!UploadUnchanged, X!files, X!AttemptUnchanged, X!row, X!TypeOK,
      CrossStepInv, QueuedInv
<1>12. ASSUME NEW n \in 1 .. totalBytes, X!UploadPart(n) PROVE QueuedInv'
  BY <1>12
  DEF X!UploadPart, X!UploadUnchanged, X!files, X!AttemptUnchanged, X!row, X!TypeOK,
      CrossStepInv, QueuedInv
<1>13. CASE X!PartsDone
  BY <1>13
  DEF X!PartsDone, X!stores, X!files, X!AttemptUnchanged, X!row, X!TypeOK, CrossStepInv,
      QueuedInv
<1>14. CASE X!CompleteMultipartUpload
  BY <1>14
  DEF X!CompleteMultipartUpload, X!UploadUnchanged, X!Ends, X!Errors, X!files,
      X!AttemptUnchanged, X!row, X!TypeOK, CrossStepInv, QueuedInv
<1>15. CASE X!UploadFails
  BY <1>15
  DEF X!UploadFails, X!stores, X!files, X!AttemptUnchanged, X!Ends, X!Errors, X!row, X!TypeOK,
      CrossStepInv, QueuedInv
<1>16. CASE X!RemoveStaging
  BY <1>16
  DEF X!RemoveStaging, X!stores, X!AttemptUnchanged, X!row, X!TypeOK, CrossStepInv, QueuedInv
<1>17. CASE X!DeleteSource
  BY <1>17
  DEF X!DeleteSource, X!files, X!AttemptUnchanged, X!row, X!TypeOK, CrossStepInv, QueuedInv
<1>18. CASE X!HandleResult
  BY <1>18
  DEF X!HandleResult, X!stores, X!ResultUnchanged, X!NoAttempt, X!files, X!history, X!TypeOK,
      CrossStepInv, QueuedInv
<1>19. CASE X!CancelledResult
  BY <1>19
  DEF X!CancelledResult, X!stores, X!ResultUnchanged, X!files, X!history, X!TypeOK,
      CrossStepInv, QueuedInv
<1>20. CASE X!AbortUpload
  BY <1>20
  DEF X!AbortUpload, X!ResultUnchanged, X!files, X!history, X!TypeOK, CrossStepInv, QueuedInv
<1>21. CASE X!ArchiveCancelled
  BY <1>21
  DEF X!ArchiveCancelled, X!stores, X!ResultUnchanged, X!NoAttempt, X!files, X!history,
      X!TypeOK, CrossStepInv, QueuedInv
<1>22. ASSUME NEW what \in {"pause", "cancel"}, X!Signal(what) PROVE QueuedInv'
  BY <1>22 DEF X!Signal, X!stores, X!row, X!files, X!TypeOK, CrossStepInv, QueuedInv
<1>23. CASE X!PauseTask
  BY <1>23
  DEF X!PauseTask, X!stores, X!files, X!attempt, X!history, X!TypeOK, CrossStepInv, QueuedInv
<1>24. CASE X!CancelTask
  BY <1>24
  DEF X!CancelTask, X!stores, X!files, X!attempt, X!history, X!TypeOK, CrossStepInv, QueuedInv
<1>25. CASE X!MakePending
  BY <1>25
  DEF X!MakePending, X!stores, X!files, X!attempt, X!bounds, X!history, X!TypeOK, CrossStepInv,
      QueuedInv
<1>26. CASE X!Replace
  BY <1>26
  DEF X!Replace, X!row, X!files, X!attempt, X!bounds, X!history, X!TypeOK, CrossStepInv,
      QueuedInv
<1>27. CASE X!Crash
  BY <1>27
  DEF X!Crash, X!stores, X!files, X!history, X!NoAttempt, X!TypeOK, CrossStepInv, QueuedInv
<1>28. CASE UNCHANGED X!vars
  BY <1>28
  DEF X!vars, X!stores, X!row, X!files, X!attempt, X!history, X!bounds, X!TypeOK, CrossStepInv,
      QueuedInv
<1>29. ASSUME X!Download PROVE QueuedInv'
  BY <1>29, <1>3, <1>4, <1>5, <1>6 DEF X!Download
<1>30. ASSUME X!Upload PROVE QueuedInv'
  BY <1>30, <1>7, <1>8, <1>9, <1>10, <1>11, <1>12, <1>13, <1>14, <1>15 DEF X!Upload
<1>31. ASSUME X!End PROVE QueuedInv'
  BY <1>31, <1>16, <1>17, <1>18, <1>19, <1>20, <1>21 DEF X!End
<1>32. ASSUME X!User PROVE QueuedInv'
  BY <1>32, <1>22, <1>23, <1>24, <1>25 DEF X!User
<1> QED
  BY <1>1, <1>2, <1>29, <1>30, <1>31, <1>32, <1>26, <1>27, <1>28 DEF X!Next

LEMMA PartsStep ==
    ASSUME X!TypeOK, CrossStepInv, PartsInv, [X!Next]_(X!vars)
    PROVE  PartsInv'
<1>. USE CrossConstants, NoData
<1>1. ASSUME NEW move \in BOOLEAN, X!QueueCopyBetweenProfiles(move) PROVE PartsInv'
  BY <1>1
  DEF X!QueueCopyBetweenProfiles, X!stores, X!files, X!attempt, X!bounds, X!TypeOK,
      CrossStepInv, PartsInv
<1>2. CASE X!Start
  BY <1>2 DEF X!Start, X!stores, X!files, X!bounds, X!history, X!TypeOK, CrossStepInv, PartsInv
<1>3. CASE X!HeadObject
  BY <1>3
  DEF X!HeadObject, X!stores, X!AttemptUnchanged, X!row, X!TypeOK, CrossStepInv, PartsInv,
      X!AfterDownload
<1>4. ASSUME NEW n \in DOMAIN staging, X!DownloadSegment(n) PROVE PartsInv'
  BY <1>4
  DEF X!DownloadSegment, X!stores, X!AttemptUnchanged, X!row, X!TypeOK, CrossStepInv, PartsInv
<1>5. CASE X!DownloadDone
  BY <1>5
  DEF X!DownloadDone, X!stores, X!AttemptUnchanged, X!row, X!TypeOK, CrossStepInv, PartsInv,
      X!AfterDownload
<1>6. CASE X!DownloadFails
  BY <1>6
  DEF X!DownloadFails, X!stores, X!files, X!AttemptUnchanged, X!Ends, X!Errors, X!row,
      X!TypeOK, CrossStepInv, PartsInv
<1>7. CASE X!PutObject
  BY <1>7
  DEF X!PutObject, X!UploadUnchanged, X!files, X!AttemptUnchanged, X!row, X!TypeOK,
      CrossStepInv, PartsInv
<1>8. CASE X!PutObjectTooLong
  BY <1>8
  DEF X!PutObjectTooLong, X!UploadUnchanged, X!Ends, X!Errors, X!files, X!AttemptUnchanged,
      X!row, X!TypeOK, CrossStepInv, PartsInv
<1>9. CASE X!CreateMultipartUpload
  BY <1>9
  DEF X!CreateMultipartUpload, X!UploadUnchanged, X!files, X!AttemptUnchanged, X!row, X!TypeOK,
      CrossStepInv, PartsInv
<1>10. CASE X!PersistUploadID
  BY <1>10
  DEF X!PersistUploadID, X!stores, X!files, X!bounds, X!history, X!TypeOK, CrossStepInv,
      PartsInv
<1>11. CASE X!ListParts
  BY <1>11
  DEF X!ListParts, X!UploadUnchanged, X!files, X!AttemptUnchanged, X!row, X!TypeOK,
      CrossStepInv, PartsInv, X!Open
<1>12. ASSUME NEW n \in 1 .. totalBytes, X!UploadPart(n) PROVE PartsInv'
  <2>1. \A m \in DOMAIN partETags' : partETags'[m] \in X!Versions \cup {X!Hole}
    BY <1>12, FilesAreData DEF X!UploadPart, PartsInv
  <2>2. parts' = [u \in X!Uploads |-> parts'[u]]
    BY <1>12 DEF X!UploadPart, PartsInv
  <2> QED
    BY <1>12, <2>1, <2>2 DEF X!UploadPart, X!UploadUnchanged, PartsInv
<1>13. CASE X!PartsDone
  BY <1>13
  DEF X!PartsDone, X!stores, X!files, X!AttemptUnchanged, X!row, X!TypeOK, CrossStepInv,
      PartsInv
<1>14. CASE X!CompleteMultipartUpload
  BY <1>14
  DEF X!CompleteMultipartUpload, X!UploadUnchanged, X!Ends, X!Errors, X!files,
      X!AttemptUnchanged, X!row, X!TypeOK, CrossStepInv, PartsInv
<1>15. CASE X!UploadFails
  BY <1>15
  DEF X!UploadFails, X!stores, X!files, X!AttemptUnchanged, X!Ends, X!Errors, X!row, X!TypeOK,
      CrossStepInv, PartsInv
<1>16. CASE X!RemoveStaging
  BY <1>16
  DEF X!RemoveStaging, X!stores, X!AttemptUnchanged, X!row, X!TypeOK, CrossStepInv, PartsInv
<1>17. CASE X!DeleteSource
  BY <1>17
  DEF X!DeleteSource, X!files, X!AttemptUnchanged, X!row, X!TypeOK, CrossStepInv, PartsInv
<1>18. CASE X!HandleResult
  BY <1>18
  DEF X!HandleResult, X!stores, X!ResultUnchanged, X!NoAttempt, X!files, X!history, X!TypeOK,
      CrossStepInv, PartsInv, X!None
<1>19. CASE X!CancelledResult
  BY <1>19
  DEF X!CancelledResult, X!stores, X!ResultUnchanged, X!files, X!history, X!TypeOK,
      CrossStepInv, PartsInv
<1>20. CASE X!AbortUpload
  BY <1>20
  DEF X!AbortUpload, X!ResultUnchanged, X!files, X!history, X!TypeOK, CrossStepInv, PartsInv
<1>21. CASE X!ArchiveCancelled
  BY <1>21
  DEF X!ArchiveCancelled, X!stores, X!ResultUnchanged, X!NoAttempt, X!files, X!history,
      X!TypeOK, CrossStepInv, PartsInv, X!None
<1>22. ASSUME NEW what \in {"pause", "cancel"}, X!Signal(what) PROVE PartsInv'
  BY <1>22 DEF X!Signal, X!stores, X!row, X!files, X!TypeOK, CrossStepInv, PartsInv
<1>23. CASE X!PauseTask
  BY <1>23
  DEF X!PauseTask, X!stores, X!files, X!attempt, X!history, X!TypeOK, CrossStepInv, PartsInv
<1>24. CASE X!CancelTask
  BY <1>24
  DEF X!CancelTask, X!stores, X!files, X!attempt, X!history, X!TypeOK, CrossStepInv, PartsInv
<1>25. CASE X!MakePending
  BY <1>25
  DEF X!MakePending, X!stores, X!files, X!attempt, X!bounds, X!history, X!TypeOK, CrossStepInv,
      PartsInv
<1>26. CASE X!Replace
  BY <1>26
  DEF X!Replace, X!row, X!files, X!attempt, X!bounds, X!history, X!TypeOK, CrossStepInv,
      PartsInv
<1>27. CASE X!Crash
  BY <1>27
  DEF X!Crash, X!stores, X!files, X!history, X!NoAttempt, X!TypeOK, CrossStepInv, PartsInv,
      X!None
<1>28. CASE UNCHANGED X!vars
  BY <1>28
  DEF X!vars, X!stores, X!row, X!files, X!attempt, X!history, X!bounds, X!TypeOK, CrossStepInv,
      PartsInv
<1>29. ASSUME X!Download PROVE PartsInv'
  BY <1>29, <1>3, <1>4, <1>5, <1>6 DEF X!Download
<1>30. ASSUME X!Upload PROVE PartsInv'
  BY <1>30, <1>7, <1>8, <1>9, <1>10, <1>11, <1>12, <1>13, <1>14, <1>15 DEF X!Upload
<1>31. ASSUME X!End PROVE PartsInv'
  BY <1>31, <1>16, <1>17, <1>18, <1>19, <1>20, <1>21 DEF X!End
<1>32. ASSUME X!User PROVE PartsInv'
  BY <1>32, <1>22, <1>23, <1>24, <1>25 DEF X!User
<1> QED
  BY <1>1, <1>2, <1>29, <1>30, <1>31, <1>32, <1>26, <1>27, <1>28 DEF X!Next

LEMMA SameSourceStep ==
    ASSUME X!TypeOK, CrossStepInv, QueuedInv, PartsInv, SameSourceInv, [X!Next]_(X!vars)
    PROVE  SameSourceInv'
<1>. USE CrossConstants, NoData, FilesAreData
<1>1. ASSUME NEW move \in BOOLEAN, X!QueueCopyBetweenProfiles(move) PROVE SameSourceInv'
  BY <1>1
  DEF X!QueueCopyBetweenProfiles, X!stores, X!files, X!attempt, X!bounds, X!TypeOK,
      CrossStepInv, QueuedInv, PartsInv, SameSourceInv, Uploading, X!Copy
<1>2. CASE X!Start
  BY <1>2
  DEF X!Start, X!stores, X!files, X!bounds, X!history, X!TypeOK, CrossStepInv, QueuedInv,
      PartsInv, SameSourceInv, Uploading, X!Copy
<1>3. CASE X!HeadObject
  <2> SUFFICES ASSUME source = queued PROVE SameSourceInv'
    BY <1>3
    DEF X!HeadObject, X!stores, X!AttemptUnchanged, X!row, CrossStepInv, QueuedInv, SameSourceInv
  <2>1. queued \in X!Versions /\ status # "none"
    BY <1>3 DEF X!HeadObject, QueuedInv, X!TypeOK
  <2>2. /\ staging' = X!Resized(staging, size[queued]) /\ Len(staging') = size[queued]
        /\ DOMAIN staging' = 1 .. size[queued]
    BY <1>3, <2>1, ResizedIsFile DEF X!HeadObject
  <2>3. \A n \in sidecar : n \in DOMAIN staging /\ staging[n] = queued
    BY DEF SameSourceInv
  <2>4. \A n \in DOMAIN staging' \cap sidecar : staging'[n] = queued
    BY <2>1, <2>2, <2>3 DEF X!Resized
  <2>5. \A n \in sidecar : n \in DOMAIN staging'
    <3>1. Len(staging) = 0 \/ Len(staging) = size[queued]
      BY DEF SameSourceInv
    <3> QED
      BY <2>1, <2>2, <2>3, <3>1
  <2>6. CASE DOMAIN staging' \subseteq sidecar
    <3>1. staging' = X!Copy(queued)
      <4>1. \A i \in 1 .. size[queued] : staging'[i] = queued
        BY <2>2, <2>4, <2>6
      <4>2. staging' = [i \in 1 .. size[queued] |-> staging'[i]]
        BY <2>2 DEF X!Resized
      <4> QED
        BY <4>1, <4>2 DEF X!Copy
    <3> QED
      BY <1>3, <2>1, <2>2, <2>6, <3>1
      DEF X!HeadObject, X!AfterDownload, X!stores, X!AttemptUnchanged, X!row, SameSourceInv, X!Copy
  <2>7. CASE ~(DOMAIN staging' \subseteq sidecar)
    BY <1>3, <2>1, <2>2, <2>4, <2>5, <2>7
    DEF X!HeadObject, X!stores, X!AttemptUnchanged, X!row, SameSourceInv, Uploading
  <2> QED
    BY <2>6, <2>7
<1>4. ASSUME NEW n \in DOMAIN staging, X!DownloadSegment(n) PROVE SameSourceInv'
  BY <1>4
  DEF X!DownloadSegment, X!stores, X!AttemptUnchanged, X!row, X!TypeOK, CrossStepInv,
      QueuedInv, PartsInv, SameSourceInv, Uploading, X!Copy
<1>5. CASE X!DownloadDone
  <2> SUFFICES ASSUME source = queued PROVE SameSourceInv'
    BY <1>5
    DEF X!DownloadDone, X!stores, X!AttemptUnchanged, X!row, CrossStepInv, QueuedInv, SameSourceInv
  <2>1. queued \in X!Versions /\ status # "none"
    BY <1>5 DEF X!DownloadDone, CrossStepInv, QueuedInv, X!TypeOK
  <2>2. staging = X!Copy(queued)
    BY <1>5, <2>1 DEF X!DownloadDone, SameSourceInv, X!Copy
  <2>3. /\ pc' # "fetch" /\ sidecar' = {} /\ staging' = X!Copy(queued)'
        /\ UNCHANGED <<source, queued, size, staging, status, parts, partETags>>
    BY <1>5, <2>2
    DEF X!DownloadDone, X!AfterDownload, X!stores, X!AttemptUnchanged, X!row, X!Copy
  <2> QED
    BY <2>1, <2>3 DEF SameSourceInv
<1>6. CASE X!DownloadFails
  BY <1>6
  DEF X!DownloadFails, X!stores, X!files, X!AttemptUnchanged, X!Ends, X!Errors, X!row,
      X!TypeOK, CrossStepInv, QueuedInv, PartsInv, SameSourceInv, Uploading, X!Copy
<1>7. CASE X!PutObject
  BY <1>7
  DEF X!PutObject, X!UploadUnchanged, X!files, X!AttemptUnchanged, X!row, X!TypeOK,
      CrossStepInv, QueuedInv, PartsInv, SameSourceInv, Uploading, X!Copy
<1>8. CASE X!PutObjectTooLong
  BY <1>8
  DEF X!PutObjectTooLong, X!UploadUnchanged, X!Ends, X!Errors, X!files, X!AttemptUnchanged,
      X!row, X!TypeOK, CrossStepInv, QueuedInv, PartsInv, SameSourceInv, Uploading, X!Copy
<1>9. CASE X!CreateMultipartUpload
  BY <1>9
  DEF X!CreateMultipartUpload, X!UploadUnchanged, X!files, X!AttemptUnchanged, X!row, X!TypeOK,
      CrossStepInv, QueuedInv, PartsInv, SameSourceInv, Uploading, X!Copy
<1>10. CASE X!PersistUploadID
  BY <1>10
  DEF X!PersistUploadID, X!stores, X!files, X!bounds, X!history, X!TypeOK, CrossStepInv,
      QueuedInv, PartsInv, SameSourceInv, Uploading, X!Copy
<1>11. CASE X!ListParts
  BY <1>11
  DEF X!ListParts, X!UploadUnchanged, X!files, X!AttemptUnchanged, X!row, X!TypeOK,
      CrossStepInv, QueuedInv, PartsInv, SameSourceInv, Uploading, X!Copy, X!Open
<1>12. ASSUME NEW n \in 1 .. totalBytes, X!UploadPart(n) PROVE SameSourceInv'
  BY <1>12
  DEF X!UploadPart, X!UploadUnchanged, X!files, X!AttemptUnchanged, X!row, X!TypeOK,
      CrossStepInv, QueuedInv, PartsInv, SameSourceInv, Uploading, X!Copy
<1>13. CASE X!PartsDone
  BY <1>13
  DEF X!PartsDone, X!stores, X!files, X!AttemptUnchanged, X!row, X!TypeOK, CrossStepInv,
      QueuedInv, PartsInv, SameSourceInv, Uploading, X!Copy
<1>14. CASE X!CompleteMultipartUpload
  <2>1. \A u \in X!Uploads : \A n \in DOMAIN parts'[u] :
          n \in DOMAIN parts[u] /\ parts'[u][n] = parts[u][n]
    BY <1>14 DEF X!CompleteMultipartUpload, PartsInv, X!None
  <2>2. /\ pc' \in {"unstage", "result"} /\ status # "none"
        /\ UNCHANGED <<source, queued, size, staging, sidecar, status, partETags>>
    BY <1>14
    DEF X!CompleteMultipartUpload, X!UploadUnchanged, X!Ends, X!files, X!AttemptUnchanged, X!row,
        CrossStepInv
  <2> QED
    BY <2>1, <2>2 DEF SameSourceInv, Uploading, X!Copy
<1>15. CASE X!UploadFails
  BY <1>15
  DEF X!UploadFails, X!stores, X!files, X!AttemptUnchanged, X!Ends, X!Errors, X!row, X!TypeOK,
      CrossStepInv, QueuedInv, PartsInv, SameSourceInv, Uploading, X!Copy
<1>16. CASE X!RemoveStaging
  BY <1>16
  DEF X!RemoveStaging, X!stores, X!AttemptUnchanged, X!row, X!TypeOK, CrossStepInv, QueuedInv,
      PartsInv, SameSourceInv, Uploading, X!Copy, X!None, Downloaded
<1>17. CASE X!DeleteSource
  BY <1>17
  DEF X!DeleteSource, X!files, X!AttemptUnchanged, X!row, X!TypeOK, CrossStepInv, QueuedInv,
      PartsInv, SameSourceInv, Uploading, X!Copy
<1>18. CASE X!HandleResult
  BY <1>18
  DEF X!HandleResult, X!stores, X!ResultUnchanged, X!NoAttempt, X!files, X!history, X!TypeOK,
      CrossStepInv, QueuedInv, PartsInv, SameSourceInv, Uploading, X!Copy, X!None
<1>19. CASE X!CancelledResult
  BY <1>19
  DEF X!CancelledResult, X!stores, X!ResultUnchanged, X!files, X!history, X!TypeOK,
      CrossStepInv, QueuedInv, PartsInv, SameSourceInv, Uploading, X!Copy
<1>20. CASE X!AbortUpload
  <2>1. \A u \in X!Uploads : \A n \in DOMAIN parts'[u] :
          n \in DOMAIN parts[u] /\ parts'[u][n] = parts[u][n]
    BY <1>20 DEF X!AbortUpload, PartsInv, X!None
  <2>2. /\ pc' = "archive" /\ status # "none"
        /\ UNCHANGED <<source, queued, size, staging, sidecar, status, partETags>>
    BY <1>20 DEF X!AbortUpload, X!ResultUnchanged, X!files, X!history, CrossStepInv
  <2> QED
    BY <2>1, <2>2 DEF SameSourceInv, Uploading, X!Copy
<1>21. CASE X!ArchiveCancelled
  BY <1>21
  DEF X!ArchiveCancelled, X!stores, X!ResultUnchanged, X!NoAttempt, X!files, X!history,
      X!TypeOK, CrossStepInv, QueuedInv, PartsInv, SameSourceInv, Uploading, X!Copy, X!None
<1>22. ASSUME NEW what \in {"pause", "cancel"}, X!Signal(what) PROVE SameSourceInv'
  BY <1>22
  DEF X!Signal, X!stores, X!row, X!files, X!TypeOK, CrossStepInv, QueuedInv, PartsInv,
      SameSourceInv, Uploading, X!Copy
<1>23. CASE X!PauseTask
  BY <1>23
  DEF X!PauseTask, X!stores, X!files, X!attempt, X!history, X!TypeOK, CrossStepInv, QueuedInv,
      PartsInv, SameSourceInv, Uploading, X!Copy
<1>24. CASE X!CancelTask
  BY <1>24
  DEF X!CancelTask, X!stores, X!files, X!attempt, X!history, X!TypeOK, CrossStepInv, QueuedInv,
      PartsInv, SameSourceInv, Uploading, X!Copy
<1>25. CASE X!MakePending
  BY <1>25
  DEF X!MakePending, X!stores, X!files, X!attempt, X!bounds, X!history, X!TypeOK, CrossStepInv,
      QueuedInv, PartsInv, SameSourceInv, Uploading, X!Copy
<1>26. CASE X!Replace
  BY <1>26
  DEF X!Replace, X!row, X!files, X!attempt, X!bounds, X!history, X!TypeOK, CrossStepInv,
      QueuedInv, PartsInv, SameSourceInv, Uploading, X!Copy
<1>27. CASE X!Crash
  <2>1. /\ pc' = "idle" /\ partETags' = <<>> /\ (status' = "none" <=> status = "none")
        /\ UNCHANGED <<source, queued, size, staging, sidecar, parts>>
    BY <1>27 DEF X!Crash, X!NoAttempt, X!stores, X!history, X!files, X!None
  <2> QED
    BY <2>1 DEF SameSourceInv, Uploading, X!Copy
<1>28. CASE UNCHANGED X!vars
  BY <1>28
  DEF X!vars, X!stores, X!row, X!files, X!attempt, X!history, X!bounds, X!TypeOK, CrossStepInv,
      QueuedInv, PartsInv, SameSourceInv, Uploading, X!Copy
<1>29. ASSUME X!Download PROVE SameSourceInv'
  BY <1>29, <1>3, <1>4, <1>5, <1>6 DEF X!Download
<1>30. ASSUME X!Upload PROVE SameSourceInv'
  BY <1>30, <1>7, <1>8, <1>9, <1>10, <1>11, <1>12, <1>13, <1>14, <1>15 DEF X!Upload
<1>31. ASSUME X!End PROVE SameSourceInv'
  BY <1>31, <1>16, <1>17, <1>18, <1>19, <1>20, <1>21 DEF X!End
<1>32. ASSUME X!User PROVE SameSourceInv'
  BY <1>32, <1>22, <1>23, <1>24, <1>25 DEF X!User
<1> QED
  BY <1>1, <1>2, <1>29, <1>30, <1>31, <1>32, <1>26, <1>27, <1>28 DEF X!Next

LEMMA StoredStep ==
    ASSUME X!TypeOK, CrossStepInv, QueuedInv, PartsInv, SameSourceInv, StoredInv,
           [X!Next]_(X!vars)
    PROVE  StoredInv'
<1>. USE CrossConstants, FilesAreData
<1>1. ASSUME NEW move \in BOOLEAN, X!QueueCopyBetweenProfiles(move) PROVE StoredInv'
  BY <1>1
  DEF X!QueueCopyBetweenProfiles, X!stores, X!files, X!attempt, X!bounds, X!TypeOK,
      CrossStepInv, QueuedInv, StoredInv, CopyStored, X!Copy
<1>2. CASE X!Start
  BY <1>2
  DEF X!Start, X!stores, X!files, X!bounds, X!history, X!TypeOK, CrossStepInv, QueuedInv,
      StoredInv, CopyStored, X!Copy
<1>3. CASE X!HeadObject
  BY <1>3
  DEF X!HeadObject, X!stores, X!AttemptUnchanged, X!row, X!TypeOK, CrossStepInv, QueuedInv,
      StoredInv, CopyStored, X!Copy, X!AfterDownload
<1>4. ASSUME NEW n \in DOMAIN staging, X!DownloadSegment(n) PROVE StoredInv'
  BY <1>4
  DEF X!DownloadSegment, X!stores, X!AttemptUnchanged, X!row, X!TypeOK, CrossStepInv,
      QueuedInv, StoredInv, CopyStored, X!Copy
<1>5. CASE X!DownloadDone
  BY <1>5
  DEF X!DownloadDone, X!stores, X!AttemptUnchanged, X!row, X!TypeOK, CrossStepInv, QueuedInv,
      StoredInv, CopyStored, X!Copy, X!AfterDownload
<1>6. CASE X!DownloadFails
  BY <1>6
  DEF X!DownloadFails, X!stores, X!files, X!AttemptUnchanged, X!Ends, X!Errors, X!row,
      X!TypeOK, CrossStepInv, QueuedInv, StoredInv, CopyStored, X!Copy
<1>7. CASE X!PutObject
  BY <1>7
  DEF X!PutObject, X!UploadUnchanged, X!files, X!AttemptUnchanged, X!row, X!TypeOK,
      CrossStepInv, QueuedInv, StoredInv, CopyStored, X!Copy, SameSourceInv, Uploading
<1>8. CASE X!PutObjectTooLong
  BY <1>8
  DEF X!PutObjectTooLong, X!UploadUnchanged, X!Ends, X!Errors, X!files, X!AttemptUnchanged,
      X!row, X!TypeOK, CrossStepInv, QueuedInv, StoredInv, CopyStored, X!Copy
<1>9. CASE X!CreateMultipartUpload
  BY <1>9
  DEF X!CreateMultipartUpload, X!UploadUnchanged, X!files, X!AttemptUnchanged, X!row, X!TypeOK,
      CrossStepInv, QueuedInv, StoredInv, CopyStored, X!Copy
<1>10. CASE X!PersistUploadID
  BY <1>10
  DEF X!PersistUploadID, X!stores, X!files, X!bounds, X!history, X!TypeOK, CrossStepInv,
      QueuedInv, StoredInv, CopyStored, X!Copy
<1>11. CASE X!ListParts
  BY <1>11
  DEF X!ListParts, X!UploadUnchanged, X!files, X!AttemptUnchanged, X!row, X!TypeOK,
      CrossStepInv, QueuedInv, StoredInv, CopyStored, X!Copy
<1>12. ASSUME NEW n \in 1 .. totalBytes, X!UploadPart(n) PROVE StoredInv'
  BY <1>12
  DEF X!UploadPart, X!UploadUnchanged, X!files, X!AttemptUnchanged, X!row, X!TypeOK,
      CrossStepInv, QueuedInv, StoredInv, CopyStored, X!Copy
<1>13. CASE X!PartsDone
  BY <1>13
  DEF X!PartsDone, X!stores, X!files, X!AttemptUnchanged, X!row, X!TypeOK, CrossStepInv,
      QueuedInv, StoredInv, CopyStored, X!Copy
<1>14. CASE X!CompleteMultipartUpload
  <2>1. Len(dest') = totalBytes
    BY <1>14 DEF X!CompleteMultipartUpload
  <2>2. source = queued => dest' = X!Copy(queued)
    BY <1>14 DEF X!CompleteMultipartUpload, SameSourceInv, PartsInv, QueuedInv, CrossStepInv, X!Copy
  <2>3. /\ UNCHANGED <<source, queued, size, totalBytes, status, isMove>>
        /\ pc' \in {"unstage", "result"} /\ err' = "none" => pc' = "unstage"
    BY <1>14
    DEF X!CompleteMultipartUpload, X!UploadUnchanged, X!Ends, X!Errors, X!AttemptUnchanged, X!row
  <2>4. status = "running"
    BY <1>14 DEF X!CompleteMultipartUpload, CrossStepInv
  <2> QED
    BY <2>1, <2>2, <2>3, <2>4 DEF StoredInv, CopyStored, X!Copy
<1>15. CASE X!UploadFails
  BY <1>15
  DEF X!UploadFails, X!stores, X!files, X!AttemptUnchanged, X!Ends, X!Errors, X!row, X!TypeOK,
      CrossStepInv, QueuedInv, StoredInv, CopyStored, X!Copy
<1>16. CASE X!RemoveStaging
  BY <1>16
  DEF X!RemoveStaging, X!stores, X!AttemptUnchanged, X!row, X!TypeOK, CrossStepInv, QueuedInv,
      StoredInv, CopyStored, X!Copy
<1>17. CASE X!DeleteSource
  BY <1>17
  DEF X!DeleteSource, X!files, X!AttemptUnchanged, X!row, X!TypeOK, CrossStepInv, QueuedInv,
      StoredInv, CopyStored, X!Copy
<1>18. CASE X!HandleResult
  BY <1>18
  DEF X!HandleResult, X!stores, X!ResultUnchanged, X!NoAttempt, X!files, X!history, X!TypeOK,
      CrossStepInv, QueuedInv, StoredInv, CopyStored, X!Copy
<1>19. CASE X!CancelledResult
  BY <1>19
  DEF X!CancelledResult, X!stores, X!ResultUnchanged, X!files, X!history, X!TypeOK,
      CrossStepInv, QueuedInv, StoredInv, CopyStored, X!Copy
<1>20. CASE X!AbortUpload
  BY <1>20
  DEF X!AbortUpload, X!ResultUnchanged, X!files, X!history, X!TypeOK, CrossStepInv, QueuedInv,
      StoredInv, CopyStored, X!Copy
<1>21. CASE X!ArchiveCancelled
  BY <1>21
  DEF X!ArchiveCancelled, X!stores, X!ResultUnchanged, X!NoAttempt, X!files, X!history,
      X!TypeOK, CrossStepInv, QueuedInv, StoredInv, CopyStored, X!Copy
<1>22. ASSUME NEW what \in {"pause", "cancel"}, X!Signal(what) PROVE StoredInv'
  BY <1>22
  DEF X!Signal, X!stores, X!row, X!files, X!TypeOK, CrossStepInv, QueuedInv, StoredInv,
      CopyStored, X!Copy
<1>23. CASE X!PauseTask
  BY <1>23
  DEF X!PauseTask, X!stores, X!files, X!attempt, X!history, X!TypeOK, CrossStepInv, QueuedInv,
      StoredInv, CopyStored, X!Copy
<1>24. CASE X!CancelTask
  BY <1>24
  DEF X!CancelTask, X!stores, X!files, X!attempt, X!history, X!TypeOK, CrossStepInv, QueuedInv,
      StoredInv, CopyStored, X!Copy
<1>25. CASE X!MakePending
  BY <1>25
  DEF X!MakePending, X!stores, X!files, X!attempt, X!bounds, X!history, X!TypeOK, CrossStepInv,
      QueuedInv, StoredInv, CopyStored, X!Copy
<1>26. CASE X!Replace
  BY <1>26
  DEF X!Replace, X!row, X!files, X!attempt, X!bounds, X!history, X!TypeOK, CrossStepInv,
      QueuedInv, StoredInv, CopyStored, X!Copy
<1>27. CASE X!Crash
  <2>1. /\ pc' = "idle" /\ (status' = "completed" => status = "completed")
        /\ UNCHANGED <<source, queued, size, dest, totalBytes, isMove>>
    BY <1>27 DEF X!Crash, X!NoAttempt, X!stores, X!history
  <2> QED
    BY <2>1 DEF StoredInv, CopyStored, X!Copy
<1>28. CASE UNCHANGED X!vars
  BY <1>28
  DEF X!vars, X!stores, X!row, X!files, X!attempt, X!history, X!bounds, X!TypeOK, CrossStepInv,
      QueuedInv, StoredInv, CopyStored, X!Copy
<1>29. ASSUME X!Download PROVE StoredInv'
  BY <1>29, <1>3, <1>4, <1>5, <1>6 DEF X!Download
<1>30. ASSUME X!Upload PROVE StoredInv'
  BY <1>30, <1>7, <1>8, <1>9, <1>10, <1>11, <1>12, <1>13, <1>14, <1>15 DEF X!Upload
<1>31. ASSUME X!End PROVE StoredInv'
  BY <1>31, <1>16, <1>17, <1>18, <1>19, <1>20, <1>21 DEF X!End
<1>32. ASSUME X!User PROVE StoredInv'
  BY <1>32, <1>22, <1>23, <1>24, <1>25 DEF X!User
<1> QED
  BY <1>1, <1>2, <1>29, <1>30, <1>31, <1>32, <1>26, <1>27, <1>28 DEF X!Next

LEMMA InitCross == X!Init => CrossInv
<1> SUFFICES ASSUME X!Init PROVE CrossInv
  OBVIOUS
<1>. USE CrossConstants, NoData
<1>1. X!TypeOK
  <2>1. <<>> \in Seq(X!Versions \cup {X!Hole})
    OBVIOUS
  <2>2. /\ 0 \in 0 .. MaxCopyFaults /\ 0 \in 0 .. MaxCopyCalls /\ 0 \in 0 .. MaxCrashes
    OBVIOUS
  <2> QED
    BY <2>1, <2>2 DEF X!Init, X!TypeOK, X!None
<1>2. CrossStepInv /\ QueuedInv
  BY DEF X!Init, CrossStepInv, QueuedInv, Downloaded, Uploading
<1>3. PartsInv /\ SameSourceInv /\ StoredInv
  BY DEF X!Init, PartsInv, SameSourceInv, StoredInv, X!None
<1> QED
  BY <1>1, <1>2, <1>3 DEF CrossInv

LEMMA NextCross == ASSUME CrossInv, [X!Next]_(X!vars) PROVE CrossInv'
<1>1. X!TypeOK /\ CrossStepInv /\ QueuedInv /\ PartsInv /\ SameSourceInv /\ StoredInv
  BY DEF CrossInv
<1>2. X!TypeOK' /\ CrossStepInv'
  BY <1>1, CrossTypeStep, CrossStepStep
<1>3. QueuedInv' /\ PartsInv'
  BY <1>1, QueuedStep, PartsStep
<1>4. SameSourceInv' /\ StoredInv'
  BY <1>1, SameSourceStep, StoredStep
<1> QED
  BY <1>2, <1>3, <1>4 DEF CrossInv

LEMMA CrossInvAlways == MCSpec => []CrossInv
BY InitCross, NextCross, SpecIsCross, PTL DEF X!Spec

\* Only the deletion of the source removes it, and only the abort ends an upload.
LEMMA WhatStepsTake ==
    ASSUME CrossInv, [X!Next]_(X!vars)
    PROVE  /\ source' = X!Gone => source = X!Gone \/ X!DeleteSource
           /\ upload' # upload =>
                X!CreateMultipartUpload \/ X!CompleteMultipartUpload \/ X!AbortUpload
<1>. USE CrossConstants
<1>1. source' = X!Gone => source = X!Gone \/ X!DeleteSource
  BY DEF X!Next, X!Download, X!Upload, X!End, X!User, X!QueueCopyBetweenProfiles, X!Start,
      X!HeadObject, X!DownloadSegment, X!DownloadDone, X!DownloadFails, X!PutObject,
      X!PutObjectTooLong, X!CreateMultipartUpload, X!PersistUploadID, X!ListParts,
      X!UploadPart, X!PartsDone, X!CompleteMultipartUpload, X!UploadFails, X!RemoveStaging,
      X!HandleResult, X!CancelledResult, X!AbortUpload, X!ArchiveCancelled, X!Signal,
      X!PauseTask, X!CancelTask, X!MakePending, X!Replace, X!Crash, X!vars, X!stores, X!row,
      X!files, X!attempt, X!bounds, X!history, X!AttemptUnchanged, X!UploadUnchanged,
      X!ResultUnchanged, X!Ends, X!Versions
<1>2. UNCHANGED upload \/ X!CreateMultipartUpload \/ X!CompleteMultipartUpload \/ X!AbortUpload
  BY DEF X!Next, X!Download, X!Upload, X!End, X!User, X!QueueCopyBetweenProfiles, X!Start,
      X!HeadObject, X!DownloadSegment, X!DownloadDone, X!DownloadFails, X!PutObject,
      X!PutObjectTooLong, X!PersistUploadID, X!ListParts, X!UploadPart, X!PartsDone,
      X!UploadFails, X!RemoveStaging, X!DeleteSource, X!HandleResult, X!CancelledResult,
      X!ArchiveCancelled, X!Signal, X!PauseTask, X!CancelTask, X!MakePending, X!Replace,
      X!Crash, X!vars, X!stores, X!row, X!files, X!attempt, X!bounds, X!history,
      X!AttemptUnchanged, X!UploadUnchanged, X!ResultUnchanged, X!Ends
<1> QED
  BY <1>1, <1>2

\* Whatever the sizes, the threshold of a single request and the numbers of replacements,
\* failures, calls and crashes: a move deletes the object that was queued only when the
\* destination holds all of it, and only a cancel of the running task ends its upload.
THEOREM MoveKeepsObjectAlways == MCSpec => MoveKeepsObject
<1>1. CrossInv /\ [X!Next]_(X!vars) =>
        [source' = X!Gone /\ source = queued => dest = X!Copy(source)]_(X!vars)
  <2> SUFFICES ASSUME CrossInv, [X!Next]_(X!vars), source' = X!Gone, source = queued
               PROVE  dest = X!Copy(source)
    OBVIOUS
  <2>1. source # X!Gone
    BY CrossConstants DEF CrossInv, QueuedInv, X!TypeOK
  <2>2. X!DeleteSource
    BY <2>1, WhatStepsTake
  <2> QED
    BY <2>2 DEF X!DeleteSource, CrossInv, StoredInv, CopyStored
<1>2. CrossInv /\ [X!Next]_(X!vars) =>
        [\A u \in X!Uploads : upload[u] = "open" /\ upload'[u] = "aborted" => cancelAsked]_(X!vars)
  <2> SUFFICES ASSUME CrossInv, [X!Next]_(X!vars), NEW u \in X!Uploads,
                      upload[u] = "open", upload'[u] = "aborted"
               PROVE  cancelAsked
    OBVIOUS
  <2>1. upload \in [X!Uploads -> {"none", "open", "completed", "aborted"}]
    BY DEF CrossInv, X!TypeOK
  <2>2. ~X!CreateMultipartUpload /\ ~X!CompleteMultipartUpload
    BY <2>1 DEF X!CreateMultipartUpload, X!CompleteMultipartUpload
  <2>3. X!AbortUpload
    BY <2>2, WhatStepsTake
  <2> QED
    BY <2>3 DEF X!AbortUpload, CrossInv, CrossStepInv
<1> QED
  BY <1>1, <1>2, CrossInvAlways, SpecIsCross, PTL
  DEF X!Spec, MoveKeepsObject, X!MoveKeepsObject, X!UploadKept

-----------------------------------------------------------------------------
(* The effects of steps, field by field *)

LEMMA BulkConstants ==
    /\ NoLocation \notin Locations /\ NoObject \notin Object
    /\ MaxOps \in Nat /\ MaxCalls \in Nat /\ MaxFaults \in Nat /\ Parts \in Nat \ {0}
    /\ \A r \in Requests : /\ r.type \in {"copy", "move", "delete"} /\ r.dest \in Folders
                           /\ r.keys \in Seq(Locations) /\ r.keys # <<>>
    /\ Stored \subseteq Locations /\ Large \subseteq Stored
    /\ Renames \subseteq Locations \X Locations
    /\ Workers # {} /\ IsFiniteSet(Workers)
    /\ OpIds \subseteq Nat \ {0} /\ 0 \notin OpIds
BY BulkAssumption DEF BulkAssumption, OpIds

SameWorkers ==
    \A q \in OpIds : \A v \in Workers :
      /\ worker'[q][v].pc = worker[q][v].pc /\ worker'[q][v].key = worker[q][v].key
      /\ worker'[q][v].upload = worker[q][v].upload

\* What only Register changes of an operation.
SameRequests ==
    \A q \in OpIds : /\ ops'[q].type = ops[q].type /\ ops'[q].keys = ops[q].keys
                     /\ ops'[q].dest = ops[q].dest

\* What the steps of a worker leave alone.
SameSteps ==
    \A q \in OpIds : /\ ops'[q].step = ops[q].step /\ ops'[q].cancelled = ops[q].cancelled
                     /\ ops'[q].closed = ops[q].closed /\ ops'[q].shown = ops[q].shown
                     /\ ops'[q].answered = ops[q].answered

SameCounts ==
    \A q \in OpIds : /\ ops'[q].feed = ops[q].feed /\ ops'[q].completed = ops[q].completed
                     /\ ops'[q].failed = ops[q].failed

\* A worker with another pc, and otherwise as it was.
Moves(o, w, p) ==
    /\ worker' \in [OpIds -> [Workers -> Worker]]
    /\ \A q \in OpIds : \A v \in Workers :
         /\ worker'[q][v].pc = IF q = o /\ v = w THEN p ELSE worker[q][v].pc
         /\ worker'[q][v].key = worker[q][v].key
         /\ worker'[q][v].upload = worker[q][v].upload

\* A worker that has counted its key.
Counts(o, w, ok) ==
    /\ ops' \in [OpIds -> Operation] /\ worker' \in [OpIds -> [Workers -> Worker]]
    /\ SameRequests /\ SameSteps
    /\ \A q \in OpIds :
         /\ ops'[q].feed = ops[q].feed
         /\ ops'[q].completed = IF q = o THEN ops[q].completed + 1 ELSE ops[q].completed
         /\ ops'[q].failed = IF q = o /\ ~ok THEN ops[q].failed + 1 ELSE ops[q].failed
    /\ \A q \in OpIds : \A v \in Workers :
         /\ worker'[q][v].pc = IF q = o /\ v = w THEN "check" ELSE worker[q][v].pc
         /\ worker'[q][v].key = IF q = o /\ v = w THEN NoLocation ELSE worker[q][v].key
         /\ q # o \/ v # w => worker'[q][v].upload = worker[q][v].upload

PCs == Requested \cup {"check", "receive", "exit"}

LEMMA GotoMoves ==
    ASSUME ShapeInv, NEW o \in OpIds, NEW w \in Workers, NEW p \in PCs, Goto(o, w, p)
    PROVE  Moves(o, w, p)
<1>1. worker \in [OpIds -> [Workers -> Worker]]
  BY DEF ShapeInv
<1>2. worker' = [worker EXCEPT ![o] = [worker[o] EXCEPT ![w] = [worker[o][w] EXCEPT !.pc = p]]]
  BY <1>1 DEF Goto
<1>. DEFINE r == worker[o][w]
            W == [r EXCEPT !.pc = p]
<1>3. r \in Worker
  BY <1>1
<1>. HIDE DEF r
<1>31. W \in Worker /\ W.pc = p /\ W.key = r.key /\ W.upload = r.upload
  BY <1>3 DEF Worker, PCs
<1>4. worker' \in [OpIds -> [Workers -> Worker]]
  BY <1>1, <1>2, <1>31 DEF r
<1>5. \A q \in OpIds : \A v \in Workers :
        worker'[q][v] = IF q = o /\ v = w THEN W ELSE worker[q][v]
  BY <1>1, <1>2 DEF r
<1>. HIDE DEF W
<1> QED
  BY <1>4, <1>5, <1>31 DEF Moves, r

LEMMA CountCounts ==
    ASSUME ShapeInv, NEW o \in OpIds, NEW w \in Workers, NEW ok \in BOOLEAN, Count(o, w, ok)
    PROVE  Counts(o, w, ok)
<1>1. worker \in [OpIds -> [Workers -> Worker]] /\ ops \in [OpIds -> Operation]
  BY DEF ShapeInv
<1>2. worker' = [worker EXCEPT ![o] = [worker[o] EXCEPT ![w] = Outside]]
  BY <1>1 DEF Count
<1>3. Outside \in Worker
  BY DEF Outside, Worker
<1>4. worker' \in [OpIds -> [Workers -> Worker]]
  BY <1>1, <1>2, <1>3
<1>5. \A q \in OpIds : \A v \in Workers :
        worker'[q][v] = IF q = o /\ v = w THEN Outside ELSE worker[q][v]
  BY <1>1, <1>2
<1>. DEFINE r == ops[o]
            k == IF ok THEN r.failed ELSE r.failed + 1
            P == [r EXCEPT !.completed = r.completed + 1]
            O == [P EXCEPT !.failed = k]
<1>6. ops' = [ops EXCEPT ![o] = O]
  BY <1>1 DEF Count
<1>61. r \in Operation
  BY <1>1
<1>. HIDE DEF r
<1>62. k \in Nat
  BY <1>61 DEF Operation
<1>. HIDE DEF k
<1>63. P \in Operation
  BY <1>61 DEF Operation
<1>7. O \in Operation
  <2>. HIDE DEF P
  <2> QED
    BY <1>63, <1>62 DEF Operation
<1>71. /\ O.type = r.type /\ O.keys = r.keys /\ O.dest = r.dest /\ O.step = r.step
       /\ O.cancelled = r.cancelled /\ O.closed = r.closed /\ O.shown = r.shown
       /\ O.answered = r.answered /\ O.feed = r.feed
       /\ O.completed = r.completed + 1 /\ O.failed = k
  BY <1>61 DEF Operation
<1>. HIDE DEF O
<1>8. ops' \in [OpIds -> Operation]
  BY <1>1, <1>6, <1>7
<1>9. \A q \in OpIds : ops'[q] = IF q = o THEN O ELSE ops[q]
  BY <1>1, <1>6
<1>10. SameRequests /\ SameSteps
  BY <1>9, <1>71 DEF SameRequests, SameSteps, r
<1>11. \A q \in OpIds :
         /\ ops'[q].feed = ops[q].feed
         /\ ops'[q].completed = IF q = o THEN ops[q].completed + 1 ELSE ops[q].completed
         /\ ops'[q].failed = IF q = o /\ ~ok THEN ops[q].failed + 1 ELSE ops[q].failed
  BY <1>9, <1>71 DEF r, k
<1> QED
  BY <1>4, <1>5, <1>8, <1>10, <1>11 DEF Counts, Outside

LEMMA NothingMoves ==
    ASSUME UNCHANGED worker
    PROVE  SameWorkers
BY DEF SameWorkers

LEMMA NoOpChanges ==
    ASSUME UNCHANGED ops
    PROVE  SameRequests /\ SameSteps /\ SameCounts
BY DEF SameRequests, SameSteps, SameCounts

\* The steps of a worker: it moves on, takes a key, counts its key, or repeats a request.
Takes(o, w) ==
    /\ ops' \in [OpIds -> Operation] /\ worker' \in [OpIds -> [Workers -> Worker]]
    /\ SameRequests /\ SameSteps
    /\ worker[o][w].pc = "receive" /\ ops[o].feed <= Total(o)
    /\ \A q \in OpIds :
         /\ ops'[q].feed = IF q = o THEN ops[q].feed + 1 ELSE ops[q].feed
         /\ ops'[q].completed = ops[q].completed /\ ops'[q].failed = ops[q].failed
    /\ \A q \in OpIds : \A v \in Workers :
         /\ worker'[q][v].pc = IF q = o /\ v = w THEN "head" ELSE worker[q][v].pc
         /\ worker'[q][v].key = IF q = o /\ v = w THEN ops[o].keys[ops[o].feed]
                                ELSE worker[q][v].key
         /\ q # o \/ v # w => worker'[q][v].upload = worker[q][v].upload

Begins(o, w) ==
    /\ worker' \in [OpIds -> [Workers -> Worker]]
    /\ worker[o][w].pc = "create"
    /\ \A q \in OpIds : \A v \in Workers :
         /\ worker'[q][v].pc = IF q = o /\ v = w THEN "parts" ELSE worker[q][v].pc
         /\ worker'[q][v].key = worker[q][v].key
         /\ worker'[q][v].upload = IF q = o /\ v = w THEN nextID' ELSE worker[q][v].upload

LEMMA ReceiveTakes ==
    ASSUME ShapeInv, NEW o \in OpIds, NEW w \in Workers, Receive(o, w), ops[o].feed # 0
    PROVE  Takes(o, w)
<1>1. worker \in [OpIds -> [Workers -> Worker]] /\ ops \in [OpIds -> Operation]
  BY DEF ShapeInv
<1>. DEFINE W == [pc |-> "head", key |-> ops[o].keys[ops[o].feed], upload |-> 0]
            r == ops[o]
            O == [r EXCEPT !.feed = r.feed + 1]
<1>2. /\ worker' = [worker EXCEPT ![o] = [worker[o] EXCEPT ![w] = W]]
      /\ ops' = [ops EXCEPT ![o] = O] /\ worker[o][w].pc = "receive" /\ ops[o].feed <= Total(o)
  BY <1>1 DEF Receive, At
<1>3. ops[o].feed \in 1 .. Len(ops[o].keys) /\ ops[o].keys \in Seq(Locations)
  BY <1>1, <1>2 DEF Total, Operation
<1>4. W \in Worker
  BY <1>3 DEF Worker, Requested
<1>50. r \in Operation
  BY <1>1
<1>. HIDE DEF r
<1>5. O \in Operation
  BY <1>50 DEF Operation
<1>51. /\ O.type = r.type /\ O.keys = r.keys /\ O.dest = r.dest /\ O.step = r.step
       /\ O.cancelled = r.cancelled /\ O.closed = r.closed /\ O.shown = r.shown
       /\ O.answered = r.answered /\ O.feed = r.feed + 1
       /\ O.completed = r.completed /\ O.failed = r.failed
  BY <1>50 DEF Operation
<1>. HIDE DEF O
<1>6. ops' \in [OpIds -> Operation] /\ worker' \in [OpIds -> [Workers -> Worker]]
  BY <1>1, <1>2, <1>4, <1>5
<1>7. \A q \in OpIds : \A v \in Workers :
        worker'[q][v] = IF q = o /\ v = w THEN W ELSE worker[q][v]
  BY <1>1, <1>2
<1>8. \A q \in OpIds : ops'[q] = IF q = o THEN O ELSE ops[q]
  BY <1>1, <1>2, <1>51 DEF O, r
<1>9. SameRequests /\ SameSteps
  BY <1>8, <1>51 DEF SameRequests, SameSteps, r
<1>10. \A q \in OpIds :
         /\ ops'[q].feed = IF q = o THEN ops[q].feed + 1 ELSE ops[q].feed
         /\ ops'[q].completed = ops[q].completed /\ ops'[q].failed = ops[q].failed
  BY <1>8, <1>51 DEF r
<1> QED
  BY <1>2, <1>6, <1>7, <1>9, <1>10 DEF Takes

LEMMA CreateBegins ==
    ASSUME ShapeInv, nextID \in Nat, NEW o \in OpIds, NEW w \in Workers, CreateUpload(o, w),
           worker' = [worker EXCEPT ![o][w].pc = "parts", ![o][w].upload = nextID']
    PROVE  Begins(o, w)
<1>1. worker \in [OpIds -> [Workers -> Worker]]
  BY DEF ShapeInv
<1>. DEFINE r == worker[o][w]
            W == [r EXCEPT !.pc = "parts", !.upload = nextID']
<1>2. worker' = [worker EXCEPT ![o] = [worker[o] EXCEPT ![w] = W]]
  BY <1>1
<1>3. worker[o][w].pc = "create" /\ nextID' \in Nat
  BY DEF CreateUpload, At
<1>40. r \in Worker
  BY <1>1
<1>. HIDE DEF r
<1>4. W \in Worker /\ W.pc = "parts" /\ W.key = r.key /\ W.upload = nextID'
  BY <1>40, <1>3 DEF Worker, Requested
<1>5. worker' \in [OpIds -> [Workers -> Worker]]
  BY <1>1, <1>2, <1>4 DEF r
<1>6. \A q \in OpIds : \A v \in Workers :
        worker'[q][v] = IF q = o /\ v = w THEN W ELSE worker[q][v]
  BY <1>1, <1>2 DEF r
<1>. HIDE DEF W
<1> QED
  BY <1>3, <1>4, <1>5, <1>6 DEF Begins, r

\* The steps of an operation change nothing of the others.
Changes(o) ==
    /\ ops' \in [OpIds -> Operation] /\ SameRequests
    /\ \A q \in OpIds : q # o => ops'[q] = ops[q]

Sets(o, step, shown) ==
    /\ Changes(o) /\ SameCounts
    /\ ops'[o].step = step /\ ops'[o].shown = shown
    /\ ops'[o].cancelled = ops[o].cancelled /\ ops'[o].closed = ops[o].closed

Marks(o) ==
    /\ Changes(o) /\ SameCounts
    /\ ops'[o].step = ops[o].step /\ ops'[o].shown = ops[o].shown
    /\ ops[o].cancelled => ops'[o].cancelled
    /\ ops[o].closed => ops'[o].closed
    /\ ops'[o].closed =>
         ops[o].closed \/ (ops[o].step = "pool" /\ (ops[o].feed > Total(o) \/ ops[o].cancelled))

Refuses(o) ==
    /\ Changes(o)
    /\ ops'[o].step = "finish" /\ ops'[o].shown = "completed"
    /\ ops'[o].completed = Total(o) /\ ops'[o].failed = Total(o)
    /\ ops'[o].feed = ops[o].feed /\ ops'[o].cancelled = ops[o].cancelled
    /\ ops'[o].closed = ops[o].closed

Deletes(o, deleted, answered) ==
    /\ Changes(o)
    /\ ops'[o].step = "batch" /\ ops'[o].shown = "running"
    /\ ops'[o].feed = ops[o].feed + Cardinality(Batch(o))
    /\ ops'[o].completed = ops[o].completed + Cardinality(Batch(o))
    /\ ops'[o].failed = ops[o].failed + Failures(o, deleted, answered)
    /\ ops'[o].cancelled = ops[o].cancelled /\ ops'[o].closed = ops[o].closed

Registers(o, r) ==
    /\ ops' \in [OpIds -> Operation]
    /\ \A q \in OpIds : q # o => ops'[q] = ops[q]
    /\ ops[o].step = "none" /\ ops'[o].step = "resolve"
    /\ ops'[o].type = r.type /\ ops'[o].keys = r.keys /\ ops'[o].dest = r.dest
    /\ ops'[o].feed = 1 /\ ops'[o].completed = 0 /\ ops'[o].failed = 0
    /\ ops'[o].shown = "none" /\ ~ops'[o].closed

LEMMA SetOpSets ==
    ASSUME ShapeInv, NEW o \in OpIds, NEW s \in Steps,
           NEW h \in {"none", "running", "completed", "cancelled"}
    PROVE  /\ SetOp(o, s, h) => Sets(o, s, h)
           /\ ops' = [ops EXCEPT ![o].shown = h] => Sets(o, ops[o].step, h)
           /\ ops' = [ops EXCEPT ![o].step = s] => Sets(o, s, ops[o].shown)
<1>1. ops \in [OpIds -> Operation]
  BY DEF ShapeInv
<1>. DEFINE r == ops[o]
<1>2. r \in Operation
  BY <1>1
<1>3. ASSUME NEW O \in Operation, ops' = [ops EXCEPT ![o] = O], O.type = r.type,
             O.keys = r.keys, O.dest = r.dest, O.feed = r.feed, O.completed = r.completed,
             O.failed = r.failed, O.cancelled = r.cancelled, O.closed = r.closed
      PROVE  Sets(o, O.step, O.shown)
  BY <1>1, <1>3 DEF Sets, Changes, SameRequests, SameCounts
<1>4. SetOp(o, s, h) => Sets(o, s, h)
  <2>. DEFINE O == [r EXCEPT !.step = s, !.shown = h]
  <2>1. SetOp(o, s, h) => ops' = [ops EXCEPT ![o] = O]
    BY <1>1 DEF SetOp
  <2>. HIDE DEF r
  <2>2. /\ O \in Operation /\ O.type = r.type /\ O.keys = r.keys /\ O.dest = r.dest
        /\ O.feed = r.feed /\ O.completed = r.completed /\ O.failed = r.failed
        /\ O.cancelled = r.cancelled /\ O.closed = r.closed /\ O.step = s /\ O.shown = h
    BY <1>2 DEF Operation
  <2>. HIDE DEF O
  <2> QED
    BY <1>3, <2>1, <2>2
<1>5. ops' = [ops EXCEPT ![o].shown = h] => Sets(o, ops[o].step, h)
  <2>. DEFINE O == [r EXCEPT !.shown = h]
  <2>1. ops' = [ops EXCEPT ![o].shown = h] => ops' = [ops EXCEPT ![o] = O]
    BY <1>1
  <2>. HIDE DEF r
  <2>2. /\ O \in Operation /\ O.type = r.type /\ O.keys = r.keys /\ O.dest = r.dest
        /\ O.feed = r.feed /\ O.completed = r.completed /\ O.failed = r.failed
        /\ O.cancelled = r.cancelled /\ O.closed = r.closed /\ O.step = r.step /\ O.shown = h
    BY <1>2 DEF Operation
  <2>. HIDE DEF O
  <2> QED
    BY <1>3, <2>1, <2>2 DEF r
<1>6. ops' = [ops EXCEPT ![o].step = s] => Sets(o, s, ops[o].shown)
  <2>. DEFINE O == [r EXCEPT !.step = s]
  <2>1. ops' = [ops EXCEPT ![o].step = s] => ops' = [ops EXCEPT ![o] = O]
    BY <1>1
  <2>. HIDE DEF r
  <2>2. /\ O \in Operation /\ O.type = r.type /\ O.keys = r.keys /\ O.dest = r.dest
        /\ O.feed = r.feed /\ O.completed = r.completed /\ O.failed = r.failed
        /\ O.cancelled = r.cancelled /\ O.closed = r.closed /\ O.step = s /\ O.shown = r.shown
    BY <1>2 DEF Operation
  <2>. HIDE DEF O
  <2> QED
    BY <1>3, <2>1, <2>2 DEF r
<1> QED
  BY <1>4, <1>5, <1>6

LEMMA FlagMarks ==
    ASSUME ShapeInv, NEW o \in OpIds
    PROVE  /\ ops' = [ops EXCEPT ![o].cancelled = TRUE] => Marks(o)
           /\ ops' = [ops EXCEPT ![o].answered = TRUE] => Marks(o)
           /\ CloseJobs(o) => Marks(o)
<1>1. ops \in [OpIds -> Operation]
  BY DEF ShapeInv
<1>. DEFINE r == ops[o]
<1>2. r \in Operation
  BY <1>1
<1>3. ASSUME NEW O \in Operation, ops' = [ops EXCEPT ![o] = O], O.type = r.type,
             O.keys = r.keys, O.dest = r.dest, O.feed = r.feed, O.completed = r.completed,
             O.failed = r.failed, O.step = r.step, O.shown = r.shown,
             r.cancelled => O.cancelled, r.closed => O.closed,
             O.closed => r.closed \/ (r.step = "pool" /\ (r.feed > Total(o) \/ r.cancelled))
      PROVE  Marks(o)
  BY <1>1, <1>3 DEF Marks, Changes, SameRequests, SameCounts
<1>4. ops' = [ops EXCEPT ![o].cancelled = TRUE] => Marks(o)
  <2>. DEFINE O == [r EXCEPT !.cancelled = TRUE]
  <2>1. ops' = [ops EXCEPT ![o].cancelled = TRUE] => ops' = [ops EXCEPT ![o] = O]
    BY <1>1
  <2>. HIDE DEF r
  <2>2. /\ O \in Operation /\ O.type = r.type /\ O.keys = r.keys /\ O.dest = r.dest
        /\ O.feed = r.feed /\ O.completed = r.completed /\ O.failed = r.failed
        /\ O.step = r.step /\ O.shown = r.shown /\ O.cancelled = TRUE /\ O.closed = r.closed
    BY <1>2 DEF Operation
  <2>. HIDE DEF O
  <2> QED
    BY <1>3, <2>1, <2>2
<1>5. ops' = [ops EXCEPT ![o].answered = TRUE] => Marks(o)
  <2>. DEFINE O == [r EXCEPT !.answered = TRUE]
  <2>1. ops' = [ops EXCEPT ![o].answered = TRUE] => ops' = [ops EXCEPT ![o] = O]
    BY <1>1
  <2>. HIDE DEF r
  <2>2. /\ O \in Operation /\ O.type = r.type /\ O.keys = r.keys /\ O.dest = r.dest
        /\ O.feed = r.feed /\ O.completed = r.completed /\ O.failed = r.failed
        /\ O.step = r.step /\ O.shown = r.shown /\ O.cancelled = r.cancelled
        /\ O.closed = r.closed
    BY <1>2 DEF Operation
  <2>. HIDE DEF O
  <2> QED
    BY <1>3, <2>1, <2>2
<1>6. CloseJobs(o) => Marks(o)
  <2>. DEFINE O == [r EXCEPT !.closed = TRUE]
  <2>1. CloseJobs(o) => /\ ops' = [ops EXCEPT ![o] = O]
                        /\ r.step = "pool" /\ (r.feed > Total(o) \/ r.cancelled)
    BY <1>1 DEF CloseJobs
  <2>. HIDE DEF r
  <2>2. /\ O \in Operation /\ O.type = r.type /\ O.keys = r.keys /\ O.dest = r.dest
        /\ O.feed = r.feed /\ O.completed = r.completed /\ O.failed = r.failed
        /\ O.step = r.step /\ O.shown = r.shown /\ O.cancelled = r.cancelled /\ O.closed = TRUE
    BY <1>2 DEF Operation
  <2>. HIDE DEF O
  <2> QED
    BY <1>3, <2>1, <2>2
<1> QED
  BY <1>4, <1>5, <1>6

LEMMA ResolveRefuses ==
    ASSUME ShapeInv, NEW o \in OpIds,
           ops' = [ops EXCEPT ![o].step = "finish", ![o].shown = "completed",
                              ![o].completed = Total(o), ![o].failed = Total(o)]
    PROVE  Refuses(o)
<1>1. ops \in [OpIds -> Operation]
  BY DEF ShapeInv
<1>. DEFINE r == ops[o]
            t == Total(o)
            O == [r EXCEPT !.step = "finish", !.shown = "completed",
                           !.completed = t, !.failed = t]
<1>2. r \in Operation /\ t \in Nat
  BY <1>1 DEF Operation, Total
<1>3. ops' = [ops EXCEPT ![o] = O]
  BY <1>1
<1>. HIDE DEF r, t
<1>4. /\ O \in Operation /\ O.type = r.type /\ O.keys = r.keys /\ O.dest = r.dest
      /\ O.feed = r.feed /\ O.completed = t /\ O.failed = t /\ O.step = "finish"
      /\ O.shown = "completed" /\ O.cancelled = r.cancelled /\ O.closed = r.closed
  BY <1>2 DEF Operation, Steps
<1>. HIDE DEF O
<1>5. ops' \in [OpIds -> Operation] /\ \A q \in OpIds : ops'[q] = IF q = o THEN O ELSE ops[q]
  BY <1>1, <1>3, <1>4
<1> QED
  BY <1>4, <1>5 DEF Refuses, Changes, SameRequests, r, t

LEMMA DeleteDeletes ==
    ASSUME ShapeInv, NEW o \in OpIds, NEW deleted, NEW answered,
           Cardinality(Batch(o)) \in Nat, Failures(o, deleted, answered) \in Nat
    PROVE  ops' = [ops EXCEPT ![o].step = "batch", ![o].shown = "running",
                              ![o].feed = @ + Cardinality(Batch(o)),
                              ![o].completed = @ + Cardinality(Batch(o)),
                              ![o].failed = @ + Failures(o, deleted, answered)]
             => Deletes(o, deleted, answered)
<1>1. ops \in [OpIds -> Operation]
  BY DEF ShapeInv
<1>. DEFINE r == ops[o]
            n == Cardinality(Batch(o))
            k == Failures(o, deleted, answered)
            p == [r EXCEPT !.step = "batch", !.shown = "running"]
            P == [p EXCEPT !.feed = r.feed + n]
            O == [P EXCEPT !.completed = r.completed + n, !.failed = r.failed + k]
<1>2. r \in Operation /\ n \in Nat /\ k \in Nat
  BY <1>1
<1>3. SUFFICES ASSUME ops' = [ops EXCEPT ![o] = O]
               PROVE  Deletes(o, deleted, answered)
  BY <1>1
<1>. HIDE DEF r, n, k
<1>40. /\ p \in Operation /\ p.type = r.type /\ p.keys = r.keys /\ p.dest = r.dest
       /\ p.step = "batch" /\ p.completed = r.completed /\ p.failed = r.failed
       /\ p.shown = "running" /\ p.cancelled = r.cancelled /\ p.closed = r.closed
  BY <1>2 DEF Operation, Steps
<1>41. r.feed + n \in Nat
  BY <1>2 DEF Operation
<1>4. /\ P \in Operation /\ P.type = r.type /\ P.keys = r.keys /\ P.dest = r.dest
      /\ P.feed = r.feed + n /\ P.step = "batch"
      /\ P.shown = "running" /\ P.cancelled = r.cancelled /\ P.closed = r.closed
  <2>. HIDE DEF p
  <2> QED
    BY <1>40, <1>41 DEF Operation
<1>5. r.completed + n \in Nat /\ r.failed + k \in Nat
  BY <1>2 DEF Operation
<1>6. /\ O \in Operation /\ O.type = r.type /\ O.keys = r.keys /\ O.dest = r.dest
      /\ O.feed = r.feed + n /\ O.step = "batch" /\ O.completed = r.completed + n
      /\ O.failed = r.failed + k
      /\ O.shown = "running" /\ O.cancelled = r.cancelled /\ O.closed = r.closed
  <2>. HIDE DEF P
  <2> QED
    BY <1>4, <1>5 DEF Operation
<1>. HIDE DEF O
<1>7. ops' \in [OpIds -> Operation] /\ \A q \in OpIds : ops'[q] = IF q = o THEN O ELSE ops[q]
  <2>1. O \in Operation
    BY <1>6
  <2> QED
    BY <1>1, <1>3, <2>1
<1> QED
  BY <1>6, <1>7 DEF Deletes, Changes, SameRequests, r, n, k

LEMMA RegisterRegisters ==
    ASSUME ShapeInv, NEW r \in Requests, Register(r)
    PROVE  \E o \in OpIds : Registers(o, r)
<1>1. ops \in [OpIds -> Operation]
  BY DEF ShapeInv
<1>. DEFINE O == [NotStarted EXCEPT !.type = r.type, !.keys = r.keys, !.dest = r.dest,
                                    !.step = "resolve"]
<1>2. PICK o \in OpIds : ops[o].step = "none" /\ ops' = [ops EXCEPT ![o] = O]
  BY DEF Register
<1>3. NotStarted \in Operation
  BY DEF NotStarted, Operation, Steps
<1>4. /\ O \in Operation /\ O.type = r.type /\ O.keys = r.keys /\ O.dest = r.dest
      /\ O.feed = 1 /\ O.completed = 0 /\ O.failed = 0 /\ O.step = "resolve"
      /\ O.shown = "none" /\ O.closed = FALSE
  <2>1. /\ NotStarted.feed = 1 /\ NotStarted.completed = 0 /\ NotStarted.failed = 0
        /\ NotStarted.shown = "none" /\ NotStarted.closed = FALSE
    BY DEF NotStarted
  <2> QED
    BY <1>3, <2>1, BulkConstants DEF Operation, Steps
<1>. HIDE DEF O
<1>5. Registers(o, r)
  BY <1>1, <1>2, <1>4 DEF Registers
<1> QED
  BY <1>5
\* A batch, and the failures that its answer counts.
LEMMA BatchCounts ==
    ASSUME ShapeInv, CountInv, NEW o \in OpIds, ops[o].feed <= Total(o),
           NEW deleted \in SUBSET Batch(o), NEW answered \in BOOLEAN
    PROVE  /\ Batch(o) \subseteq ops[o].feed .. Total(o)
           /\ Cardinality(Batch(o)) \in Nat
           /\ ops[o].feed + Cardinality(Batch(o)) <= Total(o) + 1
           /\ Batch(o) = ops[o].feed .. ops[o].feed + Cardinality(Batch(o)) - 1
           /\ IsFiniteSet(deleted) /\ Cardinality(deleted) \in Nat
           /\ Failures(o, deleted, answered) \in 0 .. Cardinality(Batch(o))
           /\ Cardinality(Batch(o)) - Failures(o, deleted, answered) <= Cardinality(deleted)
<1>. DEFINE a == ops[o].feed
            n == Total(o)
            k == deleteObjectsBatchSize
            b == IF a + k - 1 < n THEN a + k - 1 ELSE n
<1>1. a \in Nat /\ n \in Nat /\ k \in Nat \ {0} /\ a >= 1 /\ a <= n
  BY BulkAssumption DEF ShapeInv, CountInv, Operation, Total, BulkAssumption
<1>2. Batch(o) = a .. b
  BY DEF Batch
<1>. HIDE DEF a, n, k
<1>3. b \in Nat /\ a <= b /\ b <= n
  BY <1>1
<1>. HIDE DEF b
<1>4. IsFiniteSet(a .. b) /\ Cardinality(a .. b) = b - a + 1
  BY <1>1, <1>3, FS_Interval
<1>5. /\ IsFiniteSet(deleted) /\ Cardinality(deleted) \in Nat
      /\ Cardinality(deleted) <= Cardinality(Batch(o))
  BY <1>2, <1>4, FS_Subset, FS_CardinalityType
<1>6. Cardinality(Batch(o)) = b - a + 1
  BY <1>2, <1>4
<1>7. b = a + Cardinality(Batch(o)) - 1
  BY <1>1, <1>3, <1>6
<1>8. /\ Failures(o, deleted, answered) \in 0 .. Cardinality(Batch(o))
      /\ Cardinality(Batch(o)) - Failures(o, deleted, answered) <= Cardinality(deleted)
  BY <1>1, <1>3, <1>5, <1>6 DEF Failures
<1>9. /\ a .. b \subseteq a .. n /\ b - a + 1 \in Nat /\ a + (b - a + 1) <= n + 1
  BY <1>1, <1>3
<1>10. Batch(o) = a .. a + Cardinality(Batch(o)) - 1
  BY <1>2, <1>7
<1> QED
  BY <1>2, <1>5, <1>6, <1>8, <1>9, <1>10 DEF a, n

Follows(o, w, p) ==
    /\ worker[o][w].pc \in Requested <=> p \in Requested
    /\ p = "exit" => ops[o].closed \/ ops[o].cancelled

WorkerEffect(o, w) ==
    /\ ops[o].step = "pool"
    /\ \/ \E p \in PCs : Moves(o, w, p) /\ UNCHANGED ops /\ Follows(o, w, p)
       \/ Takes(o, w)
       \/ Begins(o, w) /\ UNCHANGED ops
       \/ worker[o][w].pc \in Requested /\ \E ok \in BOOLEAN : Counts(o, w, ok)
       \/ UNCHANGED <<ops, worker>>

LEMMA WorkerEffects ==
    ASSUME ShapeInv, CountInv, nextID \in Nat, NEW o \in OpIds, NEW w \in Workers,
           WorkerStep(o, w)
    PROVE  WorkerEffect(o, w) /\ UNCHANGED <<call, calls>>
<1>0. /\ \A p \in PCs : Goto(o, w, p) => Moves(o, w, p)
      /\ \A ok \in BOOLEAN : Count(o, w, ok) => Counts(o, w, ok)
  BY GotoMoves, CountCounts
<1>1. CASE CheckCancelled(o, w)
  <2>1. \E p \in {"exit", "receive"} : Goto(o, w, p) /\ (p = "exit" => ops[o].cancelled)
    BY <1>1 DEF CheckCancelled
  <2> QED
    BY <1>0, <1>1, <2>1 DEF CheckCancelled, At, WorkerEffect, Follows, PCs, Requested
<1>2. CASE Receive(o, w)
  <2>1. ops[o].feed # 0
    BY DEF CountInv
  <2> QED
    BY <1>2, <2>1, ReceiveTakes DEF Receive, At, WorkerEffect
<1>3. CASE NoMoreJobs(o, w)
  BY <1>0, <1>3 DEF NoMoreJobs, At, WorkerEffect, Follows, PCs, Requested
<1>4. CASE HeadObject(o, w)
  <2>1. \E p \in {"create", "copy"} : Goto(o, w, p)
    BY <1>4 DEF HeadObject
  <2> QED
    BY <1>0, <1>4, <2>1 DEF HeadObject, At, WorkerEffect, Follows, PCs, Requested
<1>5. CASE CopyObject(o, w)
  <2>1. \/ Goto(o, w, "delete") /\ UNCHANGED ops
        \/ \E ok \in BOOLEAN : Count(o, w, ok)
        \/ UNCHANGED <<ops, worker>>
    BY <1>5 DEF CopyObject, Copied, Unanswered
  <2>2. /\ ops[o].step = "pool" /\ worker[o][w].pc \in Requested
        /\ UNCHANGED <<call, calls>> /\ Follows(o, w, "delete") /\ "delete" \in PCs
    BY <1>5 DEF CopyObject, At, Follows, PCs, Requested
  <2> QED
    BY <1>0, <2>1, <2>2 DEF WorkerEffect
<1>6. CASE CreateUpload(o, w)
  BY <1>0, <1>6, CreateBegins DEF CreateUpload, Unanswered, At, WorkerEffect, Requested
<1>7. CASE UploadPartCopy(o, w)
  <2>1. \E p \in {"complete", "parts"} : Goto(o, w, p)
    BY <1>7 DEF UploadPartCopy
  <2> QED
    BY <1>0, <1>7, <2>1 DEF UploadPartCopy, At, WorkerEffect, Follows, PCs, Requested
<1>8. CASE Abort(o, w)
  BY <1>0, <1>8 DEF Abort, At, WorkerEffect, Requested
<1>9. CASE CompleteUpload(o, w)
  <2>1. \/ Goto(o, w, "delete") /\ UNCHANGED ops
        \/ \E ok \in BOOLEAN : Count(o, w, ok)
    BY <1>9 DEF CompleteUpload, Copied
  <2>2. /\ ops[o].step = "pool" /\ worker[o][w].pc \in Requested
        /\ UNCHANGED <<call, calls>> /\ Follows(o, w, "delete") /\ "delete" \in PCs
    BY <1>9 DEF CompleteUpload, At, Follows, PCs, Requested
  <2> QED
    BY <1>0, <2>1, <2>2 DEF WorkerEffect
<1>10. CASE DeleteSource(o, w)
  BY <1>0, <1>10 DEF DeleteSource, Unanswered, At, WorkerEffect, Requested
<1>11. CASE RequestFails(o, w)
  <2>1. \/ Goto(o, w, "abort") /\ UNCHANGED ops
        \/ \E ok \in BOOLEAN : Count(o, w, ok)
    BY <1>11 DEF RequestFails
  <2>2. /\ ops[o].step = "pool" /\ worker[o][w].pc \in Requested
        /\ UNCHANGED <<call, calls>> /\ Follows(o, w, "abort") /\ "abort" \in PCs
    BY <1>11 DEF RequestFails, Follows, PCs, Requested
  <2> QED
    BY <1>0, <2>1, <2>2 DEF WorkerEffect
<1> QED
  BY <1>1, <1>2, <1>3, <1>4, <1>5, <1>6, <1>7, <1>8, <1>9, <1>10, <1>11 DEF WorkerStep

\* The steps of an operation outside its workers.
Passes(o, step, shown) ==
    \/ /\ ops[o].step = "resolve" /\ shown = "none"
       /\ step = IF ops[o].type = "delete" THEN "batch" ELSE "pool"
    \/ ops[o].step = "pool" /\ step = "pool" /\ shown = "running"
    \/ /\ ops[o].step = "pool" /\ step = "finish" /\ shown = Status(o)
       /\ \A w \in Workers : worker[o][w].pc = "exit"
    \/ ops[o].step = "finish" /\ step = "ended" /\ shown = ops[o].shown
    \/ ops[o].step = "batch" /\ ops[o].feed > Total(o) /\ step = "finish" /\ shown = "completed"
    \/ ops[o].step = "batch" /\ ops[o].cancelled /\ step = "finish" /\ shown = "cancelled"
    \/ /\ ops[o].step = "batch" /\ ops[o].feed <= Total(o)
       /\ step = "request" /\ shown = ops[o].shown

OpEffect(o) ==
    \/ Marks(o)
    \/ Refuses(o) /\ ops[o].step = "resolve"
    \/ \E s \in Steps : \E h \in {"none", "running", "completed", "cancelled"} :
         Sets(o, s, h) /\ Passes(o, s, h)
    \/ /\ ops[o].step = "request"
       /\ \E deleted \in SUBSET Batch(o), answered \in BOOLEAN : Deletes(o, deleted, answered)

LEMMA OpEffects ==
    ASSUME ShapeInv, RequestInv, CountInv, NEW o \in OpIds, OpStep(o) \/ Tick(o)
    PROVE  OpEffect(o) /\ UNCHANGED <<worker, call, calls>>
<1>0. /\ ops[o].step \in Steps /\ ops[o].shown \in {"none", "running", "completed", "cancelled"}
      /\ ops[o].feed \in Nat /\ Total(o) \in Nat
  BY DEF ShapeInv, Operation, Total
<1>. DEFINE Hs == {"none", "running", "completed", "cancelled"}
<1>1. CASE Resolve(o)
  <2>1. CASE SetOp(o, IF ops[o].type = "delete" THEN "batch" ELSE "pool", "none")
    <3>. DEFINE s == IF ops[o].type = "delete" THEN "batch" ELSE "pool"
    <3>1. s \in Steps
      BY DEF Steps
    <3>2. Sets(o, s, "none") /\ Passes(o, s, "none")
      BY <1>1, <2>1, <3>1, SetOpSets DEF Resolve, Passes
    <3> QED
      BY <1>1, <3>1, <3>2 DEF Resolve, OpEffect
  <2>2. CASE ops' = [ops EXCEPT ![o].step = "finish", ![o].shown = "completed",
                                ![o].completed = Total(o), ![o].failed = Total(o)]
    BY <1>1, <2>2, ResolveRefuses DEF Resolve, OpEffect
  <2> QED
    BY <1>1, <2>1, <2>2 DEF Resolve
<1>2. CASE CloseJobs(o)
  BY <1>2, FlagMarks DEF CloseJobs, OpEffect
<1>3. CASE WorkersDone(o)
  <2>1. Status(o) \in Hs /\ "finish" \in Steps
    BY DEF Status, Steps
  <2>2. Sets(o, "finish", Status(o)) /\ Passes(o, "finish", Status(o))
    BY <1>3, <2>1, SetOpSets DEF WorkersDone, Passes
  <2> QED
    BY <1>3, <2>1, <2>2 DEF WorkersDone, OpEffect
<1>4. CASE FinishBulkOp(o)
  <2>1. "ended" \in Steps
    BY DEF Steps
  <2>2. Sets(o, "ended", ops[o].shown) /\ Passes(o, "ended", ops[o].shown)
    BY <1>0, <1>4, <2>1, SetOpSets DEF FinishBulkOp, Passes
  <2> QED
    BY <1>0, <1>4, <2>1, <2>2 DEF FinishBulkOp, OpEffect
<1>5. CASE NextBatch(o)
  <2>1. "finish" \in Steps /\ "request" \in Steps
    BY DEF Steps
  <2>2. CASE ops[o].feed > Total(o)
    <3>1. Sets(o, "finish", "completed") /\ Passes(o, "finish", "completed")
      BY <1>5, <2>1, <2>2, SetOpSets DEF NextBatch, Passes
    <3> QED
      BY <1>5, <2>1, <3>1 DEF NextBatch, OpEffect
  <2>3. CASE ~(ops[o].feed > Total(o)) /\ ops[o].cancelled
    <3>1. Sets(o, "finish", "cancelled") /\ Passes(o, "finish", "cancelled")
      BY <1>5, <2>1, <2>3, SetOpSets DEF NextBatch, Passes
    <3> QED
      BY <1>5, <2>1, <3>1 DEF NextBatch, OpEffect
  <2>4. CASE ~(ops[o].feed > Total(o)) /\ ~ops[o].cancelled
    <3>1. Sets(o, "request", ops[o].shown) /\ Passes(o, "request", ops[o].shown)
      BY <1>0, <1>5, <2>1, <2>4, SetOpSets DEF NextBatch, Passes
    <3> QED
      BY <1>0, <1>5, <2>1, <3>1 DEF NextBatch, OpEffect
  <2> QED
    BY <2>2, <2>3, <2>4
<1>6. CASE DeleteBatch(o)
  <2>1. PICK deleted \in SUBSET Batch(o), answered \in BOOLEAN :
          ops' = [ops EXCEPT ![o].step = "batch", ![o].shown = "running",
                             ![o].feed = @ + Cardinality(Batch(o)),
                             ![o].completed = @ + Cardinality(Batch(o)),
                             ![o].failed = @ + Failures(o, deleted, answered)]
    BY <1>6 DEF DeleteBatch
  <2>2. ops[o].feed <= Total(o) /\ ops[o].step = "request"
    BY <1>6 DEF DeleteBatch, RequestInv
  <2>3. Cardinality(Batch(o)) \in Nat /\ Failures(o, deleted, answered) \in Nat
    BY <2>2, BatchCounts
  <2>4. Deletes(o, deleted, answered)
    BY <2>1, <2>3, DeleteDeletes
  <2> QED
    BY <1>6, <2>2, <2>4 DEF DeleteBatch, OpEffect
<1>7. CASE Tick(o)
  <2>1. Sets(o, "pool", "running") /\ Passes(o, "pool", "running")
    BY <1>0, <1>7, SetOpSets DEF Tick, TickerRuns, Passes
  <2> QED
    BY <1>0, <1>7, <2>1 DEF Tick, TickerRuns, OpEffect
<1> QED
  BY <1>1, <1>2, <1>3, <1>4, <1>5, <1>6, <1>7 DEF OpStep

Effect ==
    \/ UNCHANGED <<ops, worker>>
    \/ \E o \in OpIds : \E w \in Workers : WorkerEffect(o, w)
    \/ \E o \in OpIds : OpEffect(o) /\ UNCHANGED worker
    \/ \E o \in OpIds : \E r \in Requests : Registers(o, r) /\ UNCHANGED worker

LEMMA NextEffect ==
    ASSUME ShapeInv, RequestInv, CountInv, nextID \in Nat, [Next]_vars
    PROVE  Effect
<1>1. ASSUME NEW r \in Requests, Register(r) PROVE Effect
  <2>1. UNCHANGED worker
    BY <1>1 DEF Register
  <2> QED
    BY <1>1, <2>1, RegisterRegisters DEF Effect
<1>2. ASSUME NEW o \in OpIds, OpStep(o) \/ Tick(o) PROVE Effect
  BY <1>2, OpEffects DEF Effect
<1>3. ASSUME NEW o \in OpIds, NEW w \in Workers, WorkerStep(o, w) PROVE Effect
  BY <1>3, WorkerEffects DEF Effect
<1>4. ASSUME NEW o \in OpIds, NEW c \in Callers, Cancel(c, o) PROVE Effect
  BY <1>4, FlagMarks DEF Effect, Cancel, OpEffect
<1>5. ASSUME NEW c \in Callers, CancelReturns(c) PROVE Effect
  <2>1. call[c].op \in OpIds
    BY <1>5 DEF CancelReturns, ShapeInv, CallInv
  <2> QED
    BY <1>5, <2>1, FlagMarks DEF Effect, CancelReturns, OpEffect
<1>6. ASSUME NEW c \in Callers, RenameDelete(c) PROVE Effect
  BY <1>6 DEF Effect, RenameDelete
<1>7. ASSUME NEW c \in Callers, NEW r \in Renames, RenameCopy(c, r[1], r[2]) PROVE Effect
  BY <1>7 DEF Effect, RenameCopy
<1>8. ASSUME NEW c \in Callers, NEW d \in Folders, CreateFolder(c, d) PROVE Effect
  BY <1>8 DEF Effect, CreateFolder
<1>9. ASSUME NEW c \in Callers, NEW l \in Locations, UpdateMetadata(c, l) PROVE Effect
  BY <1>9 DEF Effect, UpdateMetadata
<1>10. CASE UNCHANGED vars
  BY <1>10 DEF vars, Effect
<1> QED
  BY <1>1, <1>2, <1>3, <1>4, <1>5, <1>6, <1>7, <1>8, <1>9, <1>10
  DEF Next, CopyObjects, MoveObjects, DeleteObjects

\* The cases of an effect that the invariants about operations and workers tell apart.
LEMMA ShapeStep ==
    ASSUME ShapeInv, Effect
    PROVE  ops' \in [OpIds -> Operation] /\ worker' \in [OpIds -> [Workers -> Worker]]
BY DEF ShapeInv, Effect, WorkerEffect, OpEffect, Moves, Takes, Begins, Counts, Marks, Refuses,
       Sets, Deletes, Changes, Registers

LEMMA RequestStep ==
    ASSUME ShapeInv, RequestInv, CountInv, Effect
    PROVE  RequestInv'
<1>0. /\ ops \in [OpIds -> Operation] /\ worker \in [OpIds -> [Workers -> Worker]]
      /\ NoLocation \notin Locations
      /\ \A o \in OpIds : /\ ops[o].feed \in 1 .. Total(o) + 1 /\ ops[o].keys \in Seq(Locations)
                          /\ ops[o].step \in Steps
      /\ {"head", "parts", "create"} \subseteq Requested /\ "check" \notin Requested
  BY BulkConstants DEF ShapeInv, CountInv, Operation, Requested
<1>1. CASE UNCHANGED <<ops, worker>>
  BY <1>1 DEF RequestInv, Shown, Total
<1>2. ASSUME NEW o \in OpIds, NEW w \in Workers, WorkerEffect(o, w) PROVE RequestInv'
  <2>1. ops[o].step = "pool" /\ SameRequests /\ SameSteps
    BY <1>2, NoOpChanges DEF WorkerEffect, Takes, Counts
  <2>2. \A q \in OpIds : q # o =>
          /\ ops'[q].feed = ops[q].feed /\ ops'[q].completed = ops[q].completed
          /\ \A v \in Workers :
                  worker'[q][v].pc = worker[q][v].pc /\ worker'[q][v].key = worker[q][v].key
    BY <1>2 DEF WorkerEffect, Takes, Counts, Moves, Begins
  <2>3. \A v \in Workers : (worker'[o][v].pc \in Requested) = (worker'[o][v].key # NoLocation)
    <3>0. \A v \in Workers : (worker[o][v].pc \in Requested) = (worker[o][v].key # NoLocation)
      BY DEF RequestInv
    <3>1. CASE \E p \in PCs : Moves(o, w, p) /\ Follows(o, w, p)
      BY <3>0, <3>1 DEF Moves, Follows
    <3>2. CASE Takes(o, w)
      <4>1. ops[o].keys[ops[o].feed] # NoLocation
        BY <1>0, <3>2 DEF Takes, Total
      <4> QED
        BY <1>0, <3>0, <3>2, <4>1 DEF Takes
    <3>3. CASE Begins(o, w)
      <4>1. "create" \in Requested /\ "parts" \in Requested
        BY <1>0
      <4>2. worker[o][w].key # NoLocation
        BY <3>0, <3>3, <4>1 DEF Begins
      <4> QED
        BY <3>0, <3>3, <4>1, <4>2 DEF Begins
    <3>4. CASE \E ok \in BOOLEAN : Counts(o, w, ok)
      BY <1>0, <3>0, <3>4 DEF Counts
    <3>5. CASE UNCHANGED <<ops, worker>>
      BY <3>0, <3>5
    <3> QED
      BY <1>2, <3>1, <3>2, <3>3, <3>4, <3>5 DEF WorkerEffect
  <2> SUFFICES ASSUME NEW q \in OpIds PROVE RequestInv!(q)'
    BY DEF RequestInv
  <2> QED
    BY <2>1, <2>2, <2>3 DEF RequestInv, SameRequests, SameSteps, Shown, Total
<1>3. ASSUME NEW o \in OpIds, OpEffect(o), UNCHANGED worker PROVE RequestInv'
  <2>1. SameRequests /\ \A q \in OpIds : q # o => ops'[q] = ops[q]
    BY <1>3 DEF OpEffect, Marks, Refuses, Sets, Deletes, Changes
  <2>2. CASE Marks(o)
    BY <1>3, <2>1, <2>2 DEF Marks, SameCounts, SameRequests, RequestInv, Shown, Total
  <2>3. CASE Refuses(o) /\ ops[o].step = "resolve"
    BY <1>3, <2>1, <2>3 DEF Refuses, SameRequests, RequestInv, Shown, Total, Requested
  <2>4. ASSUME NEW s \in Steps, NEW h \in {"none", "running", "completed", "cancelled"},
               Sets(o, s, h), Passes(o, s, h)
        PROVE  RequestInv'
    BY <1>0, <1>3, <2>1, <2>4
    DEF Sets, Passes, SameRequests, SameCounts, RequestInv, Shown, Total, Requested, Status
  <2>5. ASSUME ops[o].step = "request", NEW deleted \in SUBSET Batch(o), NEW answered \in BOOLEAN,
               Deletes(o, deleted, answered)
        PROVE  RequestInv'
    BY <1>3, <2>1, <2>5 DEF Deletes, SameRequests, RequestInv, Shown, Total, Requested
  <2> QED
    BY <1>3, <2>2, <2>3, <2>4, <2>5 DEF OpEffect
<1>4. ASSUME NEW o \in OpIds, NEW r \in Requests, Registers(o, r), UNCHANGED worker
      PROVE  RequestInv'
  BY <1>4 DEF Registers, RequestInv, Shown, Total
<1> QED
  BY <1>1, <1>2, <1>3, <1>4 DEF Effect

\* A worker that is busy keeps its key until it has counted it.
LEMMA BusyFinite ==
    ASSUME NEW o \in OpIds
    PROVE  IsFiniteSet(Busy(o)) /\ Cardinality(Busy(o)) \in Nat
<1>1. Busy(o) \subseteq Workers
  BY DEF Busy
<1> QED
  BY <1>1, BulkConstants, FS_Subset, FS_CardinalityType

CountOK(o) ==
    /\ ops[o].feed \in 1 .. Total(o) + 1
    /\ ops[o].failed <= ops[o].completed /\ ops[o].completed <= Total(o)
    /\ ops[o].step \notin {"finish", "ended"} =>
         ops[o].completed + Cardinality(Busy(o)) = ops[o].feed - 1

ExitOK(o) ==
    /\ ops[o].closed => ops[o].feed > Total(o) \/ ops[o].cancelled
    /\ \A w \in Workers : worker[o][w].pc = "exit" => ops[o].closed \/ ops[o].cancelled

HeldOK(o) ==
    \A w \in Workers : worker[o][w].key # NoLocation =>
      \E i \in 1 .. ops[o].feed - 1 : ops[o].keys[i] = worker[o][w].key

LEMMA CountParts == CountInv <=> \A o \in OpIds : CountOK(o) /\ ExitOK(o) /\ HeldOK(o)
BY DEF CountInv, CountOK, ExitOK, HeldOK

LEMMA BusyStep ==
    ASSUME ShapeInv, RequestInv, CountInv, NEW o \in OpIds, NEW w \in Workers, WorkerEffect(o, w)
    PROVE  CountOK(o)'
<1>0. /\ ops[o].feed \in Nat /\ ops[o].completed \in Nat /\ ops[o].failed \in Nat
      /\ Total(o) \in Nat /\ CountOK(o) /\ ops[o].step = "pool" /\ "finish" # "pool"
      /\ IsFiniteSet(Busy(o)) /\ Cardinality(Busy(o)) \in Nat
  BY BusyFinite, CountParts DEF ShapeInv, Operation, Total, WorkerEffect
<1>1. SameRequests /\ SameSteps /\ Total(o)' = Total(o) /\ ops'[o].step = "pool"
  BY <1>0, NoOpChanges DEF WorkerEffect, Takes, Counts, SameRequests, SameSteps, Total
<1>2. ASSUME Busy(o)' = Busy(o), UNCHANGED ops PROVE CountOK(o)'
  BY <1>0, <1>2 DEF CountOK, Total
<1>3. CASE \E p \in PCs : Moves(o, w, p) /\ UNCHANGED ops
  <2>1. Busy(o)' = Busy(o)
    BY <1>3 DEF Moves, Busy
  <2> QED
    BY <1>2, <1>3, <2>1
<1>4. CASE Begins(o, w) /\ UNCHANGED ops
  <2>1. Busy(o)' = Busy(o)
    BY <1>4 DEF Begins, Busy
  <2> QED
    BY <1>2, <1>4, <2>1
<1>5. CASE UNCHANGED <<ops, worker>>
  BY <1>2, <1>5 DEF Busy
<1>6. CASE Takes(o, w)
  <2>1. worker[o][w].key = NoLocation
    BY <1>6 DEF Takes, RequestInv, Requested
  <2>2. ops[o].keys[ops[o].feed] # NoLocation
    <3>1. ops[o].keys \in Seq(Locations) /\ ops[o].feed \in 1 .. Len(ops[o].keys)
      BY <1>0, <1>6 DEF ShapeInv, Operation, Takes, Total, CountOK
    <3> QED
      BY <3>1, BulkConstants
  <2>3. Busy(o)' = Busy(o) \cup {w} /\ w \notin Busy(o)
    BY <1>6, <2>1, <2>2 DEF Takes, Busy
  <2>4. Cardinality(Busy(o)') = Cardinality(Busy(o)) + 1
    BY <1>0, <2>3, FS_AddElement
  <2>5. /\ ops'[o].feed = ops[o].feed + 1 /\ ops'[o].completed = ops[o].completed
        /\ ops'[o].failed = ops[o].failed /\ ops[o].feed <= Total(o)
    BY <1>6 DEF Takes
  <2> QED
    BY <1>0, <1>1, <2>4, <2>5 DEF CountOK
<1>7. CASE worker[o][w].pc \in Requested /\ \E ok \in BOOLEAN : Counts(o, w, ok)
  <2>1. w \in Busy(o)
    BY <1>7 DEF RequestInv, Busy
  <2>2. Busy(o)' = Busy(o) \ {w}
    BY <1>7 DEF Counts, Busy
  <2>3. Cardinality(Busy(o)') = Cardinality(Busy(o)) - 1 /\ Cardinality(Busy(o)') \in Nat
    <3>1. IsFiniteSet(Busy(o) \ {w}) /\ Cardinality(Busy(o) \ {w}) \in Nat
      BY <1>0, FS_Subset, FS_CardinalityType
    <3> QED
      BY <1>0, <2>1, <2>2, <3>1, FS_RemoveElement
  <2>4. /\ ops'[o].feed = ops[o].feed /\ ops'[o].completed = ops[o].completed + 1
        /\ ops'[o].failed \in {ops[o].failed, ops[o].failed + 1}
    BY <1>7 DEF Counts
  <2> QED
    BY <1>0, <1>1, <2>3, <2>4 DEF CountOK
<1> QED
  BY <1>3, <1>4, <1>5, <1>6, <1>7 DEF WorkerEffect

\* Every object is named once in a request, so each worker has a key of its own.
LEMMA OpKeys ==
    ASSUME Apart, ShapeInv, RequestInv, NEW o \in OpIds, ops[o].step # "none"
    PROVE  /\ ops[o].keys \in Seq(Locations) /\ ops[o].dest \in Folders
           /\ \A i \in 1 .. Total(o) : ops[o].keys[i] \in Locations
           /\ \A i, j \in 1 .. Total(o) : ops[o].keys[i] = ops[o].keys[j] => i = j
           /\ ops[o].type \in {"copy", "move", "delete"}
           /\ \A i \in 1 .. Total(o) : ops[o].type # "delete" =>
                <<ops[o].dest, ops[o].keys[i][2]>> \in Targets(ops[o].keys[i])
           /\ \A i \in 1 .. Total(o) : ops[o].type = "delete" =>
                ops[o].keys[i][2] # Marker /\ \A l \in Locations : ops[o].keys[i] \notin Targets(l)
<1>1. PICK r \in Requests : ops[o].type = r.type /\ ops[o].keys = r.keys /\ ops[o].dest = r.dest
  BY DEF RequestInv
<1>2. /\ r.type \in {"copy", "move", "delete"} /\ r.dest \in Folders
      /\ r.keys \in Seq(Locations)
  BY BulkConstants
<1>3. \A i \in 1 .. Len(r.keys) :
        r.keys[i] \in Locations /\ r.keys[i][2] \in Names \cup {Marker}
  BY <1>2 DEF Locations
<1>4. \A i \in 1 .. Len(r.keys) : <<r.dest, r.keys[i][2]>> \in Locations
  BY <1>2, <1>3 DEF Locations
<1>5. /\ \A i, j \in 1 .. Len(r.keys) : r.keys[i] = r.keys[j] => i = j
      /\ \A i \in 1 .. Len(r.keys) : r.type = "delete" =>
           r.keys[i][2] # Marker /\ \A l \in Locations : r.keys[i] \notin Targets(l)
  BY DEF Apart
<1>6. \A i \in 1 .. Len(r.keys) : r.type # "delete" =>
        <<r.dest, r.keys[i][2]>> \in Targets(r.keys[i])
  BY <1>4 DEF Targets
<1>. HIDE DEF Locations
<1> QED
  BY <1>1, <1>2, <1>3, <1>5, <1>6 DEF Total

LEMMA HeldStep ==
    ASSUME ShapeInv, RequestInv, CountInv, NEW o \in OpIds, NEW w \in Workers, WorkerEffect(o, w)
    PROVE  HeldOK(o)'
<1>0. /\ ops[o].feed \in Nat /\ Total(o) \in Nat /\ HeldOK(o) /\ CountOK(o)
  <2>1. ops[o].feed \in Nat /\ Total(o) \in Nat
    BY DEF ShapeInv, Operation, Total
  <2> QED
    BY <2>1, CountParts
<1>1. ops'[o].keys = ops[o].keys /\ ops'[o].feed \in {ops[o].feed, ops[o].feed + 1}
  BY NoOpChanges DEF WorkerEffect, Takes, Counts, SameRequests, SameCounts
<1>2. ASSUME \A v \in Workers : worker'[o][v].key \in {worker[o][v].key, NoLocation}
      PROVE  HeldOK(o)'
  <2> SUFFICES ASSUME NEW v \in Workers, worker'[o][v].key # NoLocation
               PROVE  \E i \in 1 .. ops'[o].feed - 1 : ops'[o].keys[i] = worker'[o][v].key
    BY DEF HeldOK
  <2>1. worker'[o][v].key = worker[o][v].key
    BY <1>2
  <2>2. \E i \in 1 .. ops[o].feed - 1 : ops[o].keys[i] = worker[o][v].key
    BY <1>0, <2>1 DEF HeldOK
  <2>3. 1 .. ops[o].feed - 1 \subseteq 1 .. ops'[o].feed - 1
    BY <1>0, <1>1
  <2> QED
    BY <1>1, <2>1, <2>2, <2>3
<1>3. CASE Takes(o, w)
  <2>. DEFINE n == ops[o].feed
  <2>1. n \in 1 .. Total(o)
    BY <1>0, <1>3 DEF Takes, CountOK
  <2>2. \A v \in Workers : worker'[o][v].key = IF v = w THEN ops[o].keys[n] ELSE worker[o][v].key
    BY <1>3 DEF Takes
  <2>3. ops'[o].feed = n + 1
    BY <1>3 DEF Takes
  <2>4. \A v \in Workers : worker'[o][v].key # NoLocation =>
          \E i \in 1 .. n : ops[o].keys[i] = worker'[o][v].key
    BY <1>0, <2>1, <2>2 DEF HeldOK
  <2> QED
    BY <1>0, <1>1, <2>1, <2>3, <2>4 DEF HeldOK
<1> QED
  BY <1>2, <1>3 DEF WorkerEffect, Moves, Begins, Counts

\* An operation that a step of another one leaves as it is.
Rests(q) ==
    /\ ops'[q].type = ops[q].type /\ ops'[q].keys = ops[q].keys /\ ops'[q].dest = ops[q].dest
    /\ ops'[q].feed = ops[q].feed /\ ops'[q].completed = ops[q].completed
    /\ ops'[q].failed = ops[q].failed /\ ops'[q].step = ops[q].step
    /\ ops'[q].closed = ops[q].closed /\ ops'[q].cancelled = ops[q].cancelled
    /\ ops'[q].shown = ops[q].shown
    /\ \A v \in Workers : worker'[q][v].pc = worker[q][v].pc /\ worker'[q][v].key = worker[q][v].key

LEMMA OthersRest ==
    ASSUME NEW o \in OpIds, NEW q \in OpIds, q # o,
           (\E w \in Workers : WorkerEffect(o, w)) \/ (OpEffect(o) /\ UNCHANGED worker)
    PROVE  Rests(q)
<1>1. ASSUME NEW w \in Workers, WorkerEffect(o, w) PROVE Rests(q)
  <2>1. CASE UNCHANGED ops /\ ((\E p \in PCs : Moves(o, w, p)) \/ Begins(o, w) \/ UNCHANGED worker)
    BY <2>1 DEF Moves, Begins, Rests
  <2>2. CASE Takes(o, w)
    BY <2>2 DEF Takes, SameRequests, SameSteps, Rests
  <2>3. CASE \E ok \in BOOLEAN : Counts(o, w, ok)
    BY <2>3 DEF Counts, SameRequests, SameSteps, Rests
  <2> QED
    BY <1>1, <2>1, <2>2, <2>3 DEF WorkerEffect
<1>2. ASSUME OpEffect(o), UNCHANGED worker PROVE Rests(q)
  <2>1. ops'[q] = ops[q]
    BY <1>2 DEF OpEffect, Marks, Refuses, Sets, Deletes, Changes
  <2> QED
    BY <1>2, <2>1 DEF Rests
<1> QED
  BY <1>1, <1>2

LEMMA CountStep ==
    ASSUME ShapeInv, RequestInv, CountInv, Effect
    PROVE  CountInv'
<1>0. /\ \A o \in OpIds : /\ CountOK(o) /\ ExitOK(o) /\ HeldOK(o)
                          /\ ops[o].feed \in Nat /\ Total(o) \in Nat /\ ops[o].completed \in Nat
                          /\ ops[o].failed \in Nat
                          /\ Cardinality(Busy(o)) \in Nat
      /\ ops' \in [OpIds -> Operation]
  <2>1. \A o \in OpIds : /\ ops[o].feed \in Nat /\ Total(o) \in Nat /\ ops[o].completed \in Nat
                         /\ ops[o].failed \in Nat
    BY DEF ShapeInv, Operation, Total
  <2>2. \A o \in OpIds : CountOK(o) /\ ExitOK(o) /\ HeldOK(o) /\ Cardinality(Busy(o)) \in Nat
    BY CountParts, BusyFinite
  <2> QED
    BY <2>1, <2>2, ShapeStep
<1>1. ASSUME NEW q \in OpIds, Rests(q) PROVE CountOK(q)' /\ ExitOK(q)' /\ HeldOK(q)'
  <2>1. Busy(q)' = Busy(q) /\ Total(q)' = Total(q)
    BY <1>1 DEF Rests, Busy, Total
  <2>2. CountOK(q)'
    BY <1>0, <1>1, <2>1 DEF Rests, CountOK
  <2>3. ExitOK(q)' /\ HeldOK(q)'
    BY <1>0, <1>1, <2>1 DEF Rests, ExitOK, HeldOK
  <2> QED
    BY <2>2, <2>3
<1>2. CASE UNCHANGED <<ops, worker>>
  BY <1>1, <1>2, CountParts DEF CountInv, Busy, Total
<1>3. ASSUME NEW o \in OpIds, NEW w \in Workers, WorkerEffect(o, w) PROVE CountInv'
  <2>1. \A q \in OpIds : q # o => CountOK(q)' /\ ExitOK(q)' /\ HeldOK(q)'
    <3>1. \A q \in OpIds : q # o => Rests(q)
      BY <1>3, OthersRest
    <3> QED
      BY <1>1, <3>1
  <2>2. CountOK(o)' /\ HeldOK(o)'
    BY <1>3, BusyStep, HeldStep
  <2>3. ExitOK(o)'
    <3>1. /\ ops'[o].closed = ops[o].closed /\ ops'[o].cancelled = ops[o].cancelled
          /\ ops'[o].keys = ops[o].keys
      BY <1>3, NoOpChanges DEF WorkerEffect, Takes, Counts, SameRequests, SameSteps
    <3>2. \A v \in Workers : worker'[o][v].pc = "exit" =>
            worker[o][v].pc = "exit" \/ ops[o].closed \/ ops[o].cancelled
      BY <1>3 DEF WorkerEffect, Moves, Takes, Begins, Counts, Follows
    <3>3. ops'[o].feed \in Nat
      BY <1>0 DEF Operation
    <3>4. ops'[o].feed >= ops[o].feed
      BY <1>0, <1>3, NoOpChanges DEF WorkerEffect, Takes, Counts, SameCounts
    <3> QED
      BY <1>0, <3>1, <3>2, <3>3, <3>4 DEF ExitOK, Total
  <2> QED
    BY <2>1, <2>2, <2>3 DEF CountInv, CountOK, ExitOK, HeldOK
<1>4. ASSUME NEW o \in OpIds, OpEffect(o), UNCHANGED worker PROVE CountInv'
  <2>1. Busy(o)' = Busy(o) /\ Total(o)' = Total(o) /\ ops'[o].keys = ops[o].keys
    BY <1>4 DEF Busy, Total, OpEffect, Marks, Refuses, Sets, Deletes, Changes, SameRequests
  <2>2. \A q \in OpIds : q # o => CountOK(q)' /\ ExitOK(q)' /\ HeldOK(q)'
    <3>1. \A q \in OpIds : q # o => Rests(q)
      BY <1>4, OthersRest
    <3> QED
      BY <1>1, <3>1
  <2>3. CASE Marks(o)
    <3>1. CountOK(o)'
      BY <1>0, <2>1, <2>3 DEF Marks, SameCounts, CountOK
    <3>2. ExitOK(o)' /\ HeldOK(o)'
      BY <1>0, <1>4, <2>1, <2>3 DEF Marks, SameCounts, ExitOK, HeldOK
    <3> QED
      BY <2>2, <3>1, <3>2 DEF CountInv, CountOK, ExitOK, HeldOK
  <2>4. CASE Refuses(o)
    <3>1. CountOK(o)'
      BY <1>0, <2>1, <2>4 DEF Refuses, CountOK
    <3>2. ExitOK(o)' /\ HeldOK(o)'
      BY <1>0, <1>4, <2>1, <2>4 DEF Refuses, ExitOK, HeldOK
    <3> QED
      BY <2>2, <3>1, <3>2 DEF CountInv, CountOK, ExitOK, HeldOK
  <2>5. ASSUME NEW s \in Steps, NEW h \in {"none", "running", "completed", "cancelled"},
               Sets(o, s, h), Passes(o, s, h)
        PROVE  CountInv'
    <3>1. CountOK(o)'
      BY <1>0, <2>1, <2>5 DEF Sets, Passes, SameCounts, CountOK
    <3>2. ExitOK(o)' /\ HeldOK(o)'
      BY <1>0, <1>4, <2>1, <2>5 DEF Sets, SameCounts, ExitOK, HeldOK
    <3> QED
      BY <2>2, <3>1, <3>2 DEF CountInv, CountOK, ExitOK, HeldOK
  <2>6. ASSUME ops[o].step = "request", NEW deleted \in SUBSET Batch(o), NEW answered \in BOOLEAN,
               Deletes(o, deleted, answered)
        PROVE  CountInv'
    <3>. DEFINE n == Cardinality(Batch(o))
                k == Failures(o, deleted, answered)
    <3>1. n \in Nat /\ k \in 0 .. n /\ ops[o].feed + n <= Total(o) + 1
      BY <2>6, BatchCounts DEF RequestInv
    <3>2. /\ ops'[o].feed = ops[o].feed + n /\ ops'[o].completed = ops[o].completed + n
          /\ ops'[o].failed = ops[o].failed + k /\ ops'[o].closed = ops[o].closed
          /\ ops'[o].cancelled = ops[o].cancelled
      BY <2>6 DEF Deletes
    <3>. HIDE DEF n, k
    <3>3. ops[o].completed + Cardinality(Busy(o)) = ops[o].feed - 1
      BY <1>0, <2>6 DEF CountOK
    <3>4. CountOK(o)'
      BY <1>0, <2>1, <3>1, <3>2, <3>3 DEF CountOK
    <3>5. ops'[o].feed >= ops[o].feed /\ ops'[o].feed \in Nat
      BY <1>0, <3>1, <3>2
    <3>6. ExitOK(o)'
      BY <1>0, <1>4, <2>1, <3>2, <3>5 DEF ExitOK
    <3>7. HeldOK(o)'
      BY <1>0, <1>4, <2>1, <3>5 DEF HeldOK
    <3> QED
      BY <2>2, <3>4, <3>6, <3>7 DEF CountInv, CountOK, ExitOK, HeldOK
  <2> QED
    BY <1>4, <2>3, <2>4, <2>5, <2>6 DEF OpEffect
<1>5. ASSUME NEW o \in OpIds, NEW r \in Requests, Registers(o, r), UNCHANGED worker
      PROVE  CountInv'
  <2>1. \A v \in Workers : worker[o][v].pc = "check" /\ worker[o][v].key = NoLocation
    BY <1>5 DEF Registers, RequestInv, Requested
  <2>2. Cardinality(Busy(o)') = 0
    <3>1. Busy(o)' = {}
      BY <1>5, <2>1 DEF Busy
    <3> QED
      BY <3>1, FS_EmptySet
  <2>3. Total(o)' \in Nat
    BY <1>0 DEF Operation, Total
  <2>4. CountOK(o)' /\ ExitOK(o)' /\ HeldOK(o)'
    BY <1>5, <2>1, <2>2, <2>3 DEF Registers, CountOK, ExitOK, HeldOK
  <2>5. \A q \in OpIds : q # o => CountOK(q)' /\ ExitOK(q)' /\ HeldOK(q)'
    BY <1>1, <1>5 DEF Registers, Rests
  <2> QED
    BY <2>4, <2>5 DEF CountInv, CountOK, ExitOK, HeldOK
<1> QED
  BY <1>2, <1>3, <1>4, <1>5 DEF Effect

\* A worker takes a key that no other one has.
LEMMA AloneStep ==
    ASSUME Apart, ShapeInv, RequestInv, CountInv, HeldInv, Effect
    PROVE  HeldInv'
<1>1. ASSUME NEW o \in OpIds,
             \A v \in Workers : worker'[o][v].key \in {worker[o][v].key, NoLocation}
      PROVE  \A v, w \in Workers :
               worker'[o][w].key # NoLocation /\ worker'[o][v].key = worker'[o][w].key => v = w
  BY <1>1 DEF HeldInv
<1>2. CASE UNCHANGED worker
  BY <1>2 DEF HeldInv
<1>3. ASSUME NEW o \in OpIds, NEW w \in Workers, WorkerEffect(o, w) PROVE HeldInv'
  <2>1. \A q \in OpIds : q # o => \A v \in Workers : worker'[q][v].key = worker[q][v].key
    <3>1. \A q \in OpIds : q # o => Rests(q)
      BY <1>3, OthersRest
    <3> QED
      BY <3>1 DEF Rests
  <2>2. CASE ~Takes(o, w)
    <3>1. \A v \in Workers : worker'[o][v].key \in {worker[o][v].key, NoLocation}
      BY <1>3, <2>2 DEF WorkerEffect, Moves, Begins, Counts
    <3> QED
      BY <1>1, <2>1, <3>1 DEF HeldInv
  <2>3. CASE Takes(o, w)
    <3>. DEFINE n == ops[o].feed
    <3>0. ops[o].step # "none" /\ Total(o) \in Nat /\ n \in 1 .. Total(o) + 1 /\ n <= Total(o)
      BY <1>3, <2>3 DEF Takes, CountInv, WorkerEffect, ShapeInv, Operation, Total
    <3>1. /\ n \in 1 .. Total(o) /\ ops[o].step # "none"
          /\ \A i \in 1 .. n - 1 : i \in 1 .. Total(o) /\ i # n
      BY <3>0
    <3>2. ops[o].keys[n] \in Locations /\ \A i \in 1 .. n - 1 : ops[o].keys[i] # ops[o].keys[n]
      BY <3>1, OpKeys
    <3>3. \A v \in Workers : worker[o][v].key # ops[o].keys[n]
      BY <3>2, BulkConstants DEF CountInv
    <3>4. \A v \in Workers : worker'[o][v].key = IF v = w THEN ops[o].keys[n] ELSE worker[o][v].key
      BY <2>3 DEF Takes
    <3>. HIDE DEF n
    <3>5. \A v, u \in Workers :
            worker'[o][u].key # NoLocation /\ worker'[o][v].key = worker'[o][u].key => v = u
      BY <3>3, <3>4 DEF HeldInv
    <3> QED
      BY <1>1, <2>1, <3>5 DEF HeldInv
  <2> QED
    BY <2>2, <2>3
<1> QED
  BY <1>2, <1>3 DEF Effect

LEMMA FinalStep ==
    ASSUME ShapeInv, RequestInv, CountInv, FinalInv, Effect
    PROVE  FinalInv'
<1>0. ASSUME NEW q \in OpIds, Rests(q) PROVE FinalInv!(q)'
  BY <1>0 DEF Rests, FinalInv, Total, Shown
<1>1. CASE UNCHANGED <<ops, worker>>
  BY <1>1 DEF FinalInv, Total, Shown
<1>2. ASSUME NEW o \in OpIds, NEW w \in Workers, WorkerEffect(o, w) PROVE FinalInv'
  <2>1. \A q \in OpIds : q # o => Rests(q)
    BY <1>2, OthersRest
  <2>2. ops'[o].step = "pool"
    BY <1>2, NoOpChanges DEF WorkerEffect, Takes, Counts, SameSteps
  <2> QED
    BY <1>0, <2>1, <2>2 DEF FinalInv
<1>3. ASSUME NEW o \in OpIds, OpEffect(o), UNCHANGED worker PROVE FinalInv'
  <2>1. \A q \in OpIds : q # o => Rests(q)
    BY <1>3, OthersRest
  <2>2. Total(o)' = Total(o)
    BY <1>3 DEF Total, OpEffect, Marks, Refuses, Sets, Deletes, Changes, SameRequests
  <2>3. CASE Marks(o)
    BY <1>0, <2>1, <2>2, <2>3 DEF FinalInv, Marks, SameCounts, Shown
  <2>4. CASE Refuses(o)
    BY <1>0, <2>1, <2>2, <2>4 DEF FinalInv, Refuses, Shown
  <2>5. ASSUME NEW s \in Steps, NEW h \in {"none", "running", "completed", "cancelled"},
               Sets(o, s, h), Passes(o, s, h)
        PROVE  FinalInv'
    <3>1. /\ ops'[o].step = s /\ ops'[o].shown = h /\ ops'[o].cancelled = ops[o].cancelled
          /\ ops'[o].feed = ops[o].feed /\ ops'[o].completed = ops[o].completed
      BY <2>5 DEF Sets, SameCounts
    <3>2. /\ CountOK(o) /\ ExitOK(o)
          /\ ops[o].completed \in Nat /\ ops[o].feed \in Nat /\ Total(o) \in Nat
      BY CountParts DEF ShapeInv, Operation, Total
    <3>3. SUFFICES ASSUME s \in {"finish", "ended"}
                   PROVE  /\ h \in {"completed", "cancelled"}
                          /\ h = "completed" => ops[o].completed = Total(o)
                          /\ ops[o].completed = Total(o) \/ ops[o].completed = ops[o].feed - 1
                          /\ h = "cancelled" => ops[o].cancelled
      BY <1>0, <2>1, <2>2, <3>1 DEF FinalInv, Shown
    <3>4. CASE ops[o].step = "finish" /\ h = ops[o].shown
      BY <3>4 DEF FinalInv, Shown
    <3>5. ASSUME ops[o].step # "pool" \/ \A w \in Workers : worker[o][w].pc = "exit",
                 ops[o].step \notin {"finish", "ended"}
          PROVE  ops[o].completed = ops[o].feed - 1
      <4>1. \A w \in Workers : worker[o][w].pc \notin Requested
        BY <3>5 DEF RequestInv, Requested
      <4>2. Busy(o) = {}
        BY <4>1 DEF RequestInv, Busy
      <4> QED
        BY <3>2, <3>5, <4>2, FS_EmptySet DEF CountOK
    <3>6. CASE ops[o].step = "pool" /\ h = Status(o) /\ \A w \in Workers : worker[o][w].pc = "exit"
      <4>1. ops[o].completed = ops[o].feed - 1
        BY <3>5, <3>6
      <4>2. (ops[o].feed > Total(o)) \/ ops[o].cancelled
        BY <3>2, <3>6, BulkConstants DEF ExitOK
      <4> QED
        BY <3>2, <3>6, <4>1, <4>2 DEF Status, CountOK
    <3>7. CASE ops[o].step = "batch" /\ ops[o].feed > Total(o) /\ h = "completed"
      BY <3>2, <3>5, <3>7 DEF CountOK
    <3>8. CASE ops[o].step = "batch" /\ ops[o].cancelled /\ h = "cancelled"
      BY <3>2, <3>5, <3>8 DEF CountOK
    <3> QED
      BY <2>5, <3>3, <3>4, <3>6, <3>7, <3>8 DEF Passes
  <2>6. ASSUME NEW deleted, NEW answered, Deletes(o, deleted, answered) PROVE FinalInv'
    BY <1>0, <2>1, <2>6 DEF FinalInv, Deletes
  <2> QED
    BY <1>3, <2>3, <2>4, <2>5, <2>6 DEF OpEffect
<1>4. ASSUME NEW o \in OpIds, NEW r \in Requests, Registers(o, r), UNCHANGED worker
      PROVE  FinalInv'
  BY <1>0, <1>4 DEF FinalInv, Registers, Rests
<1> QED
  BY <1>1, <1>2, <1>3, <1>4 DEF Effect

-----------------------------------------------------------------------------
(* The objects of a worker *)

\* What Apart says of the key that a worker has, and of where it copies it.
LEMMA KeyOfWorker ==
    ASSUME Apart, ShapeInv, RequestInv, CountInv, DataInv, NEW o \in OpIds, NEW w \in Workers,
           worker[o][w].pc \in Requested
    PROVE  /\ ops[o].step = "pool" /\ ops[o].type \in {"copy", "move"}
           /\ Source(o, w) \in Locations /\ Dest(o, w) \in Targets(Source(o, w))
           /\ \E i \in 1 .. ops[o].feed - 1 : i \in 1 .. Total(o) /\ ops[o].keys[i] = Source(o, w)
           /\ Present(Source(o, w)) => store[Source(o, w)].data = Source(o, w)
                                        /\ Source(o, w) \in Stored
<1>1. ops[o].step = "pool" /\ ops[o].type # "delete" /\ worker[o][w].key # NoLocation
  BY DEF RequestInv
<1>2. PICK i \in 1 .. ops[o].feed - 1 : ops[o].keys[i] = worker[o][w].key
  BY <1>1 DEF CountInv
<1>3. i \in 1 .. Total(o)
  BY <1>2 DEF CountInv, ShapeInv, Operation, Total
<1>4. /\ ops[o].keys[i] \in Locations
      /\ <<ops[o].dest, ops[o].keys[i][2]>> \in Targets(ops[o].keys[i])
      /\ ops[o].type \in {"copy", "move"}
  BY <1>1, <1>3, OpKeys
<1>. HIDE DEF Locations
<1>5. Present(ops[o].keys[i]) => /\ store[ops[o].keys[i]].data = ops[o].keys[i]
                                 /\ ops[o].keys[i] \in Stored
  BY <1>4 DEF DataInv
<1> QED
  BY <1>1, <1>2, <1>3, <1>4, <1>5 DEF Source, Dest

\* Sources and targets are different places.
LEMMA TargetsApart ==
    ASSUME Apart, NEW l \in Locations, NEW m \in Targets(l)
    PROVE  /\ m \in Locations /\ m \notin Stored /\ m[2] # Marker /\ l[2] # Marker
           /\ Targets(m) = {} /\ l # m
           /\ \A k \in Locations : m \in Targets(k) => k = l
           /\ \A k \in Locations : l \notin Targets(k)
<1>1. m \in Locations
  BY DEF Targets
<1>2. /\ m \notin Stored /\ m[2] # Marker /\ l[2] # Marker /\ Targets(m) = {}
      /\ \A k \in Locations : m \in Targets(k) => k = l
  BY DEF Apart
<1>3. ASSUME NEW k \in Locations, l \in Targets(k) PROVE FALSE
  <2>1. Targets(l) = {}
    BY <1>3 DEF Apart
  <2> QED
    BY <2>1
<1> QED
  BY <1>1, <1>2, <1>3

LEMMA UploadOfWorker ==
    ASSUME UploadInv, NEW o \in OpIds, NEW w \in Workers, InParts(o, w)
    PROVE  /\ Upload(o, w) \in uploads /\ Upload(o, w).id = worker[o][w].upload
           /\ Upload(o, w).got \in Seq(Data)
           /\ worker[o][w].pc = "parts" => Len(Upload(o, w).got) < Parts
           /\ worker[o][w].pc = "complete" => Len(Upload(o, w).got) = Parts
           /\ \A i \in 1 .. Len(Upload(o, w).got) : Upload(o, w).got[i] = worker[o][w].key
<1>1. PICK u \in uploads :
        /\ u.id = worker[o][w].upload
        /\ worker[o][w].pc = "parts" => Len(u.got) < Parts
        /\ worker[o][w].pc = "complete" => Len(u.got) = Parts
        /\ \A i \in 1 .. Len(u.got) : u.got[i] = worker[o][w].key
  BY DEF UploadInv, OwnUpload
<1>2. Upload(o, w) \in uploads /\ Upload(o, w).id = worker[o][w].upload
  BY <1>1 DEF Upload
<1>3. Upload(o, w) = u
  BY <1>1, <1>2 DEF UploadInv
<1>4. u.got \in Seq(Data)
  BY DEF UploadInv
<1> QED
  BY <1>1, <1>3, <1>4

\* What a completed upload puts together is the object of its parts.
LEMMA PartsAssemble ==
    ASSUME UploadInv, NEW o \in OpIds, NEW w \in Workers, worker[o][w].pc = "complete"
    PROVE  Assembled(Upload(o, w).got) = worker[o][w].key
<1>1. /\ Len(Upload(o, w).got) = Parts /\ Parts \in Nat \ {0}
      /\ \A i \in 1 .. Len(Upload(o, w).got) : Upload(o, w).got[i] = worker[o][w].key
  BY UploadOfWorker, BulkConstants DEF InParts
<1>2. 1 \in 1 .. Len(Upload(o, w).got)
  BY <1>1
<1> QED
  BY <1>1, <1>2 DEF Assembled

-----------------------------------------------------------------------------
(* Multipart uploads *)

LEMMA UploadsStay ==
    ASSUME UploadInv, UNCHANGED <<uploads, nextID>>,
           \A q \in OpIds : \A v \in Workers :
             /\ worker'[q][v].pc \in {"parts", "complete", "abort"} <=> InParts(q, v)
             /\ InParts(q, v) => /\ worker'[q][v].pc \in {worker[q][v].pc, "abort"}
                                 /\ worker'[q][v].key = worker[q][v].key
                                 /\ worker'[q][v].upload = worker[q][v].upload
    PROVE  UploadInv'
<1>1. /\ (uploads \subseteq [id: 1 .. nextID, got: Seq(Data), orphan: BOOLEAN])'
      /\ (\A u \in uploads : Len(u.got) <= Parts)'
      /\ (\A u, v \in uploads : u.id = v.id => u = v)'
  BY DEF UploadInv
<1>2. ASSUME NEW q \in OpIds, NEW v \in Workers, InParts(q, v)'
      PROVE  /\ OwnUpload(q, v)'
             /\ \A p \in OpIds : \A u \in Workers :
                  InParts(p, u)' /\ worker'[p][u].upload = worker'[q][v].upload => p = q /\ u = v
  <2>1. InParts(q, v)
    BY <1>2 DEF InParts
  <2>2. OwnUpload(q, v)'
    BY <2>1 DEF UploadInv, OwnUpload
  <2>3. ASSUME NEW p \in OpIds, NEW u \in Workers, InParts(p, u)',
               worker'[p][u].upload = worker'[q][v].upload
        PROVE  p = q /\ u = v
    BY <2>1, <2>3 DEF UploadInv, InParts
  <2> QED
    BY <2>2, <2>3
<1>3. ASSUME NEW u \in uploads, ~u.orphan
      PROVE  \E q \in OpIds : \E v \in Workers : InParts(q, v)' /\ worker'[q][v].upload = u.id
  <2>1. PICK q \in OpIds, v \in Workers : InParts(q, v) /\ worker[q][v].upload = u.id
    BY <1>3 DEF UploadInv
  <2> QED
    BY <2>1 DEF InParts
<1> QED
  BY <1>1, <1>2, <1>3 DEF UploadInv

LEMMA CreateStep ==
    ASSUME ShapeInv, LimitInv, UploadInv, NEW o \in OpIds, NEW w \in Workers, CreateUpload(o, w)
    PROVE  UploadInv'
<1>0. PICK lost \in BOOLEAN :
        /\ uploads' = uploads \cup {[id |-> nextID', got |-> <<>>, orphan |-> lost]}
        /\ \/ /\ ~lost
              /\ worker' = [worker EXCEPT ![o][w].pc = "parts", ![o][w].upload = nextID']
           \/ lost /\ Unanswered(o, w)
  BY DEF CreateUpload
<1>. DEFINE N == [id |-> nextID', got |-> <<>>, orphan |-> lost]
<1>1. /\ nextID \in Nat /\ nextID' = nextID + 1 /\ uploads' = uploads \cup {N}
      /\ N.orphan = lost
      /\ worker[o][w].pc = "create" /\ N.id = nextID' /\ N.got = <<>> /\ Len(N.got) = 0
  BY <1>0, NoData DEF CreateUpload, At, LimitInv
<1>2. N \in [id: 1 .. nextID', got: Seq(Data), orphan: BOOLEAN] /\ Parts \in Nat \ {0}
  <2>1. <<>> \in Seq(Data)
    OBVIOUS
  <2> QED
    BY <1>1, <2>1, BulkConstants
<1>3. /\ uploads \subseteq [id: 1 .. nextID, got: Seq(Data), orphan: BOOLEAN]
      /\ \A u \in uploads : u.id \in 1 .. nextID /\ u.id # N.id /\ Len(u.got) <= Parts
  BY <1>1 DEF UploadInv
<1>. HIDE DEF N
<1>4. (uploads \subseteq [id: 1 .. nextID, got: Seq(Data), orphan: BOOLEAN])'
  <2>1. 1 .. nextID \subseteq 1 .. nextID'
    BY <1>1
  <2> QED
    BY <1>1, <1>2, <1>3, <2>1
<1>5. /\ (\A u \in uploads : Len(u.got) <= Parts)'
      /\ (\A u, v \in uploads : u.id = v.id => u = v)'
  BY <1>1, <1>2, <1>3 DEF UploadInv
<1>6. ASSUME NEW q \in OpIds, NEW v \in Workers, InParts(q, v), q # o \/ v # w,
             worker'[q][v].pc = worker[q][v].pc, worker'[q][v].key = worker[q][v].key,
             worker'[q][v].upload = worker[q][v].upload
      PROVE  OwnUpload(q, v)' /\ worker[q][v].upload # N.id
  <2>1. PICK u \in uploads :
          /\ u.id = worker[q][v].upload
          /\ worker[q][v].pc = "parts" => Len(u.got) < Parts
          /\ worker[q][v].pc = "complete" => Len(u.got) = Parts
          /\ \A i \in 1 .. Len(u.got) : u.got[i] = worker[q][v].key
    BY <1>6 DEF UploadInv, OwnUpload
  <2>2. u \in uploads' /\ u.id # N.id
    BY <1>1, <1>3
  <2> QED
    BY <1>6, <2>1, <2>2 DEF OwnUpload
<1>7. CASE Begins(o, w)
  <2>1. OwnUpload(o, w)' /\ worker'[o][w].upload = N.id
    BY <1>1, <1>2, <1>7 DEF Begins, OwnUpload
  <2>2. \A q \in OpIds : \A v \in Workers : q # o \/ v # w =>
          /\ InParts(q, v)' <=> InParts(q, v)
          /\ worker'[q][v].pc = worker[q][v].pc /\ worker'[q][v].key = worker[q][v].key
          /\ worker'[q][v].upload = worker[q][v].upload
    BY <1>7 DEF Begins, InParts
  <2>3. ASSUME NEW q \in OpIds, NEW v \in Workers, InParts(q, v)'
        PROVE  /\ OwnUpload(q, v)'
               /\ \A p \in OpIds : \A u \in Workers :
                    InParts(p, u)' /\ worker'[p][u].upload = worker'[q][v].upload => p = q /\ u = v
    <3>1. OwnUpload(q, v)'
      BY <1>6, <2>1, <2>2, <2>3
    <3>2. ASSUME NEW p \in OpIds, NEW u \in Workers, InParts(p, u)',
                 worker'[p][u].upload = worker'[q][v].upload
          PROVE  p = q /\ u = v
      <4>1. CASE (p # o \/ u # w) /\ (q # o \/ v # w)
        BY <2>2, <2>3, <3>2, <4>1 DEF UploadInv
      <4>2. CASE (p # o \/ u # w) /\ q = o /\ v = w
        BY <1>1, <1>6, <2>1, <2>2, <3>2, <4>2
      <4>3. CASE p = o /\ u = w /\ (q # o \/ v # w)
        BY <1>1, <1>6, <2>1, <2>2, <2>3, <3>2, <4>3
      <4> QED
        BY <4>1, <4>2, <4>3
    <3> QED
      BY <3>1, <3>2
  <2>4. ASSUME NEW u \in uploads', ~u.orphan
        PROVE  \E q \in OpIds : \E v \in Workers : InParts(q, v)' /\ worker'[q][v].upload = u.id
    <3>1. CASE u = N
      BY <1>7, <2>1, <3>1 DEF Begins, InParts
    <3>2. CASE u \in uploads
      <4>1. PICK q \in OpIds, v \in Workers : InParts(q, v) /\ worker[q][v].upload = u.id
        BY <1>7, <2>4, <3>2 DEF UploadInv
      <4>2. q # o \/ v # w
        BY <1>1, <4>1 DEF InParts
      <4> QED
        BY <2>2, <4>1, <4>2
    <3> QED
      BY <1>1, <2>4, <3>1, <3>2
  <2> QED
    BY <1>4, <1>5, <2>3, <2>4 DEF UploadInv
<1>8. CASE lost /\ Unanswered(o, w)
  <2>1. N.orphan
    BY <1>1, <1>8
  <2>2. UNCHANGED <<ops, worker>> \/ Counts(o, w, FALSE)
    BY <1>8, CountCounts DEF Unanswered
  <2>3. \A q \in OpIds : \A v \in Workers : 
          /\ InParts(q, v)' <=> InParts(q, v)
          /\ InParts(q, v) =>
               /\ q # o \/ v # w
               /\ worker'[q][v].pc = worker[q][v].pc /\ worker'[q][v].key = worker[q][v].key
               /\ worker'[q][v].upload = worker[q][v].upload
    <3>1. CASE UNCHANGED <<ops, worker>>
      BY <1>1, <3>1 DEF InParts
    <3>2. CASE Counts(o, w, FALSE)
      BY <1>1, <3>2 DEF InParts, Counts
    <3> QED
      BY <2>2, <3>1, <3>2
  <2>4. ASSUME NEW q \in OpIds, NEW v \in Workers, InParts(q, v)'
        PROVE  /\ OwnUpload(q, v)'
               /\ \A p \in OpIds : \A u \in Workers :
                    InParts(p, u)' /\ worker'[p][u].upload = worker'[q][v].upload => p = q /\ u = v
    BY <1>6, <2>3, <2>4 DEF UploadInv
  <2>5. ASSUME NEW u \in uploads', ~u.orphan
        PROVE  \E q \in OpIds : \E v \in Workers : InParts(q, v)' /\ worker'[q][v].upload = u.id
    <3>1. u \in uploads
      BY <1>1, <2>1, <2>5
    <3>2. PICK q \in OpIds, v \in Workers : InParts(q, v) /\ worker[q][v].upload = u.id
      BY <2>5, <3>1 DEF UploadInv
    <3> QED
      BY <2>3, <3>2
  <2> QED
    BY <1>4, <1>5, <2>4, <2>5 DEF UploadInv
<1> QED
  BY <1>0, <1>1, <1>7, <1>8, CreateBegins

LEMMA PartStep ==
    ASSUME Apart, ShapeInv, LimitInv, RequestInv, CountInv, DataInv, UploadInv,
           NEW o \in OpIds, NEW w \in Workers, UploadPartCopy(o, w)
    PROVE  UploadInv'
<1>. DEFINE U == Upload(o, w)
            x1 == store[Source(o, w)].data
            V == [U EXCEPT !.got = Append(U.got, x1)]
            p == IF Len(U.got) + 1 = Parts THEN "complete" ELSE "parts"
<1>1. /\ worker[o][w].pc = "parts" /\ ops[o].step = "pool" /\ Present(Source(o, w))
      /\ Len(U.got) < Parts /\ uploads' = (uploads \ {U}) \cup {V} /\ Goto(o, w, p)
      /\ UNCHANGED nextID
  BY DEF UploadPartCopy, At, Closed
<1>2. Moves(o, w, p)
  BY <1>1, GotoMoves DEF PCs, Requested
<1>3. /\ U \in uploads /\ U.id = worker[o][w].upload /\ U.got \in Seq(Data)
      /\ \A i \in 1 .. Len(U.got) : U.got[i] = worker[o][w].key
      /\ U \in [id: 1 .. nextID, got: Seq(Data), orphan: BOOLEAN]
  BY <1>1, UploadOfWorker DEF InParts, UploadInv
<1>4. x1 = worker[o][w].key /\ x1 \in Data
  BY <1>1, KeyOfWorker DEF Requested, Source, Data
<1>. HIDE DEF U, x1
<1>5. /\ V \in [id: 1 .. nextID, got: Seq(Data), orphan: BOOLEAN] /\ V.id = U.id
      /\ V.orphan = U.orphan /\ V.got = Append(U.got, x1)
       /\ Len(V.got) = Len(U.got) + 1 /\ Len(U.got) \in Nat
      /\ \A i \in 1 .. Len(V.got) : V.got[i] = worker[o][w].key
  <2>1. /\ Append(U.got, x1) \in Seq(Data) /\ Len(Append(U.got, x1)) = Len(U.got) + 1
        /\ Len(U.got) \in Nat
        /\ \A i \in 1 .. Len(U.got) + 1 :
             Append(U.got, x1)[i] = IF i = Len(U.got) + 1 THEN x1 ELSE U.got[i]
    BY <1>3, <1>4
  <2>2. /\ V \in [id: 1 .. nextID, got: Seq(Data), orphan: BOOLEAN] /\ V.id = U.id
        /\ V.orphan = U.orphan /\ V.got = Append(U.got, x1)
    BY <1>3, <2>1
  <2>3. \A i \in 1 .. Len(U.got) + 1 : i # Len(U.got) + 1 => i \in 1 .. Len(U.got)
    BY <2>1
  <2> QED
    BY <1>3, <1>4, <2>1, <2>2, <2>3
<1>. HIDE DEF V
<1>6. /\ (uploads \subseteq [id: 1 .. nextID, got: Seq(Data), orphan: BOOLEAN])'
      /\ (\A u \in uploads : Len(u.got) <= Parts)'
      /\ (\A u, v \in uploads : u.id = v.id => u = v)'
  <2>1. Len(V.got) <= Parts
    BY <1>1, <1>5, BulkConstants
  <2> QED
    BY <1>1, <1>3, <1>5, <2>1 DEF UploadInv
<1>7. \A q \in OpIds : \A v \in Workers :
        /\ InParts(q, v)' <=> InParts(q, v)
        /\ worker'[q][v].upload = worker[q][v].upload /\ worker'[q][v].key = worker[q][v].key
        /\ q # o \/ v # w => worker'[q][v].pc = worker[q][v].pc
  BY <1>1, <1>2 DEF Moves, InParts
<1>8. ASSUME NEW q \in OpIds, NEW v \in Workers, InParts(q, v)' PROVE OwnUpload(q, v)'
  <2>1. CASE q = o /\ v = w
    <3>1. worker'[o][w].pc = p
      BY <1>2 DEF Moves
    <3>2. V \in uploads' /\ V.id = worker'[o][w].upload
      BY <1>1, <1>3, <1>5, <1>7
    <3>3. /\ p = "parts" => Len(V.got) < Parts
          /\ p = "complete" => Len(V.got) = Parts
      BY <1>1, <1>5, BulkConstants
    <3>4. \A i \in 1 .. Len(V.got) : V.got[i] = worker'[o][w].key
      BY <1>5, <1>7
    <3> QED
      BY <2>1, <3>1, <3>2, <3>3, <3>4 DEF OwnUpload
  <2>2. CASE q # o \/ v # w
    <3>1. PICK u \in uploads :
            /\ u.id = worker[q][v].upload
            /\ worker[q][v].pc = "parts" => Len(u.got) < Parts
            /\ worker[q][v].pc = "complete" => Len(u.got) = Parts
            /\ \A i \in 1 .. Len(u.got) : u.got[i] = worker[q][v].key
      BY <1>7, <1>8 DEF UploadInv, OwnUpload
    <3>2. worker[q][v].upload # worker[o][w].upload
      BY <1>1, <1>7, <1>8, <2>2 DEF UploadInv, InParts
    <3>3. u \in uploads'
      BY <1>1, <1>3, <3>1, <3>2
    <3> QED
      BY <1>7, <2>2, <3>1, <3>3 DEF OwnUpload
  <2> QED
    BY <2>1, <2>2
<1>9. ASSUME NEW q \in OpIds, NEW v \in Workers, InParts(q, v)'
      PROVE  \A r \in OpIds : \A u \in Workers :
               InParts(r, u)' /\ worker'[r][u].upload = worker'[q][v].upload => r = q /\ u = v
  BY <1>7, <1>9 DEF UploadInv
<1>10. ASSUME NEW u \in uploads', ~u.orphan
       PROVE  \E q \in OpIds : \E v \in Workers : InParts(q, v)' /\ worker'[q][v].upload = u.id
  <2>1. \E t \in uploads : t.id = u.id /\ ~t.orphan
    BY <1>1, <1>3, <1>5, <1>10
  <2>2. PICK q \in OpIds, v \in Workers : InParts(q, v) /\ worker[q][v].upload = u.id
    BY <1>1, <1>10, <2>1 DEF UploadInv
  <2> QED
    BY <1>7, <2>2
<1> QED
  BY <1>6, <1>8, <1>9, <1>10 DEF UploadInv

\* An upload that is aborted or completed was its worker's.
LEMMA CloseStep ==
    ASSUME UploadInv, LimitInv, NEW o \in OpIds, NEW w \in Workers, InParts(o, w),
           uploads' = Closed(o, w) /\ UNCHANGED nextID,
           worker'[o][w].pc \notin {"parts", "complete", "abort"},
           \A q \in OpIds : \A v \in Workers : q # o \/ v # w =>
             /\ worker'[q][v].pc = worker[q][v].pc /\ worker'[q][v].key = worker[q][v].key
             /\ worker'[q][v].upload = worker[q][v].upload
    PROVE  UploadInv'
<1>. DEFINE U == Upload(o, w)
<1>1. /\ uploads' = uploads \ {U} /\ U \in uploads /\ U.id = worker[o][w].upload
  BY UploadOfWorker DEF Closed
<1>. HIDE DEF U
<1>2. /\ (uploads \subseteq [id: 1 .. nextID, got: Seq(Data), orphan: BOOLEAN])'
      /\ (\A u \in uploads : Len(u.got) <= Parts)'
      /\ (\A u, v \in uploads : u.id = v.id => u = v)'
  BY <1>1 DEF UploadInv
<1>3. \A q \in OpIds : \A v \in Workers : InParts(q, v)' => InParts(q, v) /\ (q # o \/ v # w)
  BY DEF InParts
<1>4. ASSUME NEW q \in OpIds, NEW v \in Workers, InParts(q, v)' PROVE OwnUpload(q, v)'
  <2>1. PICK u \in uploads :
          /\ u.id = worker[q][v].upload
          /\ worker[q][v].pc = "parts" => Len(u.got) < Parts
          /\ worker[q][v].pc = "complete" => Len(u.got) = Parts
          /\ \A i \in 1 .. Len(u.got) : u.got[i] = worker[q][v].key
    BY <1>3, <1>4 DEF UploadInv, OwnUpload
  <2>2. worker[q][v].upload # worker[o][w].upload
    BY <1>3, <1>4 DEF UploadInv
  <2>3. u \in uploads'
    BY <1>1, <2>1, <2>2
  <2> QED
    BY <1>3, <1>4, <2>1, <2>3 DEF OwnUpload
<1>5. ASSUME NEW q \in OpIds, NEW v \in Workers, InParts(q, v)'
      PROVE  \A r \in OpIds : \A u \in Workers :
               InParts(r, u)' /\ worker'[r][u].upload = worker'[q][v].upload => r = q /\ u = v
  BY <1>3, <1>5 DEF UploadInv
<1>6. ASSUME NEW u \in uploads', ~u.orphan
      PROVE  \E q \in OpIds : \E v \in Workers : InParts(q, v)' /\ worker'[q][v].upload = u.id
  <2>1. PICK q \in OpIds, v \in Workers : InParts(q, v) /\ worker[q][v].upload = u.id
    BY <1>1, <1>6 DEF UploadInv
  <2>2. q # o \/ v # w
    BY <1>1, <1>6, <2>1 DEF UploadInv
  <2> QED
    BY <2>1, <2>2 DEF InParts
<1> QED
  BY <1>2, <1>4, <1>5, <1>6 DEF UploadInv

\* An upload that its worker leaves open is an orphan.
LEMMA LeftStep ==
    ASSUME UploadInv, LimitInv, NEW o \in OpIds, NEW w \in Workers, InParts(o, w),
           uploads' = Orphaned(o, w) /\ UNCHANGED nextID,
           worker'[o][w].pc \notin {"parts", "complete", "abort"},
           \A q \in OpIds : \A v \in Workers : q # o \/ v # w =>
             /\ worker'[q][v].pc = worker[q][v].pc /\ worker'[q][v].key = worker[q][v].key
             /\ worker'[q][v].upload = worker[q][v].upload
    PROVE  UploadInv'
<1>. DEFINE U == Upload(o, w)
            V == [U EXCEPT !.orphan = TRUE]
<1>1. /\ uploads' = (uploads \ {U}) \cup {V} /\ U \in uploads /\ U.id = worker[o][w].upload
      /\ U \in [id: 1 .. nextID, got: Seq(Data), orphan: BOOLEAN] /\ Len(U.got) <= Parts
  BY UploadOfWorker DEF Orphaned, Closed, UploadInv
<1>. HIDE DEF U
<1>2. /\ V \in [id: 1 .. nextID, got: Seq(Data), orphan: BOOLEAN]
      /\ V.id = U.id /\ V.got = U.got /\ V.orphan
  BY <1>1
<1>. HIDE DEF V
<1>3. /\ (uploads \subseteq [id: 1 .. nextID, got: Seq(Data), orphan: BOOLEAN])'
      /\ (\A u \in uploads : Len(u.got) <= Parts)'
      /\ (\A u, v \in uploads : u.id = v.id => u = v)'
  BY <1>1, <1>2 DEF UploadInv
<1>4. \A q \in OpIds : \A v \in Workers : InParts(q, v)' => InParts(q, v) /\ (q # o \/ v # w)
  BY DEF InParts
<1>5. ASSUME NEW q \in OpIds, NEW v \in Workers, InParts(q, v)' PROVE OwnUpload(q, v)'
  <2>1. PICK u \in uploads :
          /\ u.id = worker[q][v].upload
          /\ worker[q][v].pc = "parts" => Len(u.got) < Parts
          /\ worker[q][v].pc = "complete" => Len(u.got) = Parts
          /\ \A i \in 1 .. Len(u.got) : u.got[i] = worker[q][v].key
    BY <1>4, <1>5 DEF UploadInv, OwnUpload
  <2>2. worker[q][v].upload # worker[o][w].upload
    BY <1>4, <1>5 DEF UploadInv
  <2>3. u \in uploads'
    BY <1>1, <2>1, <2>2
  <2> QED
    BY <1>4, <1>5, <2>1, <2>3 DEF OwnUpload
<1>6. ASSUME NEW q \in OpIds, NEW v \in Workers, InParts(q, v)'
      PROVE  \A r \in OpIds : \A u \in Workers :
               InParts(r, u)' /\ worker'[r][u].upload = worker'[q][v].upload => r = q /\ u = v
  BY <1>4, <1>6 DEF UploadInv
<1>7. ASSUME NEW u \in uploads', ~u.orphan
      PROVE  \E q \in OpIds : \E v \in Workers : InParts(q, v)' /\ worker'[q][v].upload = u.id
  <2>0. u \in uploads /\ u.id # worker[o][w].upload
    BY <1>1, <1>2, <1>7 DEF UploadInv
  <2>1. PICK q \in OpIds, v \in Workers : InParts(q, v) /\ worker[q][v].upload = u.id
    BY <1>7, <2>0 DEF UploadInv
  <2>2. q # o \/ v # w
    BY <2>0, <2>1
  <2> QED
    BY <2>1, <2>2 DEF InParts
<1> QED
  BY <1>3, <1>5, <1>6, <1>7 DEF UploadInv

LEMMA UploadStep ==
    ASSUME Apart, ShapeInv, LimitInv, RequestInv, CountInv, DataInv, UploadInv, [Next]_vars
    PROVE  UploadInv'
<1>0. ASSUME NEW o \in OpIds, NEW w \in Workers
      PROVE  /\ \A p \in PCs : Goto(o, w, p) => Moves(o, w, p)
             /\ \A ok \in BOOLEAN : Count(o, w, ok) => Counts(o, w, ok)
  BY GotoMoves, CountCounts
<1>1. CASE UNCHANGED <<uploads, nextID, worker>>
  BY <1>1, UploadsStay DEF InParts
<1>2. ASSUME NEW o \in OpIds, NEW w \in Workers,
             UNCHANGED <<uploads, nextID>>, ~InParts(o, w),
             \/ \E p \in PCs \ {"parts", "complete", "abort"} : Goto(o, w, p)
             \/ \E ok \in BOOLEAN : Count(o, w, ok)
      PROVE  UploadInv'
  <2>1. CASE \E p \in PCs \ {"parts", "complete", "abort"} : Moves(o, w, p)
    BY <1>2, <2>1, UploadsStay DEF InParts, Moves
  <2>2. CASE \E ok \in BOOLEAN : Counts(o, w, ok)
    BY <1>2, <2>2, UploadsStay DEF InParts, Counts
  <2> QED
    BY <1>0, <1>2, <2>1, <2>2
<1>3. ASSUME NEW o \in OpIds, NEW w \in Workers, WorkerStep(o, w) PROVE UploadInv'
  <2>1. CASE CheckCancelled(o, w)
    BY <1>2, <2>1 DEF CheckCancelled, At, InParts, PCs
  <2>2. CASE Receive(o, w)
    <3>1. Takes(o, w)
      BY <2>2, ReceiveTakes DEF CountInv
    <3> QED
      BY <2>2, <3>1, UploadsStay DEF Receive, Takes, InParts
  <2>3. CASE NoMoreJobs(o, w)
    BY <1>2, <2>3 DEF NoMoreJobs, At, InParts, PCs
  <2>4. CASE HeadObject(o, w)
    BY <1>2, <2>4 DEF HeadObject, At, InParts, PCs, Requested
  <2>5. CASE CopyObject(o, w)
    <3>0. UNCHANGED <<uploads, nextID>> /\ ~InParts(o, w)
      BY <2>5 DEF CopyObject, At, InParts, Unanswered
    <3>1. Goto(o, w, "delete") \/ (\E ok \in BOOLEAN : Count(o, w, ok)) \/ UNCHANGED worker
      BY <2>5 DEF CopyObject, Copied, Unanswered
    <3> QED
      BY <1>1, <1>2, <3>0, <3>1 DEF PCs, Requested
  <2>6. CASE CreateUpload(o, w)
    BY <2>6, CreateStep
  <2>7. CASE UploadPartCopy(o, w)
    BY <2>7, PartStep
  <2>8. CASE Abort(o, w)
    <3>1. InParts(o, w) /\ Counts(o, w, FALSE) /\ UNCHANGED nextID
      BY <1>0, <2>8 DEF Abort, At, InParts
    <3>2. uploads' = Closed(o, w) \/ uploads' = Orphaned(o, w)
      BY <2>8 DEF Abort
    <3> QED
      BY <3>1, <3>2, CloseStep, LeftStep DEF Counts
  <2>9. CASE CompleteUpload(o, w)
    <3>1. InParts(o, w) /\ UNCHANGED nextID /\ "delete" \in PCs
      BY <2>9 DEF CompleteUpload, At, InParts, PCs, Requested
    <3>2. Moves(o, w, "delete") \/ \E ok \in BOOLEAN : Counts(o, w, ok)
      BY <1>0, <2>9, <3>1 DEF CompleteUpload, Copied
    <3>3. /\ worker'[o][w].pc \in {"delete", "check"}
          /\ \A q \in OpIds : \A v \in Workers : q # o \/ v # w =>
               /\ worker'[q][v].pc = worker[q][v].pc /\ worker'[q][v].key = worker[q][v].key
               /\ worker'[q][v].upload = worker[q][v].upload
      BY <3>2 DEF Moves, Counts
    <3>4. uploads' = Closed(o, w) \/ uploads' = Orphaned(o, w)
      BY <2>9 DEF CompleteUpload
    <3> QED
      BY <3>1, <3>3, <3>4, CloseStep, LeftStep
  <2>10. CASE DeleteSource(o, w)
    <3>0. UNCHANGED <<uploads, nextID>> /\ ~InParts(o, w)
      BY <2>10 DEF DeleteSource, At, InParts, Unanswered
    <3>1. (\E ok \in BOOLEAN : Count(o, w, ok)) \/ UNCHANGED worker
      BY <2>10 DEF DeleteSource, Unanswered
    <3> QED
      BY <1>1, <1>2, <3>0, <3>1
  <2>11. CASE RequestFails(o, w)
    <3>1. CASE worker[o][w].pc = "parts"
      <4>1. Moves(o, w, "abort") /\ UNCHANGED <<uploads, nextID>>
        BY <1>0, <2>11, <3>1 DEF RequestFails, PCs, Requested
      <4> QED
        BY <3>1, <4>1, UploadsStay DEF Moves, InParts
    <3>2. CASE worker[o][w].pc # "parts"
      BY <1>2, <2>11, <3>2 DEF RequestFails, InParts
    <3> QED
      BY <3>1, <3>2
  <2> QED
    BY <1>3, <2>1, <2>2, <2>3, <2>4, <2>5, <2>6, <2>7, <2>8, <2>9, <2>10, <2>11 DEF WorkerStep
<1>4. ASSUME NEW o \in OpIds, OpStep(o) \/ Tick(o) PROVE UploadInv'
  BY <1>1, <1>4
  DEF OpStep, Resolve, CloseJobs, WorkersDone, FinishBulkOp, NextBatch, DeleteBatch, Tick
<1>5. ASSUME NEW r \in Requests, Register(r) PROVE UploadInv'
  BY <1>1, <1>5 DEF Register
<1>6. ASSUME NEW c \in Callers,
             \/ CancelReturns(c) \/ RenameDelete(c)
             \/ \E o \in OpIds : Cancel(c, o)
             \/ \E r \in Renames : RenameCopy(c, r[1], r[2])
             \/ \E d \in Folders : CreateFolder(c, d)
             \/ \E l \in Locations : UpdateMetadata(c, l)
      PROVE  UploadInv'
  BY <1>1, <1>6 DEF CancelReturns, RenameDelete, Cancel, RenameCopy, CreateFolder, UpdateMetadata
<1>7. CASE UNCHANGED vars
  BY <1>1, <1>7 DEF vars
<1> QED
  BY <1>3, <1>4, <1>5, <1>6, <1>7 DEF Next, CopyObjects, MoveObjects, DeleteObjects

-----------------------------------------------------------------------------
(* Calls and counters *)

LEMMA CallStep ==
    ASSUME ShapeInv, RequestInv, CountInv, nextID \in Nat, [Next]_vars
    PROVE  CallInv'
<1>. DEFINE Call == [step: {"idle", "wait", "rename"}, op: OpIds \cup {0},
                     key: Locations \cup {NoLocation}]
<1>0. call \in [Callers -> Call] /\ \A c \in Callers : call[c].step = "wait" => call[c].op \in OpIds
  BY DEF ShapeInv, CallInv
<1>1. ASSUME NEW c \in Callers, NEW r \in Call, call' = [call EXCEPT ![c] = r],
             r.step = "wait" => r.op \in OpIds
      PROVE  CallInv'
  <2>1. call' \in [Callers -> Call]
    BY <1>0, <1>1
  <2>2. \A d \in Callers : call'[d] = IF d = c THEN r ELSE call[d]
    BY <1>0, <1>1
  <2>3. \A d \in Callers : call'[d].step = "wait" => call'[d].op \in OpIds
    BY <1>0, <1>1, <2>2
  <2> QED
    BY <2>1, <2>3 DEF CallInv
<1>2. Idle \in Call /\ Idle.step # "wait"
  BY DEF Idle
<1>3. CASE UNCHANGED call
  BY <1>3 DEF ShapeInv, CallInv
<1>4. ASSUME NEW o \in OpIds, NEW c \in Callers, Cancel(c, o) PROVE CallInv'
  <2>. DEFINE r == [step |-> "wait", op |-> o, key |-> NoLocation]
  <2>1. r \in Call /\ r.op \in OpIds
    OBVIOUS
  <2>2. call' = [call EXCEPT ![c] = r]
    BY <1>4 DEF Cancel
  <2>. HIDE DEF r, Call
  <2> QED
    BY <1>1, <2>1, <2>2
<1>5. ASSUME NEW c \in Callers, CancelReturns(c) \/ RenameDelete(c) PROVE CallInv'
  <2>1. call' = [call EXCEPT ![c] = Idle]
    BY <1>5 DEF CancelReturns, RenameDelete
  <2>. HIDE DEF Call
  <2> QED
    BY <1>1, <1>2, <2>1
<1>6. ASSUME NEW c \in Callers, NEW r \in Renames, RenameCopy(c, r[1], r[2]) PROVE CallInv'
  <2>. DEFINE R == [step |-> "rename", op |-> 0, key |-> r[1]]
  <2>1. r[1] \in Locations
    BY BulkConstants
  <2>2. R \in Call /\ R.step # "wait"
    BY <2>1
  <2>3. call' = [call EXCEPT ![c] = R] \/ UNCHANGED call
    BY <1>6 DEF RenameCopy
  <2>. HIDE DEF R, Call
  <2> QED
    BY <1>1, <1>3, <2>2, <2>3
<1>7. ASSUME NEW c \in Callers,
             (\E d \in Folders : CreateFolder(c, d)) \/ (\E l \in Locations : UpdateMetadata(c, l))
      PROVE  CallInv'
  BY <1>3, <1>7 DEF CreateFolder, UpdateMetadata
<1>8. ASSUME NEW o \in OpIds, OpStep(o) \/ Tick(o) PROVE CallInv'
  BY <1>3, <1>8, OpEffects
<1>9. ASSUME NEW o \in OpIds, NEW w \in Workers, WorkerStep(o, w) PROVE CallInv'
  BY <1>3, <1>9, WorkerEffects
<1>10. ASSUME NEW r \in Requests, Register(r) PROVE CallInv'
  BY <1>3, <1>10 DEF Register
<1>11. CASE UNCHANGED vars
  BY <1>3, <1>11 DEF vars
<1> QED
  BY <1>4, <1>5, <1>6, <1>7, <1>8, <1>9, <1>10, <1>11
  DEF Next, CopyObjects, MoveObjects, DeleteObjects

LEMMA LimitStep ==
    ASSUME ShapeInv, LimitInv, RequestInv, CountInv, [Next]_vars
    PROVE  LimitInv'
<1>0. nextID \in Nat /\ calls \in 0 .. MaxCalls /\ faults \in 0 .. MaxFaults
      /\ MaxCalls \in Nat /\ MaxFaults \in Nat
  BY BulkConstants DEF LimitInv
<1>1. nextID' \in {nextID, nextID + 1}
  <2>1. ASSUME NEW o \in OpIds, NEW w \in Workers, WorkerStep(o, w)
        PROVE  nextID' \in {nextID, nextID + 1}
    BY <2>1 DEF WorkerStep, CheckCancelled, Receive, NoMoreJobs, HeadObject, CopyObject,
       CreateUpload, UploadPartCopy, Abort, CompleteUpload, DeleteSource, RequestFails
  <2>2. ASSUME NEW o \in OpIds, OpStep(o) \/ Tick(o) PROVE nextID' \in {nextID, nextID + 1}
    BY <2>2 DEF OpStep, Resolve, CloseJobs, WorkersDone, FinishBulkOp, NextBatch, DeleteBatch,
       Tick
  <2> QED
    BY <2>1, <2>2 DEF Next, CopyObjects, MoveObjects, DeleteObjects, Register, Cancel,
       CancelReturns, RenameDelete, RenameCopy, CreateFolder, UpdateMetadata, vars
<1>2. UNCHANGED faults \/ Fault
  <2>1. ASSUME NEW o \in OpIds, NEW w \in Workers, WorkerStep(o, w) PROVE UNCHANGED faults \/ Fault
    BY <2>1 DEF WorkerStep, CheckCancelled, Receive, NoMoreJobs, HeadObject, CopyObject,
       CreateUpload, UploadPartCopy, Abort, CompleteUpload, DeleteSource, RequestFails, Unanswered
  <2>2. ASSUME NEW o \in OpIds, OpStep(o) \/ Tick(o) PROVE UNCHANGED faults \/ Fault
    BY <2>2 DEF OpStep, Resolve, CloseJobs, WorkersDone, FinishBulkOp, NextBatch, DeleteBatch,
       Tick
  <2> QED
    BY <2>1, <2>2 DEF Next, CopyObjects, MoveObjects, DeleteObjects, Register, Cancel,
       CancelReturns, RenameDelete, RenameCopy, CreateFolder, UpdateMetadata, vars
<1>3. UNCHANGED calls \/ (calls < MaxCalls /\ calls' = calls + 1)
  <2>1. ASSUME NEW o \in OpIds, NEW w \in Workers, WorkerStep(o, w)
        PROVE  UNCHANGED calls
    BY <1>0, <2>1, WorkerEffects
  <2>2. ASSUME NEW o \in OpIds, OpStep(o) \/ Tick(o) PROVE UNCHANGED calls
    BY <2>2, OpEffects
  <2> QED
    BY <2>1, <2>2 DEF Next, CopyObjects, MoveObjects, DeleteObjects, Register, Cancel,
       CancelReturns, RenameDelete, RenameCopy, CreateFolder, UpdateMetadata, vars, Begin
<1>4. faults' \in 0 .. MaxFaults
  BY <1>0, <1>2 DEF Fault
<1>5. calls' \in 0 .. MaxCalls
  BY <1>0, <1>3
<1> QED
  BY <1>0, <1>1, <1>4, <1>5 DEF LimitInv

-----------------------------------------------------------------------------
(* What is stored *)

\* What is at l is put at m, one of its targets.
Puts(l, m, meta) ==
    /\ l \in Stored /\ m \in Targets(l)
    /\ meta \in {"own", "none", "edited"} /\ (l \notin Large => meta # "none")
    /\ store' = [store EXCEPT ![m] = [data |-> l, meta |-> meta]]

\* The source l is deleted: a target holds its object.
Removes(l) ==
    /\ l \in Locations /\ \E m \in Targets(l) : Present(m)
    /\ store' = [store EXCEPT ![l] = NoObject]

\* Some of what a delete names is deleted.
Drops(S) ==
    /\ S \subseteq Doomed
    /\ \A l \in S : l[2] # Marker /\ \A k \in Locations : l \notin Targets(k)
    /\ store' = [l \in Locations |-> IF l \in S THEN NoObject ELSE store[l]]

StoreEffect ==
    \/ UNCHANGED store
    \/ \E l \in Locations, m \in Locations, meta \in {"own", "none", "edited"} : Puts(l, m, meta)
    \/ \E l \in Locations : Removes(l)
    \/ \E S \in SUBSET Locations : Drops(S)
    \/ \E d \in Folders :
          store' = [store EXCEPT ![<<d, Marker>>] = [data |-> Empty, meta |-> "own"]]
    \/ \E l \in Locations : Present(l) /\ store' = [store EXCEPT ![l].meta = "edited"]

LEMMA ObjectsAre ==
    ASSUME NEW x1 \in Object
    PROVE  x1 = [data |-> x1.data, meta |-> x1.meta] /\ x1.meta \in {"own", "none", "edited"}
BY DEF Object

LEMMA CopyPuts ==
    ASSUME Apart, DataInv, NEW l \in Locations, NEW m \in Targets(l), CopyAllowed(l, m),
           store' = [store EXCEPT ![m] = store[l]]
    PROVE  Puts(l, m, store[l].meta) /\ store[l].meta \in {"own", "none", "edited"}
<1>1. Present(l) /\ l \in Stored
  BY DEF CopyAllowed, DataInv
<1>2. store[l].data = l /\ store[l].meta # "none" /\ store[l] \in Object
  BY <1>1 DEF DataInv, Present
<1>3. store[l] = [data |-> l, meta |-> store[l].meta] /\ store[l].meta \in {"own", "none", "edited"}
  BY <1>2, ObjectsAre
<1> QED
  BY <1>1, <1>2, <1>3 DEF Puts

LEMMA WorkerStores ==
    ASSUME Apart, ShapeInv, LimitInv, RequestInv, CountInv, UploadInv, DataInv, KeptInv,
           NEW o \in OpIds, NEW w \in Workers, WorkerStep(o, w)
    PROVE  StoreEffect
<1>1. CASE CopyObject(o, w)
  <2>1. /\ Source(o, w) \in Locations /\ Dest(o, w) \in Targets(Source(o, w))
        /\ CopyAllowed(Source(o, w), Dest(o, w))
        /\ store' = [store EXCEPT ![Dest(o, w)] = store[Source(o, w)]]
    BY <1>1, KeyOfWorker DEF CopyObject, At, Requested
  <2>2. Dest(o, w) \in Locations
    BY <2>1 DEF Targets
  <2> QED
    BY <2>1, <2>2, CopyPuts DEF StoreEffect
<1>2. CASE CompleteUpload(o, w)
  <2>1. /\ Source(o, w) \in Locations /\ Dest(o, w) \in Targets(Source(o, w))
        /\ worker[o][w].pc = "complete"
    BY <1>2, KeyOfWorker DEF CompleteUpload, At, Requested
  <2>2. /\ Assembled(Upload(o, w).got) = Source(o, w) /\ Source(o, w) \in Large
        /\ Source(o, w) \in Stored
    BY <2>1, PartsAssemble, BulkConstants DEF KeptInv, InParts, Source
  <2>3. \/ store' = [store EXCEPT ![Dest(o, w)] = [data |-> Source(o, w), meta |-> "none"]]
        \/ UNCHANGED store
    BY <1>2, <2>2 DEF CompleteUpload
  <2>4. Dest(o, w) \in Locations
    BY <2>1 DEF Targets
  <2> QED
    BY <2>1, <2>2, <2>3, <2>4 DEF StoreEffect, Puts
<1>3. CASE DeleteSource(o, w)
  <2>1. /\ Source(o, w) \in Locations /\ Dest(o, w) \in Targets(Source(o, w))
        /\ worker[o][w].pc = "delete"
        /\ store' = [store EXCEPT ![Source(o, w)] = NoObject]
    BY <1>3, KeyOfWorker DEF DeleteSource, At, Requested
  <2>2. Present(Dest(o, w))
    BY <2>1 DEF KeptInv
  <2> QED
    BY <2>1, <2>2 DEF StoreEffect, Removes
<1>4. CASE ~CopyObject(o, w) /\ ~CompleteUpload(o, w) /\ ~DeleteSource(o, w)
  BY <1>4 DEF WorkerStep, CheckCancelled, Receive, NoMoreJobs, HeadObject, CreateUpload,
     UploadPartCopy, Abort, RequestFails, StoreEffect
<1> QED
  BY <1>1, <1>2, <1>3, <1>4

LEMMA BatchStores ==
    ASSUME Apart, ShapeInv, RequestInv, CountInv, NEW o \in OpIds, NEW deleted \in SUBSET Batch(o),
           ops[o].step = "request",
           store' = [l \in Locations |-> IF \E i \in deleted : ops[o].keys[i] = l
                                         THEN NoObject ELSE store[l]]
    PROVE  StoreEffect
<1>. DEFINE S == {l \in Locations : \E i \in deleted : ops[o].keys[i] = l}
<1>1. ops[o].type = "delete" /\ ops[o].feed <= Total(o) /\ "request" # "none"
  BY DEF RequestInv
<1>2. deleted \subseteq 1 .. Total(o)
  <2>1. Batch(o) \subseteq ops[o].feed .. Total(o)
    BY <1>1, BatchCounts
  <2> QED
    BY <2>1 DEF CountInv
<1>3. /\ \A i \in 1 .. Total(o) : ops[o].keys[i] \in Locations
      /\ \A i \in 1 .. Total(o) :
           ops[o].keys[i][2] # Marker /\ \A l \in Locations : ops[o].keys[i] \notin Targets(l)
  BY <1>1, OpKeys
<1>4. S \subseteq Doomed
  BY <1>1, <1>2 DEF Doomed
<1>5. \A l \in S : l[2] # Marker /\ \A k \in Locations : l \notin Targets(k)
  BY <1>2, <1>3
<1>6. store' = [l \in Locations |-> IF l \in S THEN NoObject ELSE store[l]]
  OBVIOUS
<1>7. S \in SUBSET Locations
  OBVIOUS
<1>. HIDE DEF S
<1> QED
  BY <1>4, <1>5, <1>6, <1>7 DEF StoreEffect, Drops

LEMMA StoreEffects ==
    ASSUME Apart, ShapeInv, LimitInv, RequestInv, CountInv, UploadInv, DataInv, KeptInv,
           [Next]_vars
    PROVE  StoreEffect
<1>1. ASSUME NEW o \in OpIds, NEW w \in Workers, WorkerStep(o, w) PROVE StoreEffect
  BY <1>1, WorkerStores
<1>2. ASSUME NEW o \in OpIds, OpStep(o) \/ Tick(o) PROVE StoreEffect
  <2>1. CASE DeleteBatch(o)
    BY <2>1, BatchStores DEF DeleteBatch
  <2>2. CASE ~DeleteBatch(o)
    BY <1>2, <2>2
    DEF OpStep, Resolve, CloseJobs, WorkersDone, FinishBulkOp, NextBatch, Tick, StoreEffect
  <2> QED
    BY <2>1, <2>2
<1>3. ASSUME NEW c \in Callers, NEW r \in Renames, RenameCopy(c, r[1], r[2]) PROVE StoreEffect
  <2>1. r[1] \in Locations /\ r[2] \in Locations /\ r = <<r[1], r[2]>>
    BY BulkConstants
  <2>2. r[2] \in Targets(r[1])
    BY <2>1 DEF Targets
  <2> QED
    BY <1>3, <2>1, <2>2, CopyPuts DEF RenameCopy, StoreEffect
<1>4. ASSUME NEW c \in Callers, RenameDelete(c) PROVE StoreEffect
  BY <1>4 DEF RenameDelete, KeptInv, StoreEffect, Removes
<1>5. ASSUME NEW c \in Callers, NEW d \in Folders, CreateFolder(c, d) PROVE StoreEffect
  BY <1>5 DEF CreateFolder, StoreEffect
<1>6. ASSUME NEW c \in Callers, NEW l \in Locations, UpdateMetadata(c, l) PROVE StoreEffect
  BY <1>6 DEF UpdateMetadata, StoreEffect
<1>7. ASSUME NEW c \in Callers, CancelReturns(c) \/ \E o \in OpIds : Cancel(c, o) PROVE StoreEffect
  BY <1>7 DEF CancelReturns, Cancel, StoreEffect
<1>8. ASSUME NEW r \in Requests, Register(r) PROVE StoreEffect
  BY <1>8 DEF Register, StoreEffect
<1>9. CASE UNCHANGED vars
  BY <1>9 DEF vars, StoreEffect
<1> QED
  BY <1>1, <1>2, <1>3, <1>4, <1>5, <1>6, <1>7, <1>8, <1>9
  DEF Next, CopyObjects, MoveObjects, DeleteObjects

LEMMA MarkersAre ==
    ASSUME NEW d \in Folders
    PROVE  <<d, Marker>> \in Locations /\ <<d, Marker>>[2] = Marker
BY DEF Locations

LEMMA DataStep ==
    ASSUME Apart, DataInv, StoreEffect
    PROVE  DataInv'
<1>0. /\ store \in [Locations -> Object \cup {NoObject}]
      /\ Stored \subseteq Locations /\ Stored \subseteq Data
      /\ Empty \in Data /\ NoObject \notin Object
      /\ \A l \in Locations : store[l] \in Object \cup {NoObject}
  BY BulkConstants DEF DataInv, Data
<1>1. CASE UNCHANGED store
  BY <1>1 DEF DataInv, Present
<1>2. ASSUME NEW l \in Locations, NEW m \in Locations, NEW meta \in {"own", "none", "edited"},
             Puts(l, m, meta)
      PROVE  DataInv'
  <2>. DEFINE X1 == [data |-> l, meta |-> meta]
  <2>1. X1 \in Object /\ X1.data = l /\ X1.meta = meta /\ X1 # NoObject
    BY <1>0, <1>2 DEF Object, Puts
  <2>2. store' = [store EXCEPT ![m] = X1] /\ (l \notin Large => meta # "none") /\ m \in Targets(l)
    BY <1>2 DEF Puts
  <2>. HIDE DEF X1
  <2>3. /\ m \notin Stored /\ Targets(m) = {} /\ \A k \in Locations : m \in Targets(k) => k = l
    BY <2>2, TargetsApart
  <2>4. \A k \in Locations : store'[k] = IF k = m THEN X1 ELSE store[k]
    BY <1>0, <2>2
  <2>5. store' \in [Locations -> Object \cup {NoObject}]
    BY <1>0, <2>1, <2>2
  <2>6. \A k \in Stored : Present(k)' => store'[k].data = k /\ store'[k].meta # "none"
    BY <1>0, <2>3, <2>4 DEF DataInv, Present
  <2>7. ASSUME NEW k \in Locations
        PROVE  /\ k \notin Stored /\ Targets(k) # {} => ~Present(k)'
               /\ \A n \in Targets(k) : Present(n)' =>
                    store'[n].data = k /\ (k \notin Large => store'[n].meta # "none")
    <3>1. k \notin Stored /\ Targets(k) # {} => ~Present(k)'
      BY <2>3, <2>4 DEF DataInv, Present
    <3>2. ASSUME NEW n \in Targets(k), Present(n)'
          PROVE  store'[n].data = k /\ (k \notin Large => store'[n].meta # "none")
      <4>1. n \in Locations
        BY DEF Targets
      <4>2. CASE n = m
        BY <2>1, <2>2, <2>3, <2>4, <4>2
      <4>3. CASE n # m
        BY <2>4, <3>2, <4>1, <4>3 DEF DataInv, Present
      <4> QED
        BY <4>2, <4>3
    <3> QED
      BY <3>1, <3>2
  <2> QED
    BY <2>5, <2>6, <2>7 DEF DataInv
<1>3. ASSUME store' \in [Locations -> Object \cup {NoObject}],
             \A k \in Locations : store'[k] = store[k] \/ store'[k] = NoObject
      PROVE  DataInv'
  <2>1. \A k \in Stored : Present(k)' => store'[k].data = k /\ store'[k].meta # "none"
    BY <1>0, <1>3 DEF DataInv, Present
  <2>2. \A k \in Locations : k \notin Stored /\ Targets(k) # {} => ~Present(k)'
    BY <1>0, <1>3 DEF DataInv, Present
  <2>3. ASSUME NEW k \in Locations, NEW n \in Targets(k), Present(n)'
        PROVE  store'[n].data = k /\ (k \notin Large => store'[n].meta # "none")
    <3>1. n \in Locations
      BY DEF Targets
    <3> QED
      BY <1>3, <2>3, <3>1 DEF DataInv, Present
  <2> QED
    BY <1>3, <2>1, <2>2, <2>3 DEF DataInv
<1>4. ASSUME NEW l \in Locations, Removes(l) PROVE DataInv'
  <2>1. store' = [store EXCEPT ![l] = NoObject]
    BY <1>4 DEF Removes
  <2> QED
    BY <1>0, <1>3, <2>1
<1>5. ASSUME NEW S \in SUBSET Locations, Drops(S) PROVE DataInv'
  <2>1. store' = [l \in Locations |-> IF l \in S THEN NoObject ELSE store[l]]
    BY <1>5 DEF Drops
  <2> QED
    BY <1>0, <1>3, <2>1
<1>6. ASSUME NEW a \in Locations, NEW b \in Object, store' = [store EXCEPT ![a] = b],
             a \in Stored => b.data = a /\ b.meta # "none",
             \A k \in Locations : a \in Targets(k) =>
               b.data = k /\ (k \notin Large => b.meta # "none"),
             a \notin Stored => Targets(a) = {}
      PROVE  DataInv'
  <2>1. store' \in [Locations -> Object \cup {NoObject}]
    BY <1>0, <1>6
  <2>2. \A k \in Locations : store'[k] = IF k = a THEN b ELSE store[k]
    BY <1>0, <1>6
  <2>3. \A k \in Stored : Present(k)' => store'[k].data = k /\ store'[k].meta # "none"
    BY <1>0, <1>6, <2>2 DEF DataInv, Present
  <2>4. \A k \in Locations : k \notin Stored /\ Targets(k) # {} => ~Present(k)'
    BY <1>0, <1>6, <2>2 DEF DataInv, Present
  <2>5. ASSUME NEW k \in Locations, NEW n \in Targets(k), Present(n)'
        PROVE  store'[n].data = k /\ (k \notin Large => store'[n].meta # "none")
    <3>1. n \in Locations
      BY DEF Targets
    <3>2. CASE n = a
      BY <1>6, <2>2, <3>2
    <3>3. CASE n # a
      BY <2>2, <2>5, <3>1, <3>3 DEF DataInv, Present
    <3> QED
      BY <3>2, <3>3
  <2> QED
    BY <2>1, <2>3, <2>4, <2>5 DEF DataInv
<1>7. ASSUME NEW d \in Folders,
             store' = [store EXCEPT ![<<d, Marker>>] = [data |-> Empty, meta |-> "own"]]
      PROVE  DataInv'
  <2>. DEFINE a == <<d, Marker>>
              b == [data |-> Empty, meta |-> "own"]
  <2>1. a \in Locations /\ a[2] = Marker
    BY MarkersAre
  <2>2. b \in Object
    BY <1>0 DEF Object
  <2>3. store' = [store EXCEPT ![a] = b]
    BY <1>7
  <2>. HIDE DEF a, b
  <2>4. a \notin Stored /\ \A k \in Locations : a \notin Targets(k)
    BY <2>1, TargetsApart DEF Apart
  <2>5. Targets(a) = {}
    BY <2>1, TargetsApart
  <2> QED
    BY <1>6, <2>1, <2>2, <2>3, <2>4, <2>5
<1>8. ASSUME NEW l \in Locations, Present(l), store' = [store EXCEPT ![l].meta = "edited"]
      PROVE  DataInv'
  <2>. DEFINE b == [store[l] EXCEPT !.meta = "edited"]
  <2>1. store[l] \in Object
    BY <1>0, <1>8 DEF Present
  <2>2. b \in Object /\ b.data = store[l].data /\ b.meta = "edited"
    BY <2>1 DEF Object
  <2>3. store' = [store EXCEPT ![l] = b]
    BY <1>0, <1>8
  <2>. HIDE DEF b
  <2>4. l \in Stored => b.data = l
    BY <1>8, <2>2 DEF DataInv
  <2>5. \A k \in Locations : l \in Targets(k) => b.data = k
    BY <1>8, <2>2 DEF DataInv
  <2>6. l \notin Stored => Targets(l) = {}
    BY <1>8 DEF DataInv
  <2> QED
    BY <1>6, <2>2, <2>3, <2>4, <2>5, <2>6
<1> QED
  BY <1>1, <1>2, <1>4, <1>5, <1>7, <1>8 DEF StoreEffect

\* An object that has reached a target stays there, and a source that is gone stays gone.
LEMMA TargetsStay ==
    ASSUME Apart, DataInv, StoreEffect, NEW l \in Locations, NEW m \in Targets(l), Present(m)
    PROVE  Present(m)'
<1>0. /\ store \in [Locations -> Object \cup {NoObject}] /\ m \in Locations
      /\ NoObject \notin Object /\ store[m] \in Object
  BY BulkConstants DEF DataInv, Targets, Present
<1>1. ASSUME NEW k \in Locations, NEW n \in Locations, NEW meta \in {"own", "none", "edited"},
             Puts(k, n, meta)
      PROVE  Present(m)'
  <2>1. k \in Data
    BY <1>1 DEF Puts, Data
  <2>2. [data |-> k, meta |-> meta] \in Object
    BY <2>1 DEF Object
  <2> QED
    BY <1>0, <1>1, <2>2 DEF Puts, Present
<1>2. ASSUME NEW k \in Locations, Removes(k) PROVE Present(m)'
  <2>1. m # k
    BY <1>2, TargetsApart DEF Removes
  <2> QED
    BY <1>0, <1>2, <2>1 DEF Removes, Present
<1>3. ASSUME NEW S \in SUBSET Locations, Drops(S) PROVE Present(m)'
  <2>1. m \notin S
    BY <1>3 DEF Drops
  <2> QED
    BY <1>0, <1>3, <2>1 DEF Drops, Present
<1>4. ASSUME NEW d \in Folders,
             store' = [store EXCEPT ![<<d, Marker>>] = [data |-> Empty, meta |-> "own"]]
      PROVE  Present(m)'
  <2>1. m # <<d, Marker>>
    BY MarkersAre, TargetsApart
  <2> QED
    BY <1>0, <1>4, <2>1 DEF Present
<1>5. ASSUME NEW k \in Locations, Present(k), store' = [store EXCEPT ![k].meta = "edited"]
      PROVE  Present(m)'
  <2>1. CASE m = k
    <3>1. [store[m] EXCEPT !.meta = "edited"] \in Object
      BY <1>0 DEF Object
    <3> QED
      BY <1>0, <1>5, <2>1, <3>1 DEF Present
  <2>2. CASE m # k
    BY <1>0, <1>5, <2>2 DEF Present
  <2> QED
    BY <2>1, <2>2
<1> QED
  BY <1>1, <1>2, <1>3, <1>4, <1>5 DEF StoreEffect, Present

LEMMA GoneStays ==
    ASSUME Apart, DataInv, StoreEffect, NEW l \in Locations, ~Present(l),
           l[2] # Marker, \A k \in Locations : l \notin Targets(k)
    PROVE  ~Present(l)'
<1>0. store \in [Locations -> Object \cup {NoObject}]
  BY DEF DataInv
<1>1. ASSUME NEW k \in Locations, NEW n \in Locations, NEW meta \in {"own", "none", "edited"},
             Puts(k, n, meta)
      PROVE  ~Present(l)'
  <2>1. n # l
    BY <1>1 DEF Puts
  <2> QED
    BY <1>0, <1>1, <2>1 DEF Puts, Present
<1>2. ASSUME NEW k \in Locations, Removes(k) PROVE ~Present(l)'
  BY <1>0, <1>2 DEF Removes, Present
<1>3. ASSUME NEW S \in SUBSET Locations, Drops(S) PROVE ~Present(l)'
  BY <1>0, <1>3 DEF Drops, Present
<1>4. ASSUME NEW d \in Folders,
             store' = [store EXCEPT ![<<d, Marker>>] = [data |-> Empty, meta |-> "own"]]
      PROVE  ~Present(l)'
  <2>1. l # <<d, Marker>>
    BY MarkersAre
  <2> QED
    BY <1>0, <1>4, <2>1 DEF Present
<1>5. ASSUME NEW k \in Locations, Present(k), store' = [store EXCEPT ![k].meta = "edited"]
      PROVE  ~Present(l)'
  <2>1. l # k
    BY <1>5
  <2> QED
    BY <1>0, <1>5, <2>1 DEF Present
<1> QED
  BY <1>1, <1>2, <1>3, <1>4, <1>5 DEF StoreEffect, Present

-----------------------------------------------------------------------------
(* Nothing is deleted before it is copied *)

LEMMA DoomedGrows ==
    ASSUME ShapeInv, RequestInv, Effect
    PROVE  Doomed \subseteq Doomed'
<1>1. ASSUME NEW o \in OpIds, ops[o].type = "delete"
      PROVE  ops'[o].type = "delete" /\ ops'[o].keys = ops[o].keys
  <2>1. SameRequests \/ \E q \in OpIds : \E r \in Requests : Registers(q, r)
    BY NoOpChanges DEF Effect, WorkerEffect, OpEffect, Takes, Counts, Marks, Refuses, Sets,
       Deletes, Changes
  <2>2. ASSUME NEW q \in OpIds, NEW r \in Requests, Registers(q, r) PROVE q # o
    BY <1>1, <2>2 DEF Registers, RequestInv
  <2> QED
    BY <1>1, <2>1, <2>2 DEF SameRequests, Registers
<1> QED
  BY <1>1 DEF Doomed, Total

\* The other workers are left alone by a step of one.
LEMMA OthersWork ==
    ASSUME NEW o \in OpIds, NEW w \in Workers, WorkerEffect(o, w)
    PROVE  /\ SameRequests
           /\ \A q \in OpIds : \A v \in Workers : q # o \/ v # w =>
                worker'[q][v].pc = worker[q][v].pc /\ worker'[q][v].key = worker[q][v].key
BY NoOpChanges DEF WorkerEffect, Moves, Takes, Begins, Counts

\* A worker goes on to delete a source once it has copied it.
LEMMA DeletesNext ==
    ASSUME Apart, ShapeInv, LimitInv, RequestInv, CountInv, UploadInv, DataInv, KeptInv,
           NEW o \in OpIds, NEW w \in Workers, WorkerStep(o, w), worker'[o][w].pc = "delete"
    PROVE  /\ ops[o].type = "move" /\ store'[Dest(o, w)] # NoObject
           /\ worker'[o][w].key = worker[o][w].key
<1>0. /\ \A p \in PCs : Goto(o, w, p) => Moves(o, w, p)
      /\ \A ok \in BOOLEAN : Count(o, w, ok) => Counts(o, w, ok)
  BY GotoMoves, CountCounts
<1>1. ASSUME NEW ok \in BOOLEAN, Count(o, w, ok) PROVE FALSE
  BY <1>0, <1>1 DEF Counts
<1>2. ASSUME NEW p \in PCs, Goto(o, w, p) PROVE p = "delete" /\ worker'[o][w].key = worker[o][w].key
  BY <1>0, <1>2 DEF Moves
<1>3. CASE CopyObject(o, w)
  <2>1. Goto(o, w, "delete") /\ ops[o].type = "move"
    BY <1>1, <1>3 DEF CopyObject, Copied, Unanswered, At
  <2>2. "delete" \in PCs
    BY DEF PCs, Requested
  <2>3. /\ Dest(o, w) \in Locations /\ Source(o, w) \in Locations
    BY <1>3, KeyOfWorker DEF Targets, CopyObject, At, Requested
  <2>4. store'[Dest(o, w)] # NoObject
    BY <1>3, <2>3 DEF CopyObject, CopyAllowed, Present, DataInv
  <2> QED
    BY <1>2, <2>1, <2>2, <2>4
<1>4. CASE CompleteUpload(o, w)
  <2>1. /\ Goto(o, w, "delete") /\ ops[o].type = "move"
        /\ store' = [store EXCEPT ![Dest(o, w)] =
                       [data |-> Assembled(Upload(o, w).got), meta |-> "none"]]
    BY <1>1, <1>4 DEF CompleteUpload, Copied
  <2>2. "delete" \in PCs
    BY DEF PCs, Requested
  <2>3. /\ Dest(o, w) \in Locations /\ Source(o, w) \in Locations
    BY <1>4, KeyOfWorker DEF Targets, CompleteUpload, At, Requested
  <2>4. Assembled(Upload(o, w).got) = Source(o, w) /\ Source(o, w) \in Data
    <3>1. worker[o][w].pc = "complete"
      BY <1>4 DEF CompleteUpload, At
    <3> QED
      BY <3>1, PartsAssemble, BulkConstants DEF KeptInv, InParts, Source, Data
  <2>5. [data |-> Source(o, w), meta |-> "none"] \in Object
    BY <2>4 DEF Object
  <2>6. store'[Dest(o, w)] = [data |-> Source(o, w), meta |-> "none"]
    BY <2>1, <2>3, <2>4 DEF DataInv
  <2>7. store'[Dest(o, w)] # NoObject
    BY <2>5, <2>6, BulkConstants
  <2> QED
    BY <1>2, <2>1, <2>2, <2>7
<1>5. CASE DeleteSource(o, w)
  <2>1. UNCHANGED worker
    BY <1>1, <1>5 DEF DeleteSource, Unanswered
  <2>2. worker[o][w].pc = "delete" /\ worker[o][w].pc \in Requested
    BY <1>5 DEF DeleteSource, At, Requested
  <2>3. Present(Dest(o, w)) /\ ops[o].type = "move"
    BY <2>2 DEF KeptInv
  <2>4. Dest(o, w) \in Targets(Source(o, w)) /\ Source(o, w) \in Locations
    BY <2>2, KeyOfWorker
  <2>5. Dest(o, w) # Source(o, w)
    BY <2>4, TargetsApart
  <2>6. store'[Dest(o, w)] = store[Dest(o, w)]
    BY <1>5, <2>4, <2>5 DEF DeleteSource, DataInv, Targets
  <2> QED
    BY <2>1, <2>3, <2>6 DEF Present
<1>6. CASE CheckCancelled(o, w) \/ NoMoreJobs(o, w)
  <2>1. \E p \in {"exit", "receive"} : Goto(o, w, p)
    BY <1>6 DEF CheckCancelled, NoMoreJobs
  <2> QED
    BY <1>2, <2>1 DEF PCs
<1>7. CASE HeadObject(o, w)
  <2>1. \E p \in {"create", "copy"} : Goto(o, w, p)
    BY <1>7 DEF HeadObject
  <2> QED
    BY <1>2, <2>1 DEF PCs, Requested
<1>8. CASE Receive(o, w)
  <2>1. Takes(o, w)
    BY <1>8, ReceiveTakes DEF CountInv
  <2> QED
    BY <2>1 DEF Takes
<1>9. CASE CreateUpload(o, w)
  <2>1. Begins(o, w) \/ UNCHANGED worker
    BY <1>1, <1>9, CreateBegins DEF CreateUpload, Unanswered, LimitInv
  <2> QED
    BY <1>9, <2>1 DEF Begins, CreateUpload, At
<1>10. CASE UploadPartCopy(o, w)
  <2>1. \E p \in {"complete", "parts"} : Goto(o, w, p)
    BY <1>10 DEF UploadPartCopy
  <2> QED
    BY <1>2, <2>1 DEF PCs, Requested
<1>11. CASE Abort(o, w)
  BY <1>1, <1>11 DEF Abort
<1>12. CASE RequestFails(o, w)
  <2>1. Goto(o, w, "abort") /\ "abort" \in PCs
    BY <1>1, <1>12 DEF RequestFails, PCs, Requested
  <2> QED
    BY <1>2, <2>1
<1> QED
  BY <1>3, <1>4, <1>5, <1>6, <1>7, <1>8, <1>9, <1>10, <1>11, <1>12 DEF WorkerStep

LEMMA LargeNext ==
    ASSUME Apart, ShapeInv, LimitInv, RequestInv, CountInv, DataInv, KeptInv,
           NEW o \in OpIds, NEW w \in Workers, WorkerStep(o, w),
           worker'[o][w].pc = "create" \/ InParts(o, w)'
    PROVE  worker'[o][w].key \in Large
<1>. DEFINE Bulky == {"create", "parts", "complete", "abort"}
<1>0. /\ \A p \in PCs : Goto(o, w, p) => Moves(o, w, p)
      /\ \A ok \in BOOLEAN : Count(o, w, ok) => Counts(o, w, ok)
  BY GotoMoves, CountCounts
<1>1. worker'[o][w].pc \in Bulky
  BY DEF InParts
<1>2. ASSUME NEW ok \in BOOLEAN, Count(o, w, ok) PROVE FALSE
  BY <1>0, <1>1, <1>2 DEF Counts
<1>3. ASSUME NEW p \in PCs, Goto(o, w, p) PROVE p \in Bulky /\ worker'[o][w].key = worker[o][w].key
  BY <1>0, <1>1, <1>3 DEF Moves
<1>4. ASSUME worker[o][w].pc \in Bulky, worker'[o][w].key = worker[o][w].key
      PROVE  worker'[o][w].key \in Large
  BY <1>4 DEF KeptInv, InParts
<1>5. CASE HeadObject(o, w)
  <2>1. Goto(o, w, "create") /\ store[Source(o, w)].data \in Large
    <3>1. CASE Goto(o, w, "copy")
      <4>1. "copy" \in PCs
        BY DEF PCs, Requested
      <4> QED
        BY <1>3, <3>1, <4>1
    <3> QED
      BY <1>5, <3>1 DEF HeadObject
  <2>2. worker[o][w].pc \in Requested /\ Present(Source(o, w)) /\ "create" \in PCs
    BY <1>5 DEF HeadObject, At, Requested, PCs
  <2>3. store[Source(o, w)].data = Source(o, w)
    BY <2>2, KeyOfWorker
  <2> QED
    BY <1>3, <2>1, <2>2, <2>3 DEF Source
<1>6. CASE CheckCancelled(o, w) \/ NoMoreJobs(o, w)
  <2>1. \E p \in {"exit", "receive"} : Goto(o, w, p)
    BY <1>6 DEF CheckCancelled, NoMoreJobs
  <2> QED
    BY <1>3, <2>1 DEF PCs
<1>7. CASE Receive(o, w)
  <2>1. Takes(o, w)
    BY <1>7, ReceiveTakes DEF CountInv
  <2> QED
    BY <1>1, <2>1 DEF Takes
<1>8. CASE CopyObject(o, w)
  <2>1. Goto(o, w, "delete") \/ UNCHANGED worker
    BY <1>2, <1>8 DEF CopyObject, Copied, Unanswered
  <2> QED
    BY <1>1, <1>3, <1>8, <2>1 DEF CopyObject, At, PCs, Requested
<1>9. CASE CreateUpload(o, w)
  <2>1. Begins(o, w) \/ UNCHANGED worker
    BY <1>2, <1>9, CreateBegins DEF CreateUpload, Unanswered, LimitInv
  <2>2. worker[o][w].pc = "create"
    BY <1>9 DEF CreateUpload, At
  <2> QED
    BY <1>4, <2>1, <2>2 DEF Begins
<1>10. CASE UploadPartCopy(o, w)
  <2>1. \E p \in {"complete", "parts"} : Goto(o, w, p)
    BY <1>10 DEF UploadPartCopy
  <2>2. worker[o][w].pc = "parts"
    BY <1>10 DEF UploadPartCopy, At
  <2> QED
    BY <1>3, <1>4, <2>1, <2>2 DEF PCs, Requested
<1>11. CASE Abort(o, w)
  BY <1>2, <1>11 DEF Abort
<1>12. CASE CompleteUpload(o, w)
  <2>1. Goto(o, w, "delete")
    BY <1>2, <1>12 DEF CompleteUpload, Copied
  <2> QED
    BY <1>3, <2>1 DEF PCs, Requested
<1>13. CASE DeleteSource(o, w)
  <2>1. UNCHANGED worker
    BY <1>2, <1>13 DEF DeleteSource, Unanswered
  <2> QED
    BY <1>1, <1>13, <2>1 DEF DeleteSource, At
<1>14. CASE RequestFails(o, w)
  <2>1. Goto(o, w, "abort") /\ worker[o][w].pc = "parts" /\ "abort" \in PCs
    BY <1>2, <1>14 DEF RequestFails, PCs, Requested
  <2> QED
    BY <1>3, <1>4, <2>1
<1> QED
  BY <1>5, <1>6, <1>7, <1>8, <1>9, <1>10, <1>11, <1>12, <1>13, <1>14 DEF WorkerStep

LEMMA KeptStep ==
    ASSUME Apart, ShapeInv, LimitInv, RequestInv, CountInv, UploadInv, DataInv, KeptInv,
           [Next]_vars
    PROVE  KeptInv'
<1>0. Effect /\ StoreEffect /\ nextID \in Nat
  BY NextEffect, StoreEffects DEF LimitInv
<1>1. ASSUME NEW q \in OpIds, NEW v \in Workers, worker[q][v].pc = "delete",
             worker'[q][v].key = worker[q][v].key,
             ops'[q].type = ops[q].type, ops'[q].dest = ops[q].dest
      PROVE  ops'[q].type = "move" /\ Present(Dest(q, v))'
  <2>1. ops[q].type = "move" /\ Present(Dest(q, v)) /\ "delete" \in Requested
    BY <1>1 DEF KeptInv, Requested
  <2>2. Source(q, v) \in Locations /\ Dest(q, v) \in Targets(Source(q, v))
    BY <1>1, <2>1, KeyOfWorker
  <2>3. store'[Dest(q, v)] # NoObject
    BY <1>0, <2>1, <2>2, TargetsStay DEF Present
  <2> QED
    BY <1>1, <2>1, <2>3 DEF Present, Dest
<1>2. ASSUME UNCHANGED worker, SameRequests
      PROVE  /\ \A q \in OpIds : \A v \in Workers : worker'[q][v].pc = "delete" =>
                  ops'[q].type = "move" /\ Present(Dest(q, v))'
             /\ \A q \in OpIds : \A v \in Workers : worker'[q][v].pc = "create" \/ InParts(q, v)' =>
                  worker'[q][v].key \in Large
  BY <1>1, <1>2 DEF SameRequests, KeptInv, InParts
<1>3. ASSUME NEW o \in OpIds, NEW w \in Workers, WorkerStep(o, w)
      PROVE  /\ \A q \in OpIds : \A v \in Workers : worker'[q][v].pc = "delete" =>
                  ops'[q].type = "move" /\ Present(Dest(q, v))'
             /\ \A q \in OpIds : \A v \in Workers : worker'[q][v].pc = "create" \/ InParts(q, v)' =>
                  worker'[q][v].key \in Large
  <2>1. /\ SameRequests
        /\ \A q \in OpIds : \A v \in Workers : q # o \/ v # w =>
             worker'[q][v].pc = worker[q][v].pc /\ worker'[q][v].key = worker[q][v].key
    BY <1>0, <1>3, WorkerEffects, OthersWork
  <2>2. worker'[o][w].pc = "delete" => ops'[o].type = "move" /\ Present(Dest(o, w))'
    BY <1>3, <2>1, DeletesNext DEF SameRequests, Present, Dest
  <2>3. worker'[o][w].pc = "create" \/ InParts(o, w)' => worker'[o][w].key \in Large
    BY <1>3, LargeNext
  <2>4. ASSUME NEW q \in OpIds, NEW v \in Workers, q # o \/ v # w
        PROVE  /\ worker'[q][v].pc = "delete" => ops'[q].type = "move" /\ Present(Dest(q, v))'
               /\ worker'[q][v].pc = "create" \/ InParts(q, v)' => worker'[q][v].key \in Large
    BY <1>1, <2>1, <2>4 DEF SameRequests, KeptInv, InParts
  <2> QED
    BY <2>2, <2>3, <2>4
<1>4. ASSUME NEW r \in Requests, Register(r)
      PROVE  /\ \A q \in OpIds : \A v \in Workers : worker'[q][v].pc = "delete" =>
                  ops'[q].type = "move" /\ Present(Dest(q, v))'
             /\ \A q \in OpIds : \A v \in Workers : worker'[q][v].pc = "create" \/ InParts(q, v)' =>
                  worker'[q][v].key \in Large
  <2>1. PICK o \in OpIds : Registers(o, r)
    BY <1>4, RegisterRegisters
  <2>2. UNCHANGED worker
    BY <1>4 DEF Register
  <2>3. \A v \in Workers : worker'[o][v].pc = "check"
    BY <2>1, <2>2 DEF Registers, RequestInv
  <2>4. \A q \in OpIds : q # o => ops'[q] = ops[q]
    BY <2>1 DEF Registers
  <2> QED
    BY <1>1, <2>2, <2>3, <2>4 DEF KeptInv, InParts
<1>5. /\ \A q \in OpIds : \A v \in Workers : worker'[q][v].pc = "delete" =>
           ops'[q].type = "move" /\ Present(Dest(q, v))'
      /\ \A q \in OpIds : \A v \in Workers : worker'[q][v].pc = "create" \/ InParts(q, v)' =>
           worker'[q][v].key \in Large
  <2>1. ASSUME NEW o \in OpIds, OpStep(o) \/ Tick(o) PROVE UNCHANGED worker /\ SameRequests
    BY <2>1, OpEffects DEF OpEffect, Marks, Refuses, Sets, Deletes, Changes
  <2>2. ASSUME NEW o \in OpIds, NEW c \in Callers, Cancel(c, o)
        PROVE  UNCHANGED worker /\ SameRequests
    BY <2>2, FlagMarks DEF Cancel, Marks, Changes
  <2>3. ASSUME NEW c \in Callers, CancelReturns(c) PROVE UNCHANGED worker /\ SameRequests
    <3>1. call[c].op \in OpIds
      BY <2>3 DEF CancelReturns, ShapeInv, CallInv
    <3> QED
      BY <2>3, <3>1, FlagMarks DEF CancelReturns, Marks, Changes
  <2>4. ASSUME NEW c \in Callers,
               \/ RenameDelete(c)
               \/ \E r \in Renames : RenameCopy(c, r[1], r[2])
               \/ \E d \in Folders : CreateFolder(c, d)
               \/ \E l \in Locations : UpdateMetadata(c, l)
        PROVE  UNCHANGED worker /\ SameRequests
    BY <2>4, NoOpChanges DEF RenameDelete, RenameCopy, CreateFolder, UpdateMetadata
  <2>5. CASE UNCHANGED vars
    BY <1>2, <2>5, NoOpChanges DEF vars
  <2> QED
    BY <1>3, <1>4, <1>2, <2>1, <2>2, <2>3, <2>4, <2>5
    DEF Next, CopyObjects, MoveObjects, DeleteObjects
<1>6. ASSUME NEW c \in Callers, call'[c].step = "rename"
      PROVE  call'[c].key \in Locations /\ \E m \in Targets(call'[c].key) : Present(m)'
  <2>0. call \in [Callers -> [step: {"idle", "wait", "rename"}, op: OpIds \cup {0},
                              key: Locations \cup {NoLocation}]]
    BY DEF ShapeInv, CallInv
  <2>1. CASE call'[c] = call[c]
    <3>1. PICK m \in Targets(call[c].key) : Present(m) /\ call[c].key \in Locations
      BY <1>6, <2>1 DEF KeptInv
    <3>2. Present(m)'
      BY <1>0, <3>1, TargetsStay
    <3> QED
      BY <2>1, <3>1, <3>2
  <2>2. CASE call'[c] # call[c]
    <3>1. PICK r \in Renames : RenameCopy(c, r[1], r[2])
      <4>1. ASSUME NEW d \in Callers, CancelReturns(d) \/ RenameDelete(d) PROVE FALSE
        BY <1>6, <2>0, <2>2, <4>1 DEF CancelReturns, RenameDelete, Idle
      <4>2. ASSUME NEW d \in Callers, NEW o \in OpIds, Cancel(d, o) PROVE FALSE
        BY <1>6, <2>0, <2>2, <4>2 DEF Cancel
      <4>3. ASSUME NEW d \in Callers, NEW r \in Renames, RenameCopy(d, r[1], r[2]) PROVE d = c
        BY <2>0, <2>2, <4>3 DEF RenameCopy
      <4>4. ASSUME NEW o \in OpIds, OpStep(o) \/ Tick(o) PROVE FALSE
        BY <2>2, <4>4, OpEffects
      <4>5. ASSUME NEW o \in OpIds, NEW w \in Workers, WorkerStep(o, w) PROVE FALSE
        BY <1>0, <2>2, <4>5, WorkerEffects
      <4>6. ASSUME UNCHANGED vars \/ \E r \in Requests : Register(r) PROVE FALSE
        BY <2>2, <4>6 DEF vars, Register
      <4>7. ASSUME NEW d \in Callers,
                   \/ \E e \in Folders : CreateFolder(d, e)
                   \/ \E l \in Locations : UpdateMetadata(d, l)
            PROVE  FALSE
        BY <2>2, <4>7 DEF CreateFolder, UpdateMetadata
      <4> QED
        BY <4>1, <4>2, <4>3, <4>4, <4>5, <4>6, <4>7
        DEF Next, CopyObjects, MoveObjects, DeleteObjects
    <3>2. r[1] \in Locations /\ r[2] \in Locations /\ r = <<r[1], r[2]>>
      BY BulkConstants
    <3>3. r[2] \in Targets(r[1])
      BY <3>2 DEF Targets
    <3>4. call'[c].key = r[1]
      BY <2>0, <2>2, <3>1 DEF RenameCopy
    <3>5. Present(r[2])'
      BY <3>1, <3>2 DEF RenameCopy, CopyAllowed, Present, DataInv
    <3> QED
      BY <3>2, <3>3, <3>4, <3>5
  <2> QED
    BY <2>1, <2>2
<1>7. ASSUME NEW l \in Stored \ Doomed' PROVE Present(l)' \/ \E m \in Targets(l) : Present(m)'
  <2>1. /\ l \in Stored \ Doomed /\ l \in Locations /\ Doomed \subseteq Doomed'
        /\ store \in [Locations -> Object \cup {NoObject}]
    BY <1>0, <1>7, DoomedGrows, BulkConstants DEF DataInv
  <2>2. CASE \E m \in Targets(l) : Present(m)
    BY <1>0, <2>1, <2>2, TargetsStay
  <2>3. CASE Present(l) /\ ~\E m \in Targets(l) : Present(m)
    <3>1. CASE UNCHANGED store
      BY <2>3, <3>1 DEF Present
    <3>2. ASSUME NEW k \in Locations, NEW n \in Locations, NEW meta \in {"own", "none", "edited"},
                 Puts(k, n, meta)
          PROVE  Present(l)'
      <4>1. n # l
        BY <2>1, <3>2, TargetsApart DEF Puts
      <4> QED
        BY <2>1, <2>3, <3>2, <4>1 DEF Puts, Present
    <3>3. ASSUME NEW k \in Locations, Removes(k) PROVE Present(l)'
      <4>1. k # l
        BY <2>3, <3>3 DEF Removes
      <4> QED
        BY <2>1, <2>3, <3>3, <4>1 DEF Removes, Present
    <3>4. ASSUME NEW S \in SUBSET Locations, Drops(S) PROVE Present(l)'
      BY <2>1, <2>3, <3>4 DEF Drops, Present
    <3>5. ASSUME NEW d \in Folders,
                 store' = [store EXCEPT ![<<d, Marker>>] = [data |-> Empty, meta |-> "own"]]
          PROVE  Present(l)'
      <4>1. l # <<d, Marker>>
        BY <2>1, MarkersAre DEF Apart
      <4> QED
        BY <2>1, <2>3, <3>5, <4>1 DEF Present
    <3>6. ASSUME NEW k \in Locations, Present(k), store' = [store EXCEPT ![k].meta = "edited"]
          PROVE  Present(l)'
      <4>1. CASE l = k
        <5>1. store[l] \in Object /\ [store[l] EXCEPT !.meta = "edited"] \in Object
          BY <2>1, <2>3 DEF Object, Present
        <5> QED
          BY <2>1, <3>6, <4>1, <5>1, BulkConstants DEF Present
      <4>2. CASE l # k
        BY <2>1, <2>3, <3>6, <4>2 DEF Present
      <4> QED
        BY <4>1, <4>2
    <3> QED
      BY <1>0, <3>1, <3>2, <3>3, <3>4, <3>5, <3>6 DEF StoreEffect
  <2> QED
    BY <2>1, <2>2, <2>3 DEF KeptInv
<1> QED
  BY <1>5, <1>6, <1>7 DEF KeptInv

-----------------------------------------------------------------------------
(* What is counted as done is done *)

\* Done, given that a target holds nothing but its source's object.
LEMMA DoneIs ==
    ASSUME Apart, ShapeInv, RequestInv, DataInv, NEW o \in OpIds, ops[o].step # "none",
           NEW i \in 1 .. Total(o)
    PROVE  Done(o, i) <=>
             /\ ops[o].type # "copy" => ~Present(ops[o].keys[i])
             /\ ops[o].type # "delete" => Present(<<ops[o].dest, ops[o].keys[i][2]>>)
<1>. DEFINE l == ops[o].keys[i]
            d == <<ops[o].dest, l[2]>>
<1>1. l \in Locations /\ ops[o].type \in {"copy", "move", "delete"}
  BY OpKeys
<1>2. ops[o].type # "delete" => d \in Targets(l)
  BY OpKeys
<1>3. ops[o].type # "delete" /\ Present(d) =>
        store[d].data = l /\ (l \notin Large => store[d].meta # "none")
  BY <1>1, <1>2 DEF DataInv
<1> QED
  BY <1>1, <1>3 DEF Done

\* What is done stays done.
LEMMA DoneStays ==
    ASSUME Apart, ShapeInv, RequestInv, CountInv, DataInv, Effect, StoreEffect,
           NEW o \in OpIds, NEW i \in 1 .. Total(o), ops[o].step # "none", Done(o, i)
    PROVE  Done(o, i)' /\ ops'[o].keys = ops[o].keys /\ ops'[o].type = ops[o].type
<1>. DEFINE l == ops[o].keys[i]
            d == <<ops[o].dest, l[2]>>
<1>1. /\ l \in Locations /\ ops[o].type \in {"copy", "move", "delete"}
      /\ ops[o].type # "delete" => d \in Targets(l)
      /\ ops[o].type = "delete" => l[2] # Marker /\ \A k \in Locations : l \notin Targets(k)
  BY OpKeys
<1>2. /\ ops'[o].type = ops[o].type /\ ops'[o].keys = ops[o].keys /\ ops'[o].dest = ops[o].dest
  <2>1. CASE SameRequests
    BY <2>1 DEF SameRequests
  <2>2. ASSUME NEW q \in OpIds, NEW r \in Requests, Registers(q, r) PROVE ops'[o] = ops[o]
    BY <2>2 DEF Registers
  <2>3. SameRequests \/ \E q \in OpIds : \E r \in Requests : Registers(q, r)
    BY NoOpChanges DEF Effect, WorkerEffect, OpEffect, Takes, Counts, Marks, Refuses, Sets,
       Deletes, Changes
  <2> QED
    BY <2>1, <2>2, <2>3
<1>3. /\ ops[o].type # "copy" => ~Present(l)
      /\ ops[o].type # "delete" => Present(d)
  BY DoneIs
<1>. HIDE DEF l, d
<1>4. ASSUME ops[o].type # "delete" PROVE store'[d] # NoObject
  <2>1. d \in Targets(l) /\ Present(d)
    BY <1>1, <1>3, <1>4
  <2> QED
    BY <1>1, <2>1, TargetsStay DEF Present
<1>5. ASSUME ops[o].type # "copy" PROVE store'[l] = NoObject
  <2>1. l[2] # Marker /\ \A k \in Locations : l \notin Targets(k)
    <3>1. CASE ops[o].type = "delete"
      BY <1>1, <3>1
    <3>2. CASE ops[o].type # "delete"
      <4>1. d \in Targets(l)
        BY <1>1, <3>2
      <4> QED
        BY <1>1, <4>1, TargetsApart
    <3> QED
      BY <3>1, <3>2
  <2>2. ~Present(l)
    BY <1>3, <1>5
  <2> QED
    BY <1>1, <2>1, <2>2, GoneStays DEF Present
<1>6. DataInv'
  BY DataStep
<1>7. ASSUME ops[o].type # "delete"
      PROVE  store'[d].data = l /\ (l \notin Large => store'[d].meta # "none")
  <2>1. d \in Targets(l) /\ store'[d] # NoObject
    BY <1>1, <1>4, <1>7
  <2>2. \A k \in Locations : \A m \in Targets(k) : store'[m] # NoObject =>
          store'[m].data = k /\ (k \notin Large => store'[m].meta # "none")
    BY <1>6 DEF DataInv, Present
  <2> QED
    BY <1>1, <2>1, <2>2
<1> QED
  BY <1>1, <1>2, <1>4, <1>5, <1>7 DEF Done, Present, l, d

LEMMA TriedFinite ==
    ASSUME ShapeInv, NEW o \in OpIds
    PROVE  IsFiniteSet(Tried(o)) /\ Cardinality(Tried(o)) \in Nat
<1>. DEFINE n == ops[o].feed - 1
<1>1. n \in Int /\ Tried(o) \subseteq 1 .. n
  BY DEF ShapeInv, Operation, Tried
<1>. HIDE DEF n
<1>2. IsFiniteSet(1 .. n)
  BY <1>1, FS_Interval
<1> QED
  BY <1>1, <1>2, FS_Subset, FS_CardinalityType

LEMMA TriedFiniteNext ==
    ASSUME ShapeInv', NEW o \in OpIds
    PROVE  IsFiniteSet(Tried(o)') /\ Cardinality(Tried(o)') \in Nat
<1>. DEFINE n == ops'[o].feed - 1
<1>1. n \in Int /\ Tried(o)' \subseteq 1 .. n
  BY DEF ShapeInv, Operation, Tried
<1>. HIDE DEF n
<1>2. IsFiniteSet(1 .. n)
  BY <1>1, FS_Interval
<1> QED
  BY <1>1, <1>2, FS_Subset, FS_CardinalityType

LEMMA TriedGrows ==
    ASSUME ShapeInv, ShapeInv', NEW o \in OpIds, Tried(o) \subseteq Tried(o)'
    PROVE  /\ Cardinality(Tried(o)) <= Cardinality(Tried(o)')
           /\ Cardinality(Tried(o)) \in Nat /\ Cardinality(Tried(o)') \in Nat
BY TriedFinite, TriedFiniteNext, FS_Subset

\* Whatever a worker counts as a success is done.
LEMMA CountsDone ==
    ASSUME Apart, ShapeInv, LimitInv, RequestInv, CountInv, UploadInv, DataInv, KeptInv,
           NEW o \in OpIds, NEW w \in Workers, WorkerStep(o, w),
           ops'[o].completed = ops[o].completed + 1, ops'[o].failed = ops[o].failed
    PROVE  /\ store'[Dest(o, w)] # NoObject
           /\ ops[o].type = "move" => store'[Source(o, w)] = NoObject
<1>0. ops[o].completed \in Nat /\ ops[o].failed \in Nat
  BY DEF ShapeInv, Operation
<1>1. ops' # ops
  BY <1>0
<1>2. ASSUME Count(o, w, FALSE) PROVE FALSE
  <2>1. Counts(o, w, FALSE)
    BY <1>2, CountCounts
  <2>2. ops'[o].failed = ops[o].failed + 1
    BY <2>1 DEF Counts
  <2> QED
    BY <1>0, <2>2
<1>3. ~Takes(o, w)
  BY <1>0 DEF Takes
<1>4. CASE CopyObject(o, w)
  <2>1. ops[o].type # "move"
    BY <1>1, <1>2, <1>4 DEF CopyObject, Copied, Unanswered
  <2>2. /\ Dest(o, w) \in Locations /\ Source(o, w) \in Locations
    BY <1>4, KeyOfWorker DEF Targets, CopyObject, At, Requested
  <2>3. store'[Dest(o, w)] # NoObject
    BY <1>4, <2>2 DEF CopyObject, CopyAllowed, Present, DataInv
  <2> QED
    BY <2>1, <2>3
<1>5. CASE CompleteUpload(o, w)
  <2>1. /\ ops[o].type # "move"
        /\ store' = [store EXCEPT ![Dest(o, w)] =
                       [data |-> Assembled(Upload(o, w).got), meta |-> "none"]]
    BY <1>1, <1>2, <1>5 DEF CompleteUpload, Copied
  <2>2. /\ Dest(o, w) \in Locations /\ Source(o, w) \in Locations
    BY <1>5, KeyOfWorker DEF Targets, CompleteUpload, At, Requested
  <2>3. Assembled(Upload(o, w).got) = Source(o, w) /\ Source(o, w) \in Data
    <3>1. worker[o][w].pc = "complete"
      BY <1>5 DEF CompleteUpload, At
    <3> QED
      BY <3>1, PartsAssemble, BulkConstants DEF KeptInv, InParts, Source, Data
  <2>4. [data |-> Source(o, w), meta |-> "none"] \in Object
    BY <2>3 DEF Object
  <2>5. store'[Dest(o, w)] = [data |-> Source(o, w), meta |-> "none"]
    BY <2>1, <2>2, <2>3 DEF DataInv
  <2> QED
    BY <2>1, <2>4, <2>5, BulkConstants
<1>6. CASE DeleteSource(o, w)
  <2>1. worker[o][w].pc = "delete" /\ worker[o][w].pc \in Requested
    BY <1>6 DEF DeleteSource, At, Requested
  <2>2. Present(Dest(o, w))
    BY <2>1 DEF KeptInv
  <2>3. Dest(o, w) \in Targets(Source(o, w)) /\ Source(o, w) \in Locations
    BY <2>1, KeyOfWorker
  <2>4. Dest(o, w) # Source(o, w)
    BY <2>3, TargetsApart
  <2>5. store'[Dest(o, w)] = store[Dest(o, w)] /\ store'[Source(o, w)] = NoObject
    BY <1>6, <2>3, <2>4 DEF DeleteSource, DataInv, Targets
  <2> QED
    BY <2>2, <2>5 DEF Present
<1>7. CASE Receive(o, w)
  BY <1>3, <1>7, ReceiveTakes DEF CountInv
<1>8. CASE ~CopyObject(o, w) /\ ~CompleteUpload(o, w) /\ ~DeleteSource(o, w) /\ ~Receive(o, w)
  BY <1>1, <1>2, <1>8 DEF WorkerStep, CheckCancelled, NoMoreJobs, HeadObject, CreateUpload,
     UploadPartCopy, Abort, RequestFails, Unanswered
<1> QED
  BY <1>4, <1>5, <1>6, <1>7, <1>8

LEMMA WorkerSuccess ==
    ASSUME Apart, ShapeInv, LimitInv, RequestInv, CountInv, HeldInv, UploadInv, DataInv,
           KeptInv, SuccessInv, ShapeInv', Effect, StoreEffect,
           NEW o \in OpIds, NEW w \in Workers, WorkerStep(o, w)
    PROVE  ops'[o].completed - ops'[o].failed <= Cardinality(Tried(o)')
<1>0. /\ ops[o].completed \in Nat /\ ops[o].failed \in Nat
      /\ ops[o].feed \in Nat /\ Total(o) \in Nat
      /\ WorkerEffect(o, w) /\ ops[o].step = "pool" /\ ops[o].feed <= Total(o) + 1
      /\ ops[o].completed - ops[o].failed <= Cardinality(Tried(o))
      /\ IsFiniteSet(Tried(o)) /\ Cardinality(Tried(o)) \in Nat
  <2>1. /\ ops[o].completed \in Nat /\ ops[o].failed \in Nat /\ ops[o].feed \in Nat
        /\ Total(o) \in Nat
    BY DEF ShapeInv, Operation, Total
  <2>2. WorkerEffect(o, w) /\ ops[o].step = "pool"
    BY WorkerEffects DEF LimitInv, WorkerEffect
  <2>3. ops[o].feed <= Total(o) + 1 /\ ops[o].completed - ops[o].failed <= Cardinality(Tried(o))
    BY <2>1 DEF CountInv, SuccessInv
  <2> QED
    BY <2>1, <2>2, <2>3, TriedFinite
<1>1. /\ ops[o].step # "none"
      /\ \A i \in 1 .. Total(o) : ops[o].keys[i] \in Locations
      /\ \A i, j \in 1 .. Total(o) : ops[o].keys[i] = ops[o].keys[j] => i = j
      /\ NoLocation \notin Locations
  BY <1>0, OpKeys, BulkConstants
<1>2. \A i \in 1 .. ops[o].feed - 1 : i \in 1 .. Total(o)
  BY <1>0
<1>3. \A i \in Tried(o) : Done(o, i)' /\ ops'[o].keys = ops[o].keys
  BY <1>1, <1>2, DoneStays DEF Tried
<1>4. ASSUME ops'[o].keys = ops[o].keys, ops'[o].feed = ops[o].feed,
             \A v \in Workers : worker'[o][v].key \in {worker[o][v].key, NoLocation}
      PROVE  Tried(o) \subseteq Tried(o)'
  BY <1>1, <1>2, <1>3, <1>4 DEF Tried
<1>5. ASSUME UNCHANGED ops, \A v \in Workers : worker'[o][v].key = worker[o][v].key
      PROVE  ops'[o].completed - ops'[o].failed <= Cardinality(Tried(o)')
  BY <1>0, <1>4, <1>5, TriedGrows
<1>6. CASE Takes(o, w)
  <2>1. Tried(o) \subseteq Tried(o)'
    <3>1. /\ ops'[o].keys = ops[o].keys /\ ops'[o].feed = ops[o].feed + 1
          /\ ops[o].feed \in 1 .. Total(o)
      BY <1>0, <1>6 DEF Takes, CountInv, SameRequests
    <3>2. ASSUME NEW i \in Tried(o) PROVE i \in Tried(o)'
      <4>1. i \in 1 .. ops[o].feed - 1 /\ i \in 1 .. Total(o) /\ i # ops[o].feed
        BY <1>0, <1>2 DEF Tried
      <4>2. ops[o].keys[i] # ops[o].keys[ops[o].feed]
        BY <1>1, <3>1, <4>1
      <4>3. \A v \in Workers : worker'[o][v].key # ops[o].keys[i]
        BY <1>6, <4>2 DEF Takes, Tried
      <4>4. i \in 1 .. ops'[o].feed - 1
        BY <1>0, <3>1, <4>1
      <4> QED
        BY <1>3, <3>1, <4>3, <4>4 DEF Tried
    <3> QED
      BY <3>2
  <2> QED
    BY <1>0, <1>6, <2>1, TriedGrows DEF Takes
<1>7. ASSUME NEW ok \in BOOLEAN, Counts(o, w, ok), worker[o][w].pc \in Requested
      PROVE  ops'[o].completed - ops'[o].failed <= Cardinality(Tried(o)')
  <2>1. /\ ops'[o].keys = ops[o].keys /\ ops'[o].feed = ops[o].feed
        /\ ops'[o].type = ops[o].type /\ ops'[o].dest = ops[o].dest
        /\ ops'[o].completed = ops[o].completed + 1
        /\ \A v \in Workers : worker'[o][v].key = IF v = w THEN NoLocation ELSE worker[o][v].key
    BY <1>7 DEF Counts, SameRequests
  <2>2. Tried(o) \subseteq Tried(o)'
    BY <1>4, <2>1
  <2>3. CASE ~ok
    <3>1. ops'[o].failed = ops[o].failed + 1
      BY <1>7, <2>3 DEF Counts
    <3> QED
      BY <1>0, <2>1, <2>2, <3>1, TriedGrows
  <2>4. CASE ok
    <3>1. ops'[o].failed = ops[o].failed
      BY <1>7, <2>4 DEF Counts
    <3>2. /\ store'[Dest(o, w)] # NoObject
          /\ ops[o].type = "move" => store'[Source(o, w)] = NoObject
      BY <2>1, <3>1, CountsDone
    <3>3. PICK i \in 1 .. ops[o].feed - 1 : i \in 1 .. Total(o) /\ ops[o].keys[i] = Source(o, w)
      BY <1>7, KeyOfWorker
    <3>4. ops[o].type \in {"copy", "move"} /\ Source(o, w) \in Locations
          /\ Dest(o, w) \in Targets(Source(o, w))
      BY <1>7, KeyOfWorker
    <3>5. Done(o, i)'
      <4>1. DataInv'
        BY DataStep
      <4>2. \A k \in Locations : \A m \in Targets(k) : store'[m] # NoObject =>
              store'[m].data = k /\ (k \notin Large => store'[m].meta # "none")
        BY <4>1 DEF DataInv, Present
      <4>3. /\ store'[Dest(o, w)].data = Source(o, w)
            /\ Source(o, w) \notin Large => store'[Dest(o, w)].meta # "none"
        BY <3>2, <3>4, <4>2
      <4>4. Dest(o, w) = <<ops[o].dest, ops[o].keys[i][2]>>
        BY <3>3 DEF Dest, Source
      <4> QED
        BY <2>1, <3>2, <3>3, <3>4, <4>3, <4>4 DEF Done, Present
    <3>6. \A v \in Workers : v # w => worker[o][v].key # Source(o, w)
      <4>1. worker[o][w].key # NoLocation
        BY <1>1, <3>4 DEF Source
      <4> QED
        BY <4>1 DEF HeldInv, Source
    <3>7. i \in Tried(o)' /\ i \notin Tried(o)
      <4>1. i \notin Tried(o)
        BY <3>3 DEF Tried, Source
      <4>2. \A v \in Workers : worker'[o][v].key # ops[o].keys[i]
        BY <1>1, <2>1, <3>3, <3>6
      <4> QED
        BY <2>1, <3>3, <3>5, <4>1, <4>2 DEF Tried
    <3>8. Tried(o) \cup {i} \subseteq Tried(o)' /\ IsFiniteSet(Tried(o)')
      BY <2>2, <3>7, TriedFiniteNext
    <3>9. Cardinality(Tried(o) \cup {i}) = Cardinality(Tried(o)) + 1
      BY <1>0, <3>7, FS_AddElement
    <3>10. Cardinality(Tried(o) \cup {i}) <= Cardinality(Tried(o)')
      BY <3>8, FS_Subset
    <3>11. Cardinality(Tried(o)') \in Nat
      BY <3>8, FS_CardinalityType
    <3> QED
      BY <1>0, <2>1, <3>1, <3>9, <3>10, <3>11
  <2> QED
    BY <2>3, <2>4
<1> QED
  BY <1>0, <1>5, <1>6, <1>7 DEF WorkerEffect, Moves, Begins

LEMMA SuccessStep ==
    ASSUME Apart, ShapeInv, LimitInv, RequestInv, CountInv, HeldInv, UploadInv, DataInv,
           KeptInv, SuccessInv, ShapeInv', [Next]_vars
    PROVE  SuccessInv'
<1>. DEFINE OK(q) == ops[q].completed - ops[q].failed <= Cardinality(Tried(q))
<1>0. Effect /\ StoreEffect /\ nextID \in Nat /\ \A q \in OpIds : OK(q)
  BY NextEffect, StoreEffects DEF LimitInv, SuccessInv
<1>1. ASSUME NEW q \in OpIds, ops[q].step # "none",
             ops'[q].keys = ops[q].keys, ops'[q].feed = ops[q].feed,
             \A v \in Workers : worker'[q][v].key = worker[q][v].key
      PROVE  Cardinality(Tried(q)) <= Cardinality(Tried(q)') /\ Cardinality(Tried(q)) \in Nat
             /\ Cardinality(Tried(q)') \in Nat
  <2>1. \A i \in 1 .. ops[q].feed - 1 : i \in 1 .. Total(q)
    BY DEF CountInv, ShapeInv, Operation, Total
  <2>2. \A i \in Tried(q) : Done(q, i)'
    BY <1>0, <1>1, <2>1, DoneStays DEF Tried
  <2>3. Tried(q) \subseteq Tried(q)'
    BY <1>1, <2>2 DEF Tried
  <2> QED
    BY <2>3, TriedGrows
<1>2. ASSUME NEW q \in OpIds, ops'[q].completed = ops'[q].failed
      PROVE  OK(q)'
  <2>1. Cardinality(Tried(q)') \in Nat
    BY TriedFiniteNext
  <2>2. ops'[q].completed - ops'[q].failed = 0
    BY <1>2 DEF ShapeInv, Operation
  <2> QED
    BY <2>1, <2>2
<1>3. ASSUME NEW q \in OpIds, Rests(q) PROVE OK(q)'
  <2>1. CASE ops[q].step # "none"
    <3>1. Cardinality(Tried(q)) <= Cardinality(Tried(q)') /\ Cardinality(Tried(q)) \in Nat
          /\ Cardinality(Tried(q)') \in Nat
      BY <1>1, <1>3, <2>1 DEF Rests
    <3>2. ops'[q].completed = ops[q].completed /\ ops'[q].failed = ops[q].failed
          /\ ops[q].completed \in Nat /\ ops[q].failed \in Nat /\ OK(q)
      BY <1>0, <1>3 DEF Rests, ShapeInv, Operation
    <3> QED
      BY <3>1, <3>2
  <2>2. CASE ops[q].step = "none"
    <3>1. ops[q].completed = 0 /\ ops[q].failed = 0
      BY <2>2 DEF RequestInv, CountInv, ShapeInv, Operation
    <3> QED
      BY <1>2, <1>3, <3>1 DEF Rests
  <2> QED
    BY <2>1, <2>2
<1>4. CASE UNCHANGED <<ops, worker>>
  <2>1. \A q \in OpIds : Rests(q)
    BY <1>4 DEF Rests
  <2> QED
    BY <1>3, <2>1 DEF SuccessInv
<1>5. ASSUME NEW o \in OpIds, NEW w \in Workers, WorkerStep(o, w) PROVE SuccessInv'
  <2>1. \A q \in OpIds : q # o => Rests(q)
    BY <1>0, <1>5, WorkerEffects, OthersRest
  <2>2. OK(o)'
    BY <1>0, <1>5, WorkerSuccess
  <2> QED
    BY <1>3, <2>1, <2>2 DEF SuccessInv
<1>6. ASSUME NEW o \in OpIds, UNCHANGED worker, OpEffect(o), ops[o].step # "request" \/ Marks(o)
      PROVE  SuccessInv'
  <2>1. \A q \in OpIds : q # o => Rests(q)
    BY <1>6, OthersRest
  <2>2. CASE Marks(o) \/ \E s \in Steps : \E h \in {"none", "running", "completed", "cancelled"} :
                           Sets(o, s, h)
    <3>1. /\ ops'[o].completed = ops[o].completed /\ ops'[o].failed = ops[o].failed
          /\ ops'[o].keys = ops[o].keys /\ ops'[o].feed = ops[o].feed
      BY <2>2 DEF Marks, Sets, SameCounts, Changes, SameRequests
    <3>2. CASE ops[o].step # "none"
      <4>1. Cardinality(Tried(o)) <= Cardinality(Tried(o)') /\ Cardinality(Tried(o)) \in Nat
            /\ Cardinality(Tried(o)') \in Nat
        BY <1>1, <1>6, <3>1, <3>2
      <4>2. ops[o].completed \in Nat /\ ops[o].failed \in Nat /\ OK(o)
        BY <1>0 DEF ShapeInv, Operation
      <4>3. OK(o)'
        BY <3>1, <4>1, <4>2
      <4> QED
        BY <1>3, <2>1, <4>3 DEF SuccessInv
    <3>3. CASE ops[o].step = "none"
      <4>1. ops[o].completed = 0 /\ ops[o].failed = 0
        BY <3>3 DEF RequestInv, CountInv, ShapeInv, Operation
      <4>2. OK(o)'
        BY <1>2, <3>1, <4>1
      <4> QED
        BY <1>3, <2>1, <4>2 DEF SuccessInv
    <3> QED
      BY <3>2, <3>3
  <2>3. CASE Refuses(o)
    <3>1. OK(o)'
      BY <1>2, <2>3 DEF Refuses
    <3> QED
      BY <1>3, <2>1, <3>1 DEF SuccessInv
  <2> QED
    BY <1>6, <2>2, <2>3 DEF OpEffect
<1>7. ASSUME NEW o \in OpIds, DeleteBatch(o) PROVE SuccessInv'
  <2>1. PICK deleted \in SUBSET Batch(o), answered \in BOOLEAN :
          /\ store' = [l \in Locations |-> IF \E i \in deleted : ops[o].keys[i] = l
                                           THEN NoObject ELSE store[l]]
          /\ ops' = [ops EXCEPT ![o].step = "batch", ![o].shown = "running",
                                ![o].feed = @ + Cardinality(Batch(o)),
                                ![o].completed = @ + Cardinality(Batch(o)),
                                ![o].failed = @ + Failures(o, deleted, answered)]
    BY <1>7 DEF DeleteBatch
  <2>. DEFINE n == Cardinality(Batch(o))
              k == Failures(o, deleted, answered)
  <2>2. ops[o].feed <= Total(o) /\ ops[o].step = "request" /\ ops[o].type = "delete"
        /\ UNCHANGED worker
    BY <1>7 DEF DeleteBatch, RequestInv
  <2>3. /\ n \in Nat /\ k \in 0 .. n /\ n - k <= Cardinality(deleted)
        /\ Batch(o) = ops[o].feed .. ops[o].feed + n - 1
        /\ Batch(o) \subseteq ops[o].feed .. Total(o)
        /\ IsFiniteSet(deleted) /\ Cardinality(deleted) \in Nat
    BY <2>2, BatchCounts
  <2>4. Deletes(o, deleted, answered)
    <3>1. k \in Nat /\ n \in Nat
      BY <2>3
    <3> QED
      BY <2>1, <3>1, DeleteDeletes
  <2>5. /\ ops'[o].completed = ops[o].completed + n /\ ops'[o].failed = ops[o].failed + k
        /\ ops'[o].feed = ops[o].feed + n /\ ops'[o].keys = ops[o].keys
        /\ ops'[o].type = ops[o].type
        /\ \A q \in OpIds : q # o => ops'[q] = ops[q]
    BY <2>4 DEF Deletes, Changes, SameRequests
  <2>. HIDE DEF n, k
  <2>6. /\ ops[o].completed \in Nat /\ ops[o].failed \in Nat /\ ops[o].feed \in Nat \ {0}
        /\ Total(o) \in Nat
    BY DEF ShapeInv, Operation, Total, CountInv
  <2>7. \A i \in deleted : i \in 1 .. Total(o) /\ i \in 1 .. ops'[o].feed - 1 /\ i >= ops[o].feed
    BY <2>3, <2>5, <2>6
  <2>8. \A i \in deleted : Done(o, i)'
    <3>1. \A i \in deleted : ops[o].keys[i] \in Locations
      BY <2>2, <2>7, OpKeys
    <3>2. \A i \in deleted : store'[ops[o].keys[i]] = NoObject
      BY <2>1, <3>1
    <3> QED
      BY <2>2, <2>5, <3>2 DEF Done, Present
  <2>9. \A v \in Workers : worker'[o][v].key = NoLocation
    BY <2>2 DEF RequestInv
  <2>10. deleted \subseteq Tried(o)'
    <3>1. \A i \in deleted : ops[o].keys[i] \in Locations
      BY <2>2, <2>7, OpKeys
    <3> QED
      BY <2>5, <2>7, <2>8, <2>9, <3>1, BulkConstants DEF Tried
  <2>11. Tried(o) \subseteq Tried(o)'
    <3>1. \A i \in Tried(o) : i \in 1 .. ops[o].feed - 1 /\ i \in 1 .. Total(o)
      BY <2>2, <2>6 DEF Tried
    <3>2. \A i \in Tried(o) : Done(o, i)'
      BY <1>0, <2>2, <3>1, DoneStays DEF Tried
    <3>3. \A i \in Tried(o) : i \in 1 .. ops'[o].feed - 1
      BY <2>3, <2>5, <2>6, <3>1
    <3> QED
      BY <2>2, <2>5, <3>2, <3>3 DEF Tried
  <2>12. deleted \cap Tried(o) = {}
    BY <2>6, <2>7 DEF Tried
  <2>13. /\ Cardinality(Tried(o) \cup deleted) = Cardinality(Tried(o)) + Cardinality(deleted)
         /\ Cardinality(Tried(o)) \in Nat
    <3>1. Tried(o) \cap deleted = {}
      BY <2>12
    <3>2. IsFiniteSet(Tried(o)) /\ Cardinality(Tried(o)) \in Nat
      BY TriedFinite
    <3>3. Cardinality(Tried(o) \cup deleted) =
            Cardinality(Tried(o)) + Cardinality(deleted) - Cardinality(Tried(o) \cap deleted)
      BY <2>3, <3>2, FS_Union
    <3>4. Cardinality(Tried(o) \cap deleted) = 0
      BY <3>1, FS_EmptySet
    <3> QED
      BY <2>3, <3>2, <3>3, <3>4
  <2>14. /\ Cardinality(Tried(o) \cup deleted) <= Cardinality(Tried(o)')
         /\ Cardinality(Tried(o)') \in Nat
    <3>1. Tried(o) \cup deleted \subseteq Tried(o)'
      BY <2>10, <2>11
    <3> QED
      BY <3>1, TriedFiniteNext, FS_Subset
  <2>15. OK(o)'
    <3>. DEFINE T == Cardinality(Tried(o))
                T1 == Cardinality(Tried(o)')
                d == Cardinality(deleted)
    <3>1. ops[o].completed - ops[o].failed <= T
      BY <1>0
    <3>2. /\ T \in Nat /\ T1 \in Nat /\ d \in Nat /\ T + d <= T1
          /\ n \in Nat /\ k \in Nat /\ n - k <= d
      BY <2>3, <2>13, <2>14
    <3>. HIDE DEF T, T1, d
    <3>3. ops[o].completed + n - (ops[o].failed + k) <= T1
      BY <2>6, <3>1, <3>2
    <3>4. ops'[o].completed - ops'[o].failed <= T1
      BY <2>5, <2>6, <3>2, <3>3
    <3> QED
      BY <3>4 DEF T1
  <2>16. \A q \in OpIds : q # o => Rests(q)
    BY <2>2, <2>5 DEF Rests
  <2> QED
    BY <1>3, <2>15, <2>16 DEF SuccessInv
<1>8. ASSUME NEW r \in Requests, Register(r) PROVE SuccessInv'
  <2>1. PICK o \in OpIds : Registers(o, r)
    BY <1>8, RegisterRegisters
  <2>2. UNCHANGED worker
    BY <1>8 DEF Register
  <2>3. OK(o)'
    BY <1>2, <2>1 DEF Registers
  <2>4. \A q \in OpIds : q # o => Rests(q)
    BY <2>1, <2>2 DEF Registers, Rests
  <2> QED
    BY <1>3, <2>3, <2>4 DEF SuccessInv
<1>9. ASSUME NEW o \in OpIds, OpStep(o) \/ Tick(o), ~DeleteBatch(o) PROVE SuccessInv'
  <2>1. OpEffect(o) /\ UNCHANGED worker
    BY <1>9, OpEffects
  <2>2. ops[o].step # "request"
    BY <1>9
    DEF OpStep, Resolve, CloseJobs, WorkersDone, FinishBulkOp, NextBatch, Tick, TickerRuns
  <2> QED
    BY <1>6, <2>1, <2>2
<1>10. ASSUME NEW c \in Callers, CancelReturns(c) \/ \E o \in OpIds : Cancel(c, o)
       PROVE  SuccessInv'
  <2>1. PICK o \in OpIds : Marks(o) /\ UNCHANGED worker
    BY <1>10, FlagMarks DEF CancelReturns, Cancel, ShapeInv, CallInv
  <2>2. OpEffect(o)
    BY <2>1 DEF OpEffect
  <2> QED
    BY <1>6, <2>1, <2>2
<1>11. ASSUME NEW c \in Callers,
              \/ RenameDelete(c)
              \/ \E r \in Renames : RenameCopy(c, r[1], r[2])
              \/ \E d \in Folders : CreateFolder(c, d)
              \/ \E l \in Locations : UpdateMetadata(c, l)
       PROVE  SuccessInv'
  BY <1>4, <1>11 DEF RenameDelete, RenameCopy, CreateFolder, UpdateMetadata
<1>12. CASE UNCHANGED vars
  BY <1>4, <1>12 DEF vars
<1> QED
  BY <1>5, <1>7, <1>8, <1>9, <1>10, <1>11, <1>12 DEF Next, CopyObjects, MoveObjects, DeleteObjects

-----------------------------------------------------------------------------
(* The invariant, and what follows from it *)

LEMMA InitControl == ASSUME Init PROVE ControlInv
<1>0. /\ \A o \in OpIds : ops[o] = NotStarted
      /\ \A o \in OpIds : \A w \in Workers : worker[o][w] = Outside
      /\ \A c \in Callers : call[c] = Idle
      /\ nextID = 0 /\ calls = 0 /\ faults = 0
  BY DEF Init
<1>1. NotStarted \in Operation /\ Outside \in Worker
  BY DEF NotStarted, Operation, Steps, Outside, Worker
<1>2. /\ NotStarted.type = "none" /\ NotStarted.step = "none" /\ NotStarted.feed = 1
      /\ NotStarted.completed = 0 /\ NotStarted.failed = 0 /\ ~NotStarted.closed
      /\ NotStarted.shown = "none" /\ NotStarted.keys = <<>> /\ Len(NotStarted.keys) = 0
  BY NoData DEF NotStarted
<1>3. /\ Outside.pc = "check" /\ Outside.key = NoLocation
      /\ Idle.step = "idle" /\ "check" \notin Requested
  BY DEF Outside, Idle, Requested
<1>4. ShapeInv
  BY <1>1, <1>3 DEF Init, ShapeInv, CallInv, Idle
<1>5. LimitInv
  BY <1>0, BulkConstants DEF LimitInv
<1>6. RequestInv
  BY <1>0, <1>2, <1>3 DEF RequestInv, Shown
<1>7. CountInv
  <2>1. \A o \in OpIds : Busy(o) = {} /\ Total(o) = 0
    BY <1>0, <1>2, <1>3 DEF Busy, Total
  <2>2. Cardinality({}) = 0
    BY FS_EmptySet
  <2>3. ASSUME NEW o \in OpIds PROVE CountOK(o)
    <3>1. /\ ops[o].feed = 1 /\ ops[o].completed = 0 /\ ops[o].failed = 0 /\ Total(o) = 0
          /\ Cardinality(Busy(o)) = 0
      BY <1>0, <1>2, <2>1, <2>2
    <3> QED
      BY <3>1 DEF CountOK
  <2>4. \A o \in OpIds : ExitOK(o) /\ HeldOK(o)
    BY <1>0, <1>2, <1>3 DEF ExitOK, HeldOK
  <2> QED
    BY <2>3, <2>4, CountParts
<1>8. FinalInv
  BY <1>0, <1>2 DEF FinalInv
<1> QED
  BY <1>4, <1>5, <1>6, <1>7, <1>8 DEF ControlInv

LEMMA InitData == ASSUME Apart, Init PROVE BulkInv
<1>0. /\ \A o \in OpIds : ops[o] = NotStarted
      /\ \A o \in OpIds : \A w \in Workers : worker[o][w] = Outside
      /\ \A c \in Callers : call[c] = Idle
      /\ uploads = {}
      /\ \A l \in Locations :
          store[l] = IF l \in Stored THEN [data |-> l, meta |-> "own"] ELSE NoObject
      /\ Stored \subseteq Locations /\ NoObject \notin Object
  BY BulkConstants DEF Init
<1>1. /\ Outside.pc = "check" /\ Outside.key = NoLocation /\ Idle.step = "idle"
      /\ NotStarted.completed = 0 /\ NotStarted.failed = 0
  BY DEF Outside, Idle, NotStarted
<1>2. HeldInv
  BY <1>0, <1>1 DEF HeldInv
<1>3. UploadInv
  BY <1>0, <1>1 DEF UploadInv, InParts
<1>4. \A l \in Stored : [data |-> l, meta |-> "own"] \in Object
  BY DEF Object, Data
<1>5. \A l \in Locations : Present(l) <=> l \in Stored
  BY <1>0, <1>4 DEF Present
<1>6. DataInv
  <2>1. store \in [Locations -> Object \cup {NoObject}]
    BY <1>4 DEF Init
  <2>2. ASSUME NEW l \in Stored PROVE store[l].data = l /\ store[l].meta # "none"
    <3>1. store[l] = [data |-> l, meta |-> "own"]
      BY <1>0
    <3> QED
      BY <3>1
  <2>3. \A l \in Locations : \A m \in Targets(l) : m \in Locations /\ m \notin Stored
    BY TargetsApart
  <2> QED
    BY <1>5, <2>1, <2>2, <2>3 DEF DataInv
<1>7. KeptInv
  BY <1>0, <1>1, <1>5 DEF KeptInv, InParts
<1>8. SuccessInv
  <2>1. \A o \in OpIds : Cardinality(Tried(o)) \in Nat
    BY InitControl, TriedFinite DEF ControlInv
  <2> QED
    BY <1>0, <1>1, <2>1 DEF SuccessInv
<1> QED
  BY <1>2, <1>3, <1>6, <1>7, <1>8 DEF BulkInv

LEMMA NextControl == ASSUME ControlInv, [Next]_vars PROVE ControlInv'
<1>1. nextID \in Nat
  BY DEF ControlInv, LimitInv
<1>2. Effect
  BY <1>1, NextEffect DEF ControlInv
<1>3. ShapeInv'
  BY <1>1, <1>2, ShapeStep, CallStep DEF ControlInv, ShapeInv
<1>4. LimitInv' /\ RequestInv' /\ CountInv' /\ FinalInv'
  BY <1>2, LimitStep, RequestStep, CountStep, FinalStep DEF ControlInv
<1> QED
  BY <1>3, <1>4 DEF ControlInv

LEMMA NextData == ASSUME Apart, ControlInv, BulkInv, [Next]_vars PROVE BulkInv'
<1>1. Effect /\ StoreEffect /\ ControlInv'
  BY NextEffect, StoreEffects, NextControl DEF ControlInv, BulkInv, LimitInv
<1>2. HeldInv' /\ DataInv'
  BY <1>1, AloneStep, DataStep DEF ControlInv, BulkInv
<1>3. UploadInv'
  BY UploadStep DEF ControlInv, BulkInv
<1>4. KeptInv'
  BY KeptStep DEF ControlInv, BulkInv
<1>5. SuccessInv'
  BY <1>1, SuccessStep DEF ControlInv, BulkInv
<1> QED
  BY <1>2, <1>3, <1>4, <1>5 DEF BulkInv

LEMMA ControlInvAlways == MCSpec => []ControlInv
BY SpecIsBulk, InitControl, NextControl, PTL DEF Spec

LEMMA BulkInvAlways == ASSUME Apart PROVE MCSpec => [](ControlInv /\ BulkInv)
<1>1. Init => ControlInv /\ BulkInv
  BY InitControl, InitData
<1>2. ControlInv /\ BulkInv /\ [Next]_vars => (ControlInv /\ BulkInv)'
  BY NextControl, NextData
<1> QED
  BY <1>1, <1>2, SpecIsBulk, PTL DEF Spec

\* runCopyOrMove, runDeleteObjects and finishBulkOp: an operation that has said its final
\* word says nothing more, whatever its requests and the calls that race with it.
THEOREM FinalIsLastAlways == MCSpec => FinalIsLast
<1>1. ASSUME ControlInv, [Next]_vars, NEW o \in OpIds, Shown(o) PROVE ops'[o].shown = ops[o].shown
  <2>1. ops[o].step \in {"finish", "ended"} /\ Effect
    BY <1>1, NextEffect DEF ControlInv, RequestInv, LimitInv
  <2>2. ASSUME NEW q \in OpIds, NEW w \in Workers, WorkerEffect(q, w)
        PROVE  ops'[o].shown = ops[o].shown
    BY <2>2 DEF WorkerEffect, Takes, Counts, SameSteps
  <2>3. ASSUME NEW q \in OpIds, OpEffect(q) PROVE ops'[o].shown = ops[o].shown
    BY <2>1, <2>3 DEF OpEffect, Marks, Refuses, Sets, Passes, Deletes, Changes
  <2>4. ASSUME NEW q \in OpIds, NEW r \in Requests, Registers(q, r)
        PROVE  ops'[o].shown = ops[o].shown
    BY <2>1, <2>4 DEF Registers
  <2> QED
    BY <2>1, <2>2, <2>3, <2>4 DEF Effect
<1>2. ControlInv /\ [Next]_vars => [\A o \in OpIds : Shown(o) => ops'[o].shown = ops[o].shown]_vars
  BY <1>1
<1> QED
  BY <1>2, SpecIsBulk, ControlInvAlways, PTL DEF Spec, FinalIsLast

\* copyOneObject copies before it deletes, and so does RenameObject: whatever fails and
\* whatever is cancelled, an object that no delete names is at its source or at a target.
THEOREM NothingIsLostAlways == ASSUME Apart PROVE MCSpec => []NothingIsLost
<1>1. ASSUME BulkInv PROVE NothingIsLost
  <2> SUFFICES ASSUME NEW l \in Stored \ Doomed
               PROVE  \E m \in Locations : Present(m) /\ store[m].data = l
    BY DEF NothingIsLost
  <2>1. l \in Locations
    BY BulkConstants
  <2>2. CASE Present(l)
    BY <1>1, <2>1, <2>2 DEF BulkInv, DataInv
  <2>3. ASSUME NEW m \in Targets(l), Present(m) PROVE m \in Locations /\ store[m].data = l
    BY <1>1, <2>1, <2>3 DEF BulkInv, DataInv, Targets
  <2> QED
    BY <1>1, <2>2, <2>3 DEF BulkInv, KeptInv
<1> QED
  BY <1>1, BulkInvAlways, PTL

LEMMA TypesHold == ASSUME ControlInv, BulkInv PROVE TypeOK
<1>1. store \in [Locations -> Object \cup {NoObject}]
  BY DEF BulkInv, DataInv
<1>2. \A u \in uploads : /\ u.id \in 1 .. nextID /\ u.orphan \in BOOLEAN
                         /\ u.got \in Seq(Data) /\ Len(u.got) <= Parts
  BY DEF BulkInv, UploadInv
<1>3. ASSUME NEW o \in OpIds
      PROVE  /\ ops[o].step \in {"none", "resolve", "pool", "batch", "request", "finish", "ended"}
             /\ ops[o].shown \in {"none", "running", "completed", "cancelled"}
             /\ ops[o].feed \in 1 .. Len(ops[o].keys) + 1
             /\ 0 <= ops[o].failed /\ ops[o].failed <= ops[o].completed
             /\ ops[o].completed <= Len(ops[o].keys)
  <2>1. ops[o] \in Operation /\ CountInv
    BY DEF ControlInv, ShapeInv
  <2> QED
    BY <2>1 DEF Operation, Steps, CountInv, Total
<1>4. ASSUME NEW o \in OpIds, NEW w \in Workers
      PROVE  /\ worker[o][w].pc \in Requested \cup {"check", "receive", "exit"}
             /\ (worker[o][w].pc \in Requested) = (worker[o][w].key # NoLocation)
  <2>1. worker[o][w] \in Worker
    BY DEF ControlInv, ShapeInv
  <2> QED
    BY <2>1 DEF Worker, ControlInv, RequestInv
<1>5. \A c \in Callers : call[c].step \in {"idle", "wait", "rename"}
  BY DEF ControlInv, ShapeInv, CallInv
<1> QED
  BY <1>1, <1>2, <1>3, <1>4, <1>5 DEF TypeOK, ControlInv, LimitInv

LEMMA CountsAreReal ==
    ASSUME ControlInv, BulkInv, NEW o \in OpIds
    PROVE  ops[o].completed - ops[o].failed <= Cardinality({i \in 1 .. Total(o) : Done(o, i)})
<1>. DEFINE n == Total(o)
            D == {i \in 1 .. n : Done(o, i)}
<1>1. ops[o] \in Operation /\ n \in Nat /\ ops[o].feed <= n + 1 /\ ops[o].feed \in Nat
  BY DEF ControlInv, ShapeInv, CountInv, Operation, Total
<1>2. Tried(o) \subseteq D
  BY <1>1 DEF Tried
<1>. HIDE DEF n
<1>3. D \subseteq 1 .. n
  OBVIOUS
<1>4. IsFiniteSet(D)
  <2>1. IsFiniteSet(1 .. n)
    BY <1>1, FS_Interval
  <2> QED
    BY <1>3, <2>1, FS_Subset
<1>. HIDE DEF D
<1>5. /\ Cardinality(Tried(o)) <= Cardinality(D)
      /\ Cardinality(D) \in Nat /\ Cardinality(Tried(o)) \in Nat
  BY <1>2, <1>4, FS_Subset, FS_CardinalityType
<1>6. /\ ops[o].completed - ops[o].failed <= Cardinality(Tried(o))
      /\ ops[o].completed \in Nat /\ ops[o].failed \in Nat
  BY <1>1 DEF BulkInv, SuccessInv, Operation
<1>7. ops[o].completed - ops[o].failed <= Cardinality(D)
  BY <1>5, <1>6
<1> QED
  BY <1>7 DEF D, n

LEMMA OnlyOrphansAreLeft ==
    ASSUME ControlInv, BulkInv, \A o \in OpIds : ~Started(o) \/ Shown(o)
    PROVE  \A u \in uploads : u.orphan
<1>1. ASSUME NEW u \in uploads, ~u.orphan PROVE FALSE
  <2>1. PICK o \in OpIds, w \in Workers : InParts(o, w)
    BY <1>1 DEF BulkInv, UploadInv
  <2>2. worker[o][w].pc \in Requested
    BY <2>1 DEF InParts, Requested
  <2>3. ops[o].step = "pool"
    BY <2>2 DEF ControlInv, RequestInv
  <2>4. ops[o].step \in {"finish", "ended", "none"}
    BY DEF ControlInv, RequestInv, Started
  <2> QED
    BY <2>3, <2>4
<1> QED
  BY <1>1

\* The final event and the task's status say what happened: its counts add up, a key that
\* counts as a success was copied, moved or deleted as asked, an upload that is left on the
\* server is one whose creation, abort or completion had failed, and a task recorded as
\* completed has stored its copy.
THEOREM ReportsAreTrueAlways == ASSUME Apart PROVE MCSpec => []ReportsAreTrue
<1>1. ASSUME ControlInv, BulkInv, CrossInv PROVE ReportsAreTrue
  <2>1. TypeOK
    BY <1>1, TypesHold
  <2>2. FinalCountsAreExact
    BY <1>1 DEF FinalCountsAreExact, ControlInv, FinalInv, RequestInv
  <2>3. SuccessIsReal
    BY <1>1, CountsAreReal DEF SuccessIsReal
  <2>4. NoUploadLeft
    BY <1>1, OnlyOrphansAreLeft DEF NoUploadLeft
  <2>5. X!TypeOK
    BY <1>1 DEF CrossInv
  <2>6. X!CompletedIsCopied
    BY <1>1 DEF CrossInv, StoredInv, CopyStored, X!CompletedIsCopied
  <2> QED
    BY <2>1, <2>2, <2>3, <2>4, <2>5, <2>6 DEF ReportsAreTrue
<1> QED
  BY <1>1, BulkInvAlways, CrossInvAlways, PTL

=============================================================================
