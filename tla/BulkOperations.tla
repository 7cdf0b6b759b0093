--------------------------- MODULE BulkOperations ---------------------------
(***************************************************************************)
(* Bulk copy, move and delete of objects (filemanager: copymove.go,        *)
(* copylarge.go, delete.go, bulkops.go), with the single-object calls      *)
(* RenameObject, CreateFolder and UpdateMetadata beside them.              *)
(*                                                                         *)
(* A location is a folder (bucket and prefix) and the last part of a key.  *)
(* An object is its data and its metadata; the data is named by the        *)
(* location it was first stored at.  Objects in Large exceed               *)
(* maxSingleCopySize.  Every request is answered, takes effect although    *)
(* its answer is lost, or fails; WithRetry may repeat it.  An operation    *)
(* has a feeder, a pool of workers, a progress ticker and the goroutine    *)
(* that waits for them; a call refused at once (no keys, locked) changes   *)
(* nothing and is left out.  The object store is external.                 *)
(***************************************************************************)
EXTENDS Integers, Sequences, FiniteSets

CONSTANTS
    Folders, Names,
    Marker,                \* the name of a folder's placeholder object
    Stored,                \* the locations that hold an object at first
    Large,                 \* those whose object is too large for CopyObject
    Requests,              \* what the frontend asks for: [type, keys, dest]
    Renames,               \* and what it renames: pairs of locations
    Workers,               \* copyMoveWorkerCount of them
    Callers,
    deleteObjectsBatchSize,
    Parts,                 \* of a multipart copy
    Empty, Torn,           \* the data of a placeholder; parts of several objects
    NoLocation, NoObject,
    MaxOps, MaxCalls, MaxFaults      \* bounds

Locations == Folders \X (Names \cup {Marker})
Data == Stored \cup {Empty, Torn}
Object == [data: Data, meta: {"own", "none", "edited"}]
OpIds == 1 .. MaxOps

ASSUME BulkAssumption ==
    /\ Stored \subseteq Locations /\ Large \subseteq Stored /\ NoLocation \notin Locations
    /\ NoObject \notin Object
    /\ \A r \in Requests : /\ r.type \in {"copy", "move", "delete"} /\ r.dest \in Folders
                           /\ r.keys \in Seq(Locations) /\ r.keys # <<>>
    /\ Renames \subseteq Locations \X Locations
    /\ Workers # {} /\ IsFiniteSet(Workers)
    /\ deleteObjectsBatchSize \in Nat \ {0} /\ Parts \in Nat \ {0}
    /\ MaxOps \in Nat /\ MaxCalls \in Nat /\ MaxFaults \in Nat

VARIABLES
    store,                 \* the object at every location
    uploads,               \* open multipart uploads: id, the data of their parts, and as
                           \* history whether the program is done with it (orphan)
    ops,                   \* the operations
    worker,                \* the workers of every operation
    call,                  \* what every caller waits for
    nextID, calls, faults  \* counters; faults are lost answers and failed aborts

vars == <<store, uploads, ops, worker, call, nextID, calls, faults>>

NotStarted == [type |-> "none", keys |-> <<>>, dest |-> CHOOSE f \in Folders : TRUE,
               step |-> "none", cancelled |-> FALSE, feed |-> 1, closed |-> FALSE,
               completed |-> 0, failed |-> 0, shown |-> "none", answered |-> FALSE]
Outside == [pc |-> "check", key |-> NoLocation, upload |-> 0]
Idle == [step |-> "idle", op |-> 0, key |-> NoLocation]

Requested == {"head", "copy", "create", "parts", "abort", "complete", "delete"}

TypeOK ==
    /\ store \in [Locations -> Object \cup {NoObject}]
    /\ \A u \in uploads : /\ u.id \in 1 .. nextID /\ u.orphan \in BOOLEAN
                          /\ u.got \in Seq(Data) /\ Len(u.got) <= Parts
    /\ \A o \in OpIds :
         /\ ops[o].step \in {"none", "resolve", "pool", "batch", "request", "finish", "ended"}
         /\ ops[o].shown \in {"none", "running", "completed", "cancelled"}
         /\ ops[o].feed \in 1 .. Len(ops[o].keys) + 1
         /\ 0 <= ops[o].failed /\ ops[o].failed <= ops[o].completed
         /\ ops[o].completed <= Len(ops[o].keys)
         /\ \A w \in Workers :
              /\ worker[o][w].pc \in Requested \cup {"check", "receive", "exit"}
              /\ (worker[o][w].pc \in Requested) = (worker[o][w].key # NoLocation)
    /\ \A c \in Callers : call[c].step \in {"idle", "wait", "rename"}
    /\ nextID \in Nat /\ calls \in 0 .. MaxCalls /\ faults \in 0 .. MaxFaults

Init ==
    /\ store = [l \in Locations |->
                  IF l \in Stored THEN [data |-> l, meta |-> "own"] ELSE NoObject]
    /\ uploads = {}
    /\ ops = [o \in OpIds |-> NotStarted]
    /\ worker = [o \in OpIds |-> [w \in Workers |-> Outside]]
    /\ call = [c \in Callers |-> Idle]
    /\ nextID = 0 /\ calls = 0 /\ faults = 0

Present(l) == store[l] # NoObject
Fault == faults < MaxFaults /\ faults' = faults + 1
Total(o) == Len(ops[o].keys)
SetOp(o, step, shown) == ops' = [ops EXCEPT ![o].step = step, ![o].shown = shown]

-----------------------------------------------------------------------------
(* One operation: CopyObjects, MoveObjects, DeleteObjects *)

\* registerBulkOp, and the goroutine starts.
Register(r) ==
    /\ \E o \in OpIds :
         /\ ops[o].step = "none" /\ \A p \in OpIds : p < o => ops[p].step # "none"
         /\ ops' = [ops EXCEPT ![o] = [NotStarted EXCEPT !.type = r.type, !.keys = r.keys,
                                                         !.dest = r.dest, !.step = "resolve"]]
    /\ UNCHANGED <<store, uploads, worker, call, nextID, calls, faults>>

CopyObjects == \E r \in Requests : r.type = "copy" /\ Register(r)
MoveObjects == \E r \in Requests : r.type = "move" /\ Register(r)
DeleteObjects == \E r \in Requests : r.type = "delete" /\ Register(r)

\* resolveBulkClients: without clients every key counts as failed.
Resolve(o) ==
    /\ ops[o].step = "resolve"
    /\ \/ SetOp(o, IF ops[o].type = "delete" THEN "batch" ELSE "pool", "none")
       \/ ops' = [ops EXCEPT ![o].step = "finish", ![o].shown = "completed",
                             ![o].completed = Total(o), ![o].failed = Total(o)]
    /\ UNCHANGED <<store, uploads, worker, call, nextID, calls, faults>>

\* A fault: the final event does not wait for the ticker.
TickerOutlives(o) == ops[o].step \in {"pool", "finish"}

\* The ticker runs until the workers are done.
TickerRuns(o) == ops[o].step = "pool"

Tick(o) ==
    /\ TickerRuns(o)
    /\ ops' = [ops EXCEPT ![o].shown = "running"]
    /\ UNCHANGED <<store, uploads, worker, call, nextID, calls, faults>>

\* The feeder stops after the last key or when cancelled, and closes jobs.
CloseJobs(o) ==
    /\ ops[o].step = "pool" /\ ~ops[o].closed
    /\ ops[o].feed > Total(o) \/ ops[o].cancelled
    /\ ops' = [ops EXCEPT ![o].closed = TRUE]
    /\ UNCHANGED <<store, uploads, worker, call, nextID, calls, faults>>

Status(o) == IF ops[o].cancelled THEN "cancelled" ELSE "completed"

\* workersWG.Wait() returns: the final event.
WorkersDone(o) ==
    /\ ops[o].step = "pool" /\ \A w \in Workers : worker[o][w].pc = "exit"
    /\ SetOp(o, "finish", Status(o))
    /\ UNCHANGED <<store, uploads, worker, call, nextID, calls, faults>>

\* finishBulkOp leaves running and closes done.
FinishBulkOp(o) ==
    /\ ops[o].step = "finish"
    /\ ops' = [ops EXCEPT ![o].step = "ended"]
    /\ UNCHANGED <<store, uploads, worker, call, nextID, calls, faults>>

-----------------------------------------------------------------------------
(* A worker of runCopyOrMove *)

At(o, w, pc) == ops[o].step = "pool" /\ worker[o][w].pc = pc
Goto(o, w, pc) == worker' = [worker EXCEPT ![o][w].pc = pc]
Source(o, w) == worker[o][w].key
Dest(o, w) == <<ops[o].dest, worker[o][w].key[2]>>

CheckCancelled(o, w) ==
    /\ At(o, w, "check")
    /\ Goto(o, w, IF ops[o].cancelled THEN "exit" ELSE "receive")
    /\ UNCHANGED <<store, uploads, ops, call, nextID, calls, faults>>

\* A key, although the operation may have been cancelled since the check ...
Receive(o, w) ==
    /\ At(o, w, "receive") /\ ~ops[o].closed /\ ops[o].feed <= Total(o)
    /\ worker' = [worker EXCEPT ![o][w] = [pc |-> "head", key |-> ops[o].keys[ops[o].feed],
                                           upload |-> 0]]
    /\ ops' = [ops EXCEPT ![o].feed = @ + 1]
    /\ UNCHANGED <<store, uploads, call, nextID, calls, faults>>

\* ... or the end of the jobs.
NoMoreJobs(o, w) ==
    /\ At(o, w, "receive") /\ ops[o].closed
    /\ Goto(o, w, "exit")
    /\ UNCHANGED <<store, uploads, ops, call, nextID, calls, faults>>

\* copyOneObject returns.
Count(o, w, ok) ==
    /\ ops' = [ops EXCEPT ![o].completed = @ + 1, ![o].failed = IF ok THEN @ ELSE @ + 1]
    /\ worker' = [worker EXCEPT ![o][w] = Outside]

\* A copy is done: a move goes on to delete the source.
Copied(o, w) ==
    IF ops[o].type = "move" THEN Goto(o, w, "delete") /\ UNCHANGED ops ELSE Count(o, w, TRUE)

\* A request that took effect without an answer: it is repeated, or WithRetry gives up.
Unanswered(o, w) ==
    /\ Fault
    /\ \/ UNCHANGED <<ops, worker>>
       \/ Count(o, w, FALSE)

\* A fault: the source is deleted as soon as it is known to exist.
HeadThenDelete(o, w) ==
    /\ At(o, w, "head") /\ Present(Source(o, w))
    /\ Goto(o, w, IF ops[o].type = "move" THEN "delete" ELSE "copy")
    /\ UNCHANGED <<store, uploads, ops, call, nextID, calls, faults>>

HeadObject(o, w) ==
    /\ At(o, w, "head") /\ Present(Source(o, w))
    /\ Goto(o, w, IF store[Source(o, w)].data \in Large THEN "create" ELSE "copy")
    /\ UNCHANGED <<store, uploads, ops, call, nextID, calls, faults>>

\* A request that fails: the key has failed, except that a failed part aborts the
\* multipart upload first.
RequestFails(o, w) ==
    /\ ops[o].step = "pool" /\ worker[o][w].pc \in Requested \ {"abort", "complete"}
    /\ IF worker[o][w].pc = "parts" THEN Goto(o, w, "abort") /\ UNCHANGED ops
       ELSE Count(o, w, FALSE)
    /\ UNCHANGED <<store, uploads, call, nextID, calls, faults>>

\* S3 copies neither an object that is too large nor one onto itself.
CopyAllowed(from, to) == Present(from) /\ store[from].data \notin Large /\ from # to

CopyObject(o, w) ==
    /\ At(o, w, "copy") /\ CopyAllowed(Source(o, w), Dest(o, w))
    /\ store' = [store EXCEPT ![Dest(o, w)] = store[Source(o, w)]]
    /\ \/ Copied(o, w) /\ UNCHANGED faults
       \/ Unanswered(o, w)
    /\ UNCHANGED <<uploads, call, nextID, calls>>

\* createLargeObjectCopyUpload; an upload whose id is lost stays on the server.
CreateUpload(o, w) ==
    /\ At(o, w, "create")
    /\ nextID' = nextID + 1
    /\ \E lost \in BOOLEAN :
         /\ uploads' = uploads \cup {[id |-> nextID', got |-> <<>>, orphan |-> lost]}
         /\ \/ /\ ~lost
               /\ worker' = [worker EXCEPT ![o][w].pc = "parts", ![o][w].upload = nextID']
               /\ UNCHANGED <<ops, faults>>
            \/ lost /\ Unanswered(o, w)
    /\ UNCHANGED <<store, call, calls>>

Upload(o, w) == CHOOSE u \in uploads : u.id = worker[o][w].upload
Closed(o, w) == uploads \ {Upload(o, w)}
Orphaned(o, w) == Closed(o, w) \cup {[Upload(o, w) EXCEPT !.orphan = TRUE]}

\* uploadPartCopy copies a range of what the source holds at that moment.
UploadPartCopy(o, w) ==
    /\ At(o, w, "parts") /\ Present(Source(o, w)) /\ Len(Upload(o, w).got) < Parts
    /\ uploads' = Closed(o, w) \cup
                    {[Upload(o, w) EXCEPT !.got = Append(@, store[Source(o, w)].data)]}
    /\ Goto(o, w, IF Len(Upload(o, w).got) + 1 = Parts THEN "complete" ELSE "parts")
    /\ UNCHANGED <<store, ops, call, nextID, calls, faults>>

Assembled(got) == IF \A i \in 1 .. Len(got) : got[i] = got[1] THEN got[1] ELSE Torn

\* AbortMultipartUpload, best effort.
Abort(o, w) ==
    /\ At(o, w, "abort")
    /\ \/ uploads' = Closed(o, w) /\ UNCHANGED faults
       \/ Fault /\ uploads' = Orphaned(o, w)
    /\ Count(o, w, FALSE)
    /\ UNCHANGED <<store, call, nextID, calls>>

\* completeLargeObjectCopy.  One that fails, or that a cancellation cuts off, leaves the
\* upload as it is: nothing aborts it.
CompleteUpload(o, w) ==
    /\ At(o, w, "complete")
    /\ \/ /\ store' = [store EXCEPT ![Dest(o, w)] =
                         [data |-> Assembled(Upload(o, w).got), meta |-> "none"]]
          /\ uploads' = Closed(o, w)
          /\ \/ Copied(o, w) /\ UNCHANGED faults
             \/ Fault /\ Count(o, w, FALSE)
       \/ uploads' = Orphaned(o, w) /\ Count(o, w, FALSE) /\ UNCHANGED <<store, faults>>
    /\ UNCHANGED <<call, nextID, calls>>

DeleteSource(o, w) ==
    /\ At(o, w, "delete")
    /\ store' = [store EXCEPT ![Source(o, w)] = NoObject]
    /\ \/ Count(o, w, TRUE) /\ UNCHANGED faults
       \/ Unanswered(o, w)
    /\ UNCHANGED <<uploads, call, nextID, calls>>

-----------------------------------------------------------------------------
(* runDeleteObjects *)

Batch(o) == LET last == ops[o].feed + deleteObjectsBatchSize - 1
            IN ops[o].feed .. (IF last < Total(o) THEN last ELSE Total(o))

\* Between batches: the end, a cancellation, or the next request.
NextBatch(o) ==
    /\ ops[o].step = "batch"
    /\ IF ops[o].feed > Total(o) THEN SetOp(o, "finish", "completed")
       ELSE IF ops[o].cancelled THEN SetOp(o, "finish", "cancelled")
       ELSE SetOp(o, "request", ops[o].shown)
    /\ UNCHANGED <<store, uploads, worker, call, nextID, calls, faults>>

\* A fault: a request without an answer counts no failures.
UnansweredIsSuccess(o, deleted, answered) ==
    IF answered THEN Cardinality(Batch(o)) - Cardinality(deleted) ELSE 0

\* The keys to count as failed: those S3 names in its answer, or all without one.
Failures(o, deleted, answered) ==
    IF answered THEN Cardinality(Batch(o)) - Cardinality(deleted) ELSE Cardinality(Batch(o))

\* DeleteObjects deletes some keys of the batch and its answer says which, or is lost.
DeleteBatch(o) ==
    /\ ops[o].step = "request"
    /\ \E deleted \in SUBSET Batch(o), answered \in BOOLEAN :
         /\ store' = [l \in Locations |-> IF \E i \in deleted : ops[o].keys[i] = l
                                          THEN NoObject ELSE store[l]]
         /\ ops' = [ops EXCEPT ![o].step = "batch", ![o].shown = "running",
                               ![o].feed = @ + Cardinality(Batch(o)),
                               ![o].completed = @ + Cardinality(Batch(o)),
                               ![o].failed = @ + Failures(o, deleted, answered)]
    /\ UNCHANGED <<uploads, worker, call, nextID, calls, faults>>

-----------------------------------------------------------------------------
(* Calls *)

Begin(c) == call[c] = Idle /\ calls < MaxCalls /\ calls' = calls + 1

\* CancelBulkOperation finds the operation in running, cancels it ...
Cancel(c, o) ==
    /\ Begin(c) /\ ops[o].step \notin {"none", "ended"}
    /\ ops' = [ops EXCEPT ![o].cancelled = TRUE]
    /\ call' = [call EXCEPT ![c] = [step |-> "wait", op |-> o, key |-> NoLocation]]
    /\ UNCHANGED <<store, uploads, worker, nextID, faults>>

\* ... and returns without error when it has ended.
CancelReturns(c) ==
    /\ call[c].step = "wait" /\ ops[call[c].op].step = "ended"
    /\ ops' = [ops EXCEPT ![call[c].op].answered = TRUE]
    /\ call' = [call EXCEPT ![c] = Idle]
    /\ UNCHANGED <<store, uploads, worker, nextID, calls, faults>>

\* RenameObject copies, and then deletes the old key.
RenameCopy(c, from, to) ==
    /\ Begin(c) /\ CopyAllowed(from, to)
    /\ store' = [store EXCEPT ![to] = store[from]]
    /\ \/ call' = [call EXCEPT ![c] = [step |-> "rename", op |-> 0, key |-> from]]
       \/ UNCHANGED call
    /\ UNCHANGED <<uploads, ops, worker, nextID, faults>>

RenameDelete(c) ==
    /\ call[c].step = "rename"
    /\ \/ store' = [store EXCEPT ![call[c].key] = NoObject]
       \/ UNCHANGED store
    /\ call' = [call EXCEPT ![c] = Idle]
    /\ UNCHANGED <<uploads, ops, worker, nextID, calls, faults>>

CreateFolder(c, f) ==
    /\ Begin(c)
    /\ store' = [store EXCEPT ![<<f, Marker>>] = [data |-> Empty, meta |-> "own"]]
    /\ UNCHANGED <<uploads, ops, worker, call, nextID, faults>>

\* A copy onto itself that replaces the metadata.
UpdateMetadata(c, l) ==
    /\ Begin(c) /\ Present(l) /\ store[l].data \notin Large
    /\ store' = [store EXCEPT ![l].meta = "edited"]
    /\ UNCHANGED <<uploads, ops, worker, call, nextID, faults>>

-----------------------------------------------------------------------------

WorkerStep(o, w) ==
    \/ CheckCancelled(o, w) \/ Receive(o, w) \/ NoMoreJobs(o, w)
    \/ HeadObject(o, w) \/ CopyObject(o, w)
    \/ CreateUpload(o, w) \/ UploadPartCopy(o, w) \/ Abort(o, w) \/ CompleteUpload(o, w)
    \/ DeleteSource(o, w) \/ RequestFails(o, w)

OpStep(o) ==
    \/ Resolve(o) \/ CloseJobs(o) \/ WorkersDone(o) \/ FinishBulkOp(o)
    \/ NextBatch(o) \/ DeleteBatch(o)

Next ==
    \/ CopyObjects \/ MoveObjects \/ DeleteObjects
    \/ \E o \in OpIds :
         \/ OpStep(o) \/ Tick(o)
         \/ \E w \in Workers : WorkerStep(o, w)
         \/ \E c \in Callers : Cancel(c, o)
    \/ \E c \in Callers :
         \/ CancelReturns(c) \/ RenameDelete(c)
         \/ \E r \in Renames : RenameCopy(c, r[1], r[2])
         \/ \E f \in Folders : CreateFolder(c, f)
         \/ \E l \in Locations : UpdateMetadata(c, l)

Spec == Init /\ [][Next]_vars

\* Goroutines run, and every request is answered or given up.
FairSpec ==
    /\ Spec
    /\ \A o \in OpIds : WF_vars(OpStep(o)) /\ \A w \in Workers : WF_vars(WorkerStep(o, w))
    /\ \A c \in Callers : WF_vars(CancelReturns(c)) /\ WF_vars(RenameDelete(c))

-----------------------------------------------------------------------------
(* Properties *)

Started(o) == ops[o].step # "none"
Shown(o) == ops[o].shown \in {"completed", "cancelled"}
Doomed == {l \in Locations : \E o \in OpIds : ops[o].type = "delete"
                               /\ \E i \in 1 .. Total(o) : ops[o].keys[i] = l}

\* Whatever is copied, moved, renamed, cancelled or fails in whatever order: an object
\* that nobody deletes is somewhere, at its source or at a destination (the ordering
\* argument of copyOneObject).
NothingIsLost ==
    \A l \in Stored \ Doomed : \E m \in Locations : Present(m) /\ store[m].data = l

\* The final event accounts for every key: "completed" means that each was tried, by
\* exactly one worker, and "cancelled" is only said of a cancelled operation.
FinalCountsAreExact ==
    \A o \in OpIds : Shown(o) =>
      /\ ops[o].shown = "completed" => ops[o].completed = Total(o)
      /\ ops[o].completed = Total(o) \/ ops[o].completed = ops[o].feed - 1
      /\ ops[o].shown = "cancelled" => ops[o].cancelled

\* Keys counted as moved or deleted are gone from the source, and a moved one is at the
\* destination as it was; more may have happened than was answered, never less.
Done(o, i) ==
    LET l == ops[o].keys[i]   d == <<ops[o].dest, l[2]>> IN
      CASE ops[o].type = "delete" -> ~Present(l)
        [] ops[o].type = "move" -> ~Present(l) /\ Present(d) /\ store[d].data = l
                                   /\ (l \notin Large => store[d].meta # "none")
        [] OTHER -> Present(d) /\ store[d].data = l /\ (l \notin Large => store[d].meta # "none")
SuccessIsReal ==
    \A o \in OpIds : Shown(o) =>
      ops[o].completed - ops[o].failed <= Cardinality({i \in 1 .. Total(o) : Done(o, i)})

\* An operation that has said its final word is quiet: no event follows it and no worker is
\* left.  Nor is a multipart upload that it could still have closed, but one whose creation
\* was not answered, whose abort failed or whose completion did not happen.
FinalIsLast == [][\A o \in OpIds : Shown(o) => ops'[o].shown = ops[o].shown]_vars
NoUploadLeft ==
    (\A o \in OpIds : ~Started(o) \/ Shown(o)) => \A u \in uploads : u.orphan

\* What copyLargeObject's comment says of the abort, that without context.Background() it
\* would be "silently orphaning the server-side MPU on every cancel": that an operation that
\* was cancelled orphans none, when every request is answered and every abort succeeds.
CancelOrphansNoUpload ==
    (\A o \in OpIds : ~Started(o) \/ ops[o].shown = "cancelled") /\ faults = 0 => uploads = {}

\* Every operation ends, and with it every CancelBulkOperation that waits for it.
OperationsEnd == \A o \in OpIds : Started(o) ~> ops[o].step = "ended"
CancelsReturn == \A c \in Callers : call[c].step = "wait" ~> call[c].step # "wait"

\* What CancelBulkOperation says it waits for: the terminal "cancelled" event.
CancelIsReported == \A o \in OpIds : ops[o].answered => ops[o].shown = "cancelled"

=============================================================================
