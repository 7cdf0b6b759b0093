--------------------------- MODULE TransferService ---------------------------
(***************************************************************************)
(* The transfer queue of internal/transfer: TransferService (service.go),  *)
(* its scheduler (dispatch, scheduler.go) and the goroutine that runs a    *)
(* task (runTask, task.go), over the transfer_queue and transfer_history   *)
(* tables (internal/storage).                                              *)
(*                                                                         *)
(* These processes take steps:                                             *)
(*   - Workers: the goroutines startTask spawns, one per started task,     *)
(*     until they close done;                                              *)
(*   - Tails: the same goroutines afterwards, when all that is left of them *)
(*     is the call of dispatch in runTask's deferred function;             *)
(*   - Callers: the goroutines on which Wails runs the bound methods the   *)
(*     frontend calls (QueueUpload, PauseTask, CancelTask, ...);           *)
(*   - Boot: the main goroutine in app.go's newApp, which applies the      *)
(*     settings and reconciles the queue before the frontend can call.     *)
(* A step is one access to shared state: one SQL statement or transaction  *)
(* (storage opens SQLite with a single connection, so these are atomic),   *)
(* one critical section of TransferService.mu, or one channel or context   *)
(* operation.  Values read in one step and used in a later one are kept in *)
(* the process's own variables and may be stale by then.                   *)
(*                                                                         *)
(* Abstracted: paths, sizes, progress and error texts; the transfer itself *)
(* is the choice of what Upload/Download returns; the object store is not  *)
(* part of this module.                                                    *)
(***************************************************************************)
EXTENDS Integers, Sequences, FiniteSets, Functions

CONSTANTS
    Callers, Workers, Tails, Boot,   \* processes
    NoWorker, NoRow,          \* "no such entry" in running, "no such row" in transfer_queue
    Types,                    \* the transfer_queue types in use
    Priorities, Limits,       \* values users give ReorderTask and SetMaxConcurrentTasks
    MaxTasks,                 \* bound on the rows ever created
    MaxCalls,                 \* bound on the calls the frontend makes
    MaxCrashes,               \* bound on the times the process dies
    SettingsFaults            \* whether reading the persisted settings may fail

ASSUME ProcessAssumption ==
    /\ Callers \cap Workers = {}
    /\ Tails \cap (Callers \cup Workers) = {}
    /\ Boot \notin Callers \cup Workers \cup Tails
    /\ NoWorker \notin Workers

ASSUME BoundAssumption ==
    /\ MaxTasks \in Nat
    /\ MaxCalls \in Nat
    /\ MaxCrashes \in Nat
    /\ SettingsFaults \in BOOLEAN

TaskTypes == {"upload", "download", "download_zip", "copy_cross"}

ASSUME DataAssumption ==
    /\ Types \subseteq TaskTypes
    /\ Priorities \subseteq Int /\ 0 \in Priorities
    /\ Limits \subseteq Int

Statuses == {"pending", "running", "paused", "failed"}
Outcomes == {"completed", "cancelled"}
Ids == 1 .. MaxTasks
Row == [status : Statuses, priority : Priorities, type : Types]

ASSUME RowAssumption == NoRow \notin Row

DefaultMaxConcurrentTasks == 2
Procs == Callers \cup Workers \cup Tails \cup {Boot}

VARIABLES
    \* durable, in SQLite
    queue,                \* transfer_queue: id -> row, NoRow when there is none
    history,              \* transfer_history: id -> the outcomes archived under that queue_id
    nextID,               \* the AUTOINCREMENT counter
    \* in memory, guarded by TransferService.mu
    running,              \* TransferService.running: id -> its goroutine, or NoWorker
    maxConcurrentTasks,
    \* per process
    pc,
    task,                 \* the id the process works on
    snap,                 \* the rows its last GetAll returned
    \* per runningTask (one per worker)
    intent,               \* runningTask.intent
    canceled,             \* whether runningTask.cancel has been called
    \* per caller
    rt,                   \* the *runningTask PauseTask or CancelTask holds; NoWorker
                          \* once its done is closed
    \* newApp
    recovered,            \* the ids RecoverOrphanedTasks has reset
    autoResume,           \* settings.AutoResumeQueue
    bootNext,             \* where newApp continues after dispatch returns
    \* history of the run
    cancelAsked,          \* ids some CancelTask was called with
    calls, crashes        \* how much of MaxCalls and MaxCrashes is used

durable == <<queue, history, nextID>>
memory  == <<running, maxConcurrentTasks>>
tasks   == <<intent, canceled>>
booting == <<recovered, autoResume, bootNext>>
counted == <<calls, crashes>>
vars == <<durable, memory, pc, task, snap, tasks, rt, booting, cancelAsked, counted>>

NoTask == 0
NoRows == [id \in Ids |-> NoRow]

\* A worker that has an entry in TransferService.running.
Live == {"started", "transferring", "succeeded", "failed", "canceled",
         "cancelling", "pausing", "exiting"}
Dispatching == {"dispatch", "admit"}
CallerPCs == {"idle", "copying", "pause_lookup", "pause_signal", "pause_wait", "pause_read",
              "pause_write", "cancel_signal", "cancel_wait", "cancel_read", "cancel_archive",
              "resume_write", "retry_write"} \cup Dispatching
WorkerPCs == {"free"} \cup Live
TailPCs == {"free"} \cup Dispatching
BootPCs == {"apply", "recover_list", "recover", "autoresume", "resume_write", "up"}
             \cup Dispatching

TypeOK ==
    /\ queue \in [Ids -> Row \cup {NoRow}]
    /\ history \in [Ids -> Seq(Outcomes)]
    /\ nextID \in 1 .. MaxTasks + 1
    /\ running \in [Ids -> Workers \cup {NoWorker}]
    /\ maxConcurrentTasks \in Nat \ {0}
    /\ pc \in [Procs -> CallerPCs \cup WorkerPCs \cup TailPCs \cup BootPCs]
    /\ \A c \in Callers : pc[c] \in CallerPCs
    /\ \A w \in Workers : pc[w] \in WorkerPCs
    /\ \A d \in Tails : pc[d] \in TailPCs
    /\ pc[Boot] \in BootPCs
    /\ task \in [Procs -> Ids \cup {NoTask}]
    /\ snap \in [Procs -> [Ids -> Row \cup {NoRow}]]
    /\ intent \in [Workers -> {"none", "pause", "cancel"}]
    /\ canceled \in [Workers -> BOOLEAN]
    /\ rt \in [Callers -> Workers \cup {NoWorker}]
    /\ recovered \in Seq(Ids)
    /\ autoResume \in BOOLEAN
    /\ bootNext \in {"recover_list", "autoresume"}
    /\ cancelAsked \in SUBSET Ids
    /\ calls \in 0 .. MaxCalls
    /\ crashes \in 0 .. MaxCrashes

\* Where a process stands when the program has just been started.
Resting(p) == IF p = Boot THEN "apply" ELSE IF p \in Callers THEN "idle" ELSE "free"

\* A fresh installation starts.
Init ==
    /\ queue = NoRows
    /\ history = [id \in Ids |-> <<>>]
    /\ nextID = 1
    /\ running = [id \in Ids |-> NoWorker]
    /\ maxConcurrentTasks = DefaultMaxConcurrentTasks
    /\ pc = [p \in Procs |-> Resting(p)]
    /\ task = [p \in Procs |-> NoTask]
    /\ snap = [p \in Procs |-> NoRows]
    /\ intent = [w \in Workers |-> "none"]
    /\ canceled = [w \in Workers |-> FALSE]
    /\ rt = [c \in Callers |-> NoWorker]
    /\ recovered = <<>>
    /\ autoResume = FALSE
    /\ bootNext = "recover_list"
    /\ cancelAsked = {}
    /\ calls = 0
    /\ crashes = 0

-----------------------------------------------------------------------------
(* TransferQueueRepository: each operation is one atomic database access.   *)

InQueue(id) == queue[id] # NoRow
HasStatus(id, status) == InQueue(id) /\ queue[id].status = status

\* INSERT INTO transfer_queue, always with status "pending".
Create(type, priority) ==
    /\ nextID \in Ids
    /\ queue' = [queue EXCEPT ![nextID] =
                    [status |-> "pending", priority |-> priority, type |-> type]]
    /\ nextID' = nextID + 1
    /\ UNCHANGED history

\* UPDATE ... WHERE id: no row, no effect (the caller gets ErrTransferTaskNotFound).
UpdateStatus(id, status) ==
    /\ queue' = IF InQueue(id) THEN [queue EXCEPT ![id].status = status] ELSE queue
    /\ UNCHANGED <<history, nextID>>

\* A fault: the insert into transfer_history is kept when no queue row was deleted.
MoveToHistoryUnchecked(id, outcome) ==
    /\ queue' = [queue EXCEPT ![id] = NoRow]
    /\ history' = [history EXCEPT ![id] = Append(@, outcome)]
    /\ UNCHANGED nextID

\* Insert into transfer_history and delete from transfer_queue in one
\* transaction, rolled back when there is no row to delete.
MoveToHistory(id, outcome) ==
    /\ IF InQueue(id)
         THEN /\ queue' = [queue EXCEPT ![id] = NoRow]
              /\ history' = [history EXCEPT ![id] = Append(@, outcome)]
         ELSE UNCHANGED <<queue, history>>
    /\ UNCHANGED nextID

-----------------------------------------------------------------------------
(* dispatch (scheduler.go) and startTask (task.go).                         *)

Goto(p, label) == pc' = [pc EXCEPT ![p] = label]
Busy == {id \in Ids : running[id] # NoWorker}

\* GetAll's ORDER BY priority, created_at; ids are handed out in creation order.
Before(rows, a, b) ==
    \/ rows[a].priority < rows[b].priority
    \/ rows[a].priority = rows[b].priority /\ a < b

\* A fault: the admission loop does not look the task up in running.
StartableUnchecked(rows) == {id \in Ids : rows[id] # NoRow /\ rows[id].status = "pending"}

\* The rows the admission loop does not skip.
Startable(rows) ==
    {id \in Ids : rows[id] # NoRow /\ rows[id].status = "pending" /\ running[id] = NoWorker}

\* A fault: the limit is compared after the task has been counted.
SlotsOffByOne == maxConcurrentTasks + 1 - Cardinality(Busy)

Slots == maxConcurrentTasks - Cardinality(Busy)

\* The ids one admission loop starts: the first ones in order, as many as there
\* are free slots.
Admitted(rows) ==
    {S \in SUBSET Startable(rows) :
        /\ Cardinality(S) <= IF Slots > 0 THEN Slots ELSE 0
        /\ S # Startable(rows) => Cardinality(S) >= Slots
        /\ \A a \in S, b \in Startable(rows) \ S : Before(rows, a, b)}

FreeWorkers == {w \in Workers : pc[w] = "free"}

\* Where p goes on when dispatch returns.
Continuation(p) == IF p = Boot THEN bootNext ELSE Resting(p)

\* GetAll, outside mu.
DispatchList(p) ==
    /\ pc[p] = "dispatch"
    /\ snap' = [snap EXCEPT ![p] = queue]
    /\ Goto(p, "admit")
    /\ UNCHANGED <<durable, memory, task, tasks, rt, booting, cancelAsked, counted>>

\* The admission loop, one critical section of mu: it starts every task of S.
StartTasks(p, S, by) ==
    LET started == Range(by)
        jobOf(w) == CHOOSE id \in S : by[id] = w
    IN  /\ running' = [id \in Ids |-> IF id \in S THEN by[id] ELSE running[id]]
        /\ task' = [q \in Procs |-> IF q \in started THEN jobOf(q)
                                    ELSE IF q = p THEN NoTask ELSE task[q]]
        /\ pc' = [q \in Procs |-> IF q \in started THEN "started"
                                  ELSE IF q = p THEN Continuation(p) ELSE pc[q]]
        /\ intent' = [w \in Workers |-> IF w \in started THEN "none" ELSE intent[w]]
        /\ canceled' = [w \in Workers |-> IF w \in started THEN FALSE ELSE canceled[w]]

DispatchAdmit(p) ==
    /\ pc[p] = "admit"
    /\ \E S \in Admitted(snap[p]) : \E by \in Injection(S, FreeWorkers) : StartTasks(p, S, by)
    /\ snap' = [snap EXCEPT ![p] = NoRows]
    /\ UNCHANGED <<durable, maxConcurrentTasks, rt, booting, cancelAsked, counted>>

Dispatch(p) == DispatchList(p) \/ DispatchAdmit(p)

-----------------------------------------------------------------------------
(* runTask and handleTaskResult (task.go), on the goroutine of a task.      *)

\* One step of worker w that changes the database and moves on.
WorkerUnchanged == <<memory, snap, tasks, rt, booting, cancelAsked, counted>>

\* The row may be gone: the error is only logged and the transfer goes ahead.
MarkRunning(w) ==
    /\ pc[w] = "started"
    /\ UpdateStatus(task[w], "running")
    /\ Goto(w, "transferring")
    /\ UNCHANGED <<task, WorkerUnchanged>>

\* What the pre-flight checks and Upload/Download/ZIP/copy return: success, an
\* error, or - only once the context has been canceled - context.Canceled.
TransferReturns(w) ==
    /\ pc[w] = "transferring"
    /\ \/ Goto(w, "succeeded")
       \/ Goto(w, "failed")
       \/ canceled[w] /\ Goto(w, "canceled")
    /\ UNCHANGED <<durable, task, WorkerUnchanged>>

ArchiveCompleted(w) ==
    /\ pc[w] = "succeeded"
    /\ MoveToHistory(task[w], "completed")
    /\ Goto(w, "exiting")
    /\ UNCHANGED <<task, WorkerUnchanged>>

\* A fault: the error path leaves the row as it is.
MarkFailedNot(w) ==
    /\ pc[w] = "failed"
    /\ Goto(w, "exiting")
    /\ UNCHANGED <<durable, task, WorkerUnchanged>>

MarkFailed(w) ==
    /\ pc[w] = "failed"
    /\ UpdateStatus(task[w], "failed")
    /\ Goto(w, "exiting")
    /\ UNCHANGED <<task, WorkerUnchanged>>

\* A fault: anything but an explicit "cancel" archives the task.
LoadIntentSwapped(w) ==
    /\ pc[w] = "canceled"
    /\ Goto(w, IF intent[w] = "pause" THEN "cancelling" ELSE "pausing")
    /\ UNCHANGED <<durable, task, WorkerUnchanged>>

\* rt.intent is loaded once, before the abort and the database write.
LoadIntent(w) ==
    /\ pc[w] = "canceled"
    /\ Goto(w, IF intent[w] = "cancel" THEN "cancelling" ELSE "pausing")
    /\ UNCHANGED <<durable, task, WorkerUnchanged>>

ArchiveCancelled(w) ==
    /\ pc[w] = "cancelling"
    /\ MoveToHistory(task[w], "cancelled")
    /\ Goto(w, "exiting")
    /\ UNCHANGED <<task, WorkerUnchanged>>

MarkPaused(w) ==
    /\ pc[w] = "pausing"
    /\ UpdateStatus(task[w], "paused")
    /\ Goto(w, "exiting")
    /\ UNCHANGED <<task, WorkerUnchanged>>

\* A fault: the deferred function does not call dispatch.
ExitSilently(w) ==
    /\ pc[w] = "exiting"
    /\ pc' = [pc EXCEPT ![w] = "free"]
    /\ running' = [running EXCEPT ![task[w]] = NoWorker]
    /\ task' = [task EXCEPT ![w] = NoTask]
    /\ rt' = [c \in Callers |-> IF rt[c] = w THEN NoWorker ELSE rt[c]]
    /\ intent' = [intent EXCEPT ![w] = "none"]
    /\ canceled' = [canceled EXCEPT ![w] = FALSE]
    /\ UNCHANGED <<durable, maxConcurrentTasks, snap, booting, cancelAsked, counted>>

\* runTask's deferred function: leave running, close done - from now on the
\* callers that hold this runningTask find it done - and dispatch.
Exit(w) ==
    /\ pc[w] = "exiting"
    /\ \E d \in Tails : pc[d] = "free" /\ pc' = [pc EXCEPT ![w] = "free", ![d] = "dispatch"]
    /\ running' = [running EXCEPT ![task[w]] = NoWorker]
    /\ task' = [task EXCEPT ![w] = NoTask]
    /\ rt' = [c \in Callers |-> IF rt[c] = w THEN NoWorker ELSE rt[c]]
    /\ intent' = [intent EXCEPT ![w] = "none"]
    /\ canceled' = [canceled EXCEPT ![w] = FALSE]
    /\ UNCHANGED <<durable, maxConcurrentTasks, snap, booting, cancelAsked, counted>>

Work(w) ==
    \/ MarkRunning(w) \/ TransferReturns(w) \/ ArchiveCompleted(w) \/ MarkFailed(w)
    \/ LoadIntent(w) \/ ArchiveCancelled(w) \/ MarkPaused(w) \/ Exit(w)

-----------------------------------------------------------------------------
(* The methods the frontend calls (service.go).                             *)

\* A call the frontend may make: newApp has returned and caller c is idle.
Call(c) ==
    /\ pc[Boot] = "up"
    /\ pc[c] = "idle"
    /\ calls < MaxCalls
    /\ calls' = calls + 1
    /\ UNCHANGED crashes

\* The call returns to the frontend.
Return(c) ==
    /\ Goto(c, "idle")
    /\ task' = [task EXCEPT ![c] = NoTask]
    /\ rt' = [rt EXCEPT ![c] = NoWorker]

\* c goes on with task id, at label.
Proceed(c, id, label) ==
    /\ Goto(c, label)
    /\ task' = [task EXCEPT ![c] = id]

\* QueueUpload, QueueDownload, QueueDownloadPrefixZip; QueueUploadPaths and
\* QueueDownloadPrefix are sequences of such calls.
Queue(c, type, priority) ==
    /\ Call(c)
    /\ type # "copy_cross"
    /\ Create(type, priority)
    /\ Goto(c, "dispatch")
    /\ UNCHANGED <<memory, task, snap, tasks, rt, booting, cancelAsked>>

\* QueueCopyBetweenProfiles creates all its rows before it dispatches once.
QueueCopy(c) ==
    /\ "copy_cross" \in Types
    /\ \/ Call(c)
       \/ pc[c] = "copying" /\ UNCHANGED counted
    /\ Create("copy_cross", 0)
    /\ Goto(c, "copying")
    /\ UNCHANGED <<memory, task, snap, tasks, rt, booting, cancelAsked>>

QueueCopyEnd(c) ==
    /\ pc[c] = "copying"
    /\ Goto(c, "dispatch")
    /\ UNCHANGED <<durable, memory, task, snap, tasks, rt, booting, cancelAsked, counted>>

SetMaxConcurrentTasks(c, n) ==
    /\ Call(c)
    /\ maxConcurrentTasks' = IF n < 1 THEN 1 ELSE n
    /\ Goto(c, "dispatch")
    /\ UNCHANGED <<durable, running, task, snap, tasks, rt, booting, cancelAsked>>

ReorderTask(c, id, priority) ==
    /\ Call(c)
    /\ InQueue(id)
    /\ queue' = [queue EXCEPT ![id].priority = priority]
    /\ UNCHANGED <<history, nextID, memory, pc, task, snap, tasks, rt, booting, cancelAsked>>

ClearHistory(c) ==
    /\ Call(c)
    /\ history' = [id \in Ids |-> <<>>]
    /\ UNCHANGED <<queue, nextID, memory, pc, task, snap, tasks, rt, booting, cancelAsked>>

\* ResumeTask and RetryTask: read the row, then - in a second access - make it
\* pending again and dispatch.
ResumeRead(c, id) ==
    /\ Call(c)
    /\ HasStatus(id, "paused")
    /\ Proceed(c, id, "resume_write")
    /\ UNCHANGED <<durable, memory, snap, tasks, rt, booting, cancelAsked>>

RetryRead(c, id) ==
    /\ Call(c)
    /\ HasStatus(id, "failed")
    /\ Proceed(c, id, "retry_write")
    /\ UNCHANGED <<durable, memory, snap, tasks, rt, booting, cancelAsked>>

MakePending(p) ==
    /\ pc[p] \in {"resume_write", "retry_write"}
    /\ UpdateStatus(task[p], "pending")
    /\ Goto(p, IF InQueue(task[p]) THEN "dispatch" ELSE Continuation(p))
    /\ task' = [task EXCEPT ![p] = NoTask]
    /\ UNCHANGED <<memory, snap, tasks, rt, booting, cancelAsked, counted>>

\* PauseTask: the row must exist and not be an archive download ...
PauseRead(c, id) ==
    /\ Call(c)
    /\ InQueue(id)
    /\ queue[id].type # "download_zip"
    /\ Proceed(c, id, "pause_lookup")
    /\ UNCHANGED <<durable, memory, snap, tasks, rt, booting, cancelAsked>>

\* Both methods look the task up in running under mu.
Lookup(c, id, ifRunning, ifNot) ==
    /\ rt' = [rt EXCEPT ![c] = running[id]]
    /\ Proceed(c, id, IF running[id] = NoWorker THEN ifNot ELSE ifRunning)

PauseLookup(c) ==
    /\ pc[c] = "pause_lookup"
    /\ Lookup(c, task[c], "pause_signal", "pause_read")
    /\ UNCHANGED <<durable, memory, snap, tasks, booting, cancelAsked, counted>>

\* ... a task that does not run must be pending when its row is read again ...
PauseReadAgain(c) ==
    /\ pc[c] = "pause_read"
    /\ IF HasStatus(task[c], "pending")
         THEN Goto(c, "pause_write") /\ UNCHANGED <<task, rt>>
         ELSE Return(c)
    /\ UNCHANGED <<durable, memory, snap, tasks, booting, cancelAsked, counted>>

\* ... and is then marked paused.
PauseWrite(c) ==
    /\ pc[c] = "pause_write"
    /\ UpdateStatus(task[c], "paused")
    /\ Return(c)
    /\ UNCHANGED <<memory, snap, tasks, booting, cancelAsked, counted>>

CancelLookup(c, id) ==
    /\ Call(c)
    /\ cancelAsked' = cancelAsked \cup {id}
    /\ Lookup(c, id, "cancel_signal", "cancel_read")
    /\ UNCHANGED <<durable, memory, snap, tasks, booting>>

CancelRead(c) ==
    /\ pc[c] = "cancel_read"
    /\ IF \E s \in {"pending", "paused", "failed"} : HasStatus(task[c], s)
         THEN Goto(c, "cancel_archive") /\ UNCHANGED <<task, rt>>
         ELSE Return(c)
    /\ UNCHANGED <<durable, memory, snap, tasks, booting, cancelAsked, counted>>

CancelArchive(c) ==
    /\ pc[c] = "cancel_archive"
    /\ MoveToHistory(task[c], "cancelled")
    /\ Return(c)
    /\ UNCHANGED <<memory, snap, tasks, booting, cancelAsked, counted>>

\* rt.intent.Store and rt.cancel(); the intent is only read after the cancel.
\* Nobody reads the runningTask of a goroutine that has closed done.
Signal(c) ==
    /\ pc[c] \in {"pause_signal", "cancel_signal"}
    /\ IF rt[c] = NoWorker
         THEN UNCHANGED tasks
         ELSE /\ intent' = [intent EXCEPT ![rt[c]] =
                               IF pc[c] = "pause_signal" THEN "pause" ELSE "cancel"]
              /\ canceled' = [canceled EXCEPT ![rt[c]] = TRUE]
    /\ Goto(c, IF pc[c] = "pause_signal" THEN "pause_wait" ELSE "cancel_wait")
    /\ UNCHANGED <<durable, memory, task, snap, rt, booting, cancelAsked, counted>>

\* <-rt.done
Await(c) ==
    /\ pc[c] \in {"pause_wait", "cancel_wait"}
    /\ rt[c] = NoWorker
    /\ Return(c)
    /\ UNCHANGED <<durable, memory, snap, tasks, booting, cancelAsked, counted>>

BeginCall(c) ==
    \/ \E type \in Types, priority \in Priorities : Queue(c, type, priority)
    \/ \E n \in Limits : SetMaxConcurrentTasks(c, n)
    \/ \E id \in Ids, priority \in Priorities : ReorderTask(c, id, priority)
    \/ ClearHistory(c)
    \/ \E id \in 1 .. nextID - 1 :
         \/ ResumeRead(c, id) \/ RetryRead(c, id)
         \/ PauseRead(c, id)  \/ CancelLookup(c, id)

\* QueueCopy both begins and continues a call.
ContinueCall(c) ==
    \/ QueueCopyEnd(c) \/ MakePending(c)
    \/ PauseLookup(c) \/ PauseReadAgain(c) \/ PauseWrite(c)
    \/ CancelRead(c) \/ CancelArchive(c)
    \/ Signal(c) \/ Await(c)

-----------------------------------------------------------------------------
(* Startup (app.go's newApp) and the death of the process.                  *)

BootUnchanged == <<running, tasks, rt, cancelAsked, counted>>

\* ApplySettings -> SetMaxConcurrentTasks -> dispatch, with whatever settings
\* are persisted.
ApplySettings ==
    /\ pc[Boot] = "apply"
    /\ \E n \in Limits : maxConcurrentTasks' = IF n < 1 THEN 1 ELSE n
    /\ autoResume' \in BOOLEAN
    /\ bootNext' = "recover_list"
    /\ Goto(Boot, "dispatch")
    /\ UNCHANGED <<durable, task, snap, recovered, BootUnchanged>>

\* GetSettings fails: the defaults stay and nothing is dispatched.
SettingsUnreadable ==
    /\ SettingsFaults
    /\ pc[Boot] = "apply"
    /\ autoResume' = FALSE
    /\ Goto(Boot, "recover_list")
    /\ UNCHANGED <<durable, maxConcurrentTasks, task, snap, recovered, bootNext, BootUnchanged>>

\* RecoverOrphanedTasks reads the queue ...
RecoverList ==
    /\ pc[Boot] = "recover_list"
    /\ snap' = [snap EXCEPT ![Boot] = queue]
    /\ recovered' = <<>>
    /\ Goto(Boot, "recover")
    /\ UNCHANGED <<durable, maxConcurrentTasks, task, autoResume, bootNext, BootUnchanged>>

\* ... and resets the rows it read as "running", one after the other; it gives
\* up at the first row that has left the queue since.
Orphans == {id \in Ids : snap[Boot][id] # NoRow /\ snap[Boot][id].status = "running"}

RecoverTask(id) ==
    /\ pc[Boot] = "recover"
    /\ id \in Orphans
    /\ \A other \in Orphans \ {id} : Before(snap[Boot], id, other)
    /\ UpdateStatus(id, "paused")
    /\ IF InQueue(id)
         THEN /\ recovered' = Append(recovered, id)
              /\ snap' = [snap EXCEPT ![Boot][id] = NoRow]
              /\ UNCHANGED pc
         ELSE /\ Goto(Boot, "autoresume")
              /\ snap' = [snap EXCEPT ![Boot] = NoRows]
              /\ UNCHANGED recovered
    /\ UNCHANGED <<maxConcurrentTasks, task, autoResume, bootNext, BootUnchanged>>

RecoverDone ==
    /\ pc[Boot] = "recover"
    /\ Orphans = {}
    /\ snap' = [snap EXCEPT ![Boot] = NoRows]
    /\ Goto(Boot, "autoresume")
    /\ UNCHANGED <<durable, maxConcurrentTasks, task, recovered, autoResume, bootNext, BootUnchanged>>

\* AutoResumeIfEnabled: ResumeTask for each recovered id that is still paused.
AutoResumeNext ==
    /\ pc[Boot] = "autoresume"
    /\ autoResume /\ recovered # <<>>
    /\ recovered' = Tail(recovered)
    /\ bootNext' = "autoresume"
    /\ IF HasStatus(Head(recovered), "paused")
         THEN Proceed(Boot, Head(recovered), "resume_write")
         ELSE UNCHANGED <<pc, task>>
    /\ UNCHANGED <<durable, maxConcurrentTasks, snap, autoResume, BootUnchanged>>

AutoResumeDone ==
    /\ pc[Boot] = "autoresume"
    /\ autoResume => recovered = <<>>
    /\ recovered' = <<>>
    /\ Goto(Boot, "up")
    /\ UNCHANGED <<durable, maxConcurrentTasks, task, snap, autoResume, bootNext, BootUnchanged>>

BootStep ==
    \/ ApplySettings \/ SettingsUnreadable \/ RecoverList \/ RecoverDone
    \/ \E id \in Ids : RecoverTask(id)
    \/ AutoResumeNext \/ AutoResumeDone
    \/ MakePending(Boot) \/ Dispatch(Boot)

\* The process is killed, or shuts down: shutdown closes the database without
\* stopping a task.  Only SQLite survives; the next start begins at once.
Crash ==
    /\ crashes < MaxCrashes
    /\ crashes' = crashes + 1
    /\ running' = [id \in Ids |-> NoWorker]
    /\ maxConcurrentTasks' = DefaultMaxConcurrentTasks
    /\ pc' = [p \in Procs |-> Resting(p)]
    /\ task' = [p \in Procs |-> NoTask]
    /\ snap' = [p \in Procs |-> NoRows]
    /\ intent' = [w \in Workers |-> "none"]
    /\ canceled' = [w \in Workers |-> FALSE]
    /\ rt' = [c \in Callers |-> NoWorker]
    /\ recovered' = <<>>
    /\ autoResume' = FALSE
    /\ bootNext' = "recover_list"
    /\ UNCHANGED <<durable, cancelAsked, calls>>

-----------------------------------------------------------------------------
CallerStep(c) == ContinueCall(c) \/ Dispatch(c)

Next ==
    \/ \E w \in Workers : Work(w)
    \/ \E d \in Tails : Dispatch(d)
    \/ \E c \in Callers : BeginCall(c) \/ QueueCopy(c) \/ CallerStep(c)
    \/ BootStep
    \/ Crash

\* The Go scheduler runs every goroutine that can run, and a transfer returns:
\* each of its attempts has a timeout and their number is bounded (WithRetry).
\* Nothing obliges the frontend to call, or the process to die.
Fairness ==
    /\ \A w \in Workers : WF_vars(Work(w))
    /\ \A d \in Tails : WF_vars(Dispatch(d))
    /\ \A c \in Callers : WF_vars(CallerStep(c))
    /\ WF_vars(BootStep)

Spec == Init /\ [][Next]_vars
FairSpec == Spec /\ Fairness

-----------------------------------------------------------------------------
(* Properties                                                               *)

\* Every goroutine that is executing a task is the one running names for it, so
\* no task is ever executed by two goroutines at once, however dispatch calls
\* with stale lists interleave (scheduler.go, the admission loop).
OneGoroutinePerTask ==
    /\ \A w \in Workers : pc[w] \in Live => task[w] \in Ids /\ running[task[w]] = w
    /\ \A id \in Ids : running[id] # NoWorker =>
         pc[running[id]] \in Live /\ task[running[id]] = id

\* A task is archived at most once, and never while it still has a queue row:
\* of the goroutine and the CancelTask calls that race to archive it, only one
\* finds the row (MoveToHistory).
ArchivedOnce ==
    \A id \in Ids : Len(history[id]) <= 1 /\ (history[id] # <<>> => ~InQueue(id))

\* Tasks that were not yet created have left no trace.
Unused == \A id \in Ids : id >= nextID => ~InQueue(id) /\ history[id] = <<>>

\* A task enters the history as "cancelled" only if somebody called CancelTask
\* for it: a Pause, a crash or an ambiguous cancellation never archives it
\* (runningTask.intent).
CancelledOnlyIfAsked ==
    \A id \in Ids : "cancelled" \in Range(history[id]) => id \in cancelAsked

\* Once newApp has returned, a row that says "running" has a goroutine that
\* will take it out of that status: no other method can (Pause, Resume, Cancel
\* and Retry all refuse it).
RunningRowHasGoroutine ==
    pc[Boot] = "up" => \A id \in Ids : HasStatus(id, "running") => running[id] # NoWorker

\* A task whose cancellation has been archived is not being transferred.
CancelledIsNotTransferring ==
    \A w \in Workers : pc[w] = "transferring" => history[task[w]] # <<"cancelled">>

\* The scheduler never starts tasks beyond the limit in force, whatever was
\* running before (lowering the limit evicts nothing).
ConcurrencyLimit ==
    [][Busy' \subseteq Busy \/ Cardinality(Busy') <= maxConcurrentTasks]_vars

\* When the frontend stops calling, the queue drains: every pending task is
\* started and every started task ends.  No wakeup is lost between a slot that
\* becomes free and a task that becomes pending.
QueueDrains ==
    <>[](/\ pc[Boot] = "up"
         /\ Busy = {}
         /\ \A id \in Ids : ~HasStatus(id, "pending"))

=============================================================================
