----------------------- MODULE TransferServiceProofs -----------------------
(***************************************************************************)
(* The safety of the transfer queue, for any numbers of goroutines, calls, *)
(* tasks and crashes.                                                      *)
(*                                                                         *)
(* A step changes the database in one of a handful of ways (DatabaseStep)  *)
(* and the goroutines of tasks in one of four (WorkersStep).  Both facts   *)
(* are established once, action by action; the invariants on each side     *)
(* follow from them.                                                       *)
(***************************************************************************)
EXTENDS TransferRefinement, SequenceTheorems, FiniteSetTheorems, TLAPS

\* The labels at which a caller or newApp has a task in hand.
Targeting == {"pause_lookup", "pause_signal", "pause_wait", "pause_read", "pause_write",
              "cancel_signal", "cancel_wait", "cancel_read", "cancel_archive",
              "resume_write", "retry_write"}

TargetsKnown == \A p \in Callers \cup {Boot} : pc[p] \in Targeting => task[p] \in Ids

\* Somebody is about to archive the task as cancelled.
Cancelling(id) ==
    \/ \E w \in Workers : pc[w] = "cancelling" /\ task[w] = id
    \/ \E c \in Callers : pc[c] = "cancel_archive" /\ task[c] = id

\* The ways in which a step changes the two tables and the id counter.
DatabaseStep ==
    \/ UNCHANGED durable
    \/ \E id \in Ids, s \in Statuses : UpdateStatus(id, s)
    \/ \E id \in Ids : MoveToHistory(id, "completed")
    \/ \E id \in Ids : Cancelling(id) /\ MoveToHistory(id, "cancelled")
    \/ \E type \in Types, priority \in Priorities : Create(type, priority)
    \/ /\ \E id \in Ids, priority \in Priorities :
            InQueue(id) /\ queue' = [queue EXCEPT ![id].priority = priority]
       /\ UNCHANGED <<history, nextID>>
    \/ /\ history' = [id \in Ids |-> <<>>]
       /\ UNCHANGED <<queue, nextID>>

LEMMA WorkIsDatabaseStep ==
    ASSUME OneGoroutinePerTask, NEW w \in Workers, Work(w)
    PROVE  DatabaseStep
<1>1. pc[w] \in Live => task[w] \in Ids
    BY DEF OneGoroutinePerTask
<1>2. CASE MarkRunning(w)
    BY <1>1, <1>2 DEF MarkRunning, DatabaseStep, Live, Statuses
<1>3. CASE TransferReturns(w) \/ LoadIntent(w) \/ Exit(w)
    BY <1>3 DEF TransferReturns, LoadIntent, Exit, DatabaseStep
<1>4. CASE ArchiveCompleted(w)
    BY <1>1, <1>4 DEF ArchiveCompleted, DatabaseStep, Live
<1>5. CASE MarkFailed(w)
    BY <1>1, <1>5 DEF MarkFailed, DatabaseStep, Live, Statuses
<1>6. CASE ArchiveCancelled(w)
    BY <1>1, <1>6 DEF ArchiveCancelled, DatabaseStep, Live, Cancelling
<1>7. CASE MarkPaused(w)
    BY <1>1, <1>7 DEF MarkPaused, DatabaseStep, Live, Statuses
<1>. QED  BY <1>2, <1>3, <1>4, <1>5, <1>6, <1>7 DEF Work

LEMMA DispatchIsDatabaseStep ==
    ASSUME NEW p \in Procs, Dispatch(p)
    PROVE  DatabaseStep
BY DEF Dispatch, DispatchList, DispatchAdmit, DatabaseStep

LEMMA MakePendingIsDatabaseStep ==
    ASSUME TargetsKnown, NEW p \in Callers \cup {Boot}, MakePending(p)
    PROVE  DatabaseStep
BY DEF TargetsKnown, Targeting, MakePending, DatabaseStep, Statuses

LEMMA CallerIsDatabaseStep ==
    ASSUME TargetsKnown, NEW c \in Callers, BeginCall(c) \/ QueueCopy(c) \/ CallerStep(c)
    PROVE  DatabaseStep
<1>1. pc[c] \in Targeting => task[c] \in Ids
    BY DEF TargetsKnown
<1>2. ASSUME NEW type \in Types, NEW priority \in Priorities, Queue(c, type, priority)
      PROVE  DatabaseStep
    BY <1>2 DEF Queue, DatabaseStep
<1>3. ASSUME NEW n \in Limits, SetMaxConcurrentTasks(c, n)
      PROVE  DatabaseStep
    BY <1>3 DEF SetMaxConcurrentTasks, DatabaseStep
<1>4. ASSUME NEW id \in Ids, NEW priority \in Priorities, ReorderTask(c, id, priority)
      PROVE  DatabaseStep
    BY <1>4 DEF ReorderTask, DatabaseStep
<1>5. CASE ClearHistory(c)
    BY <1>5 DEF ClearHistory, DatabaseStep
<1>6. ASSUME NEW id, \/ ResumeRead(c, id) \/ RetryRead(c, id)
                     \/ PauseRead(c, id)  \/ CancelLookup(c, id)
      PROVE  DatabaseStep
    BY <1>6 DEF ResumeRead, RetryRead, PauseRead, CancelLookup, DatabaseStep
<1>7. CASE QueueCopy(c)
    BY <1>7, DataAssumption DEF DataAssumption, QueueCopy, DatabaseStep
<1>8. CASE \/ QueueCopyEnd(c) \/ PauseLookup(c) \/ PauseReadAgain(c) \/ CancelRead(c)
           \/ Signal(c) \/ Await(c)
    BY <1>8 DEF QueueCopyEnd, PauseLookup, PauseReadAgain, CancelRead, Signal, Await, DatabaseStep
<1>9. CASE PauseWrite(c)
    BY <1>1, <1>9 DEF PauseWrite, Targeting, DatabaseStep, Statuses
<1>10. CASE CancelArchive(c)
    BY <1>1, <1>10 DEF CancelArchive, Targeting, DatabaseStep, Cancelling
<1>11. CASE MakePending(c)
    BY <1>11, MakePendingIsDatabaseStep
<1>12. CASE Dispatch(c)
    BY <1>12, DispatchIsDatabaseStep DEF Procs
<1>. QED  BY <1>2, <1>3, <1>4, <1>5, <1>6, <1>7, <1>8, <1>9, <1>10, <1>11, <1>12
          DEF BeginCall, CallerStep, ContinueCall

LEMMA BootIsDatabaseStep ==
    ASSUME TargetsKnown, BootStep
    PROVE  DatabaseStep
<1>1. CASE \/ ApplySettings \/ SettingsUnreadable \/ RecoverList \/ RecoverDone
           \/ AutoResumeNext \/ AutoResumeDone
    BY <1>1 DEF ApplySettings, SettingsUnreadable, RecoverList, RecoverDone,
                AutoResumeNext, AutoResumeDone, DatabaseStep
<1>2. ASSUME NEW id \in Ids, RecoverTask(id)
      PROVE  DatabaseStep
    BY <1>2 DEF RecoverTask, DatabaseStep, Statuses
<1>3. CASE MakePending(Boot)
    BY <1>3, MakePendingIsDatabaseStep
<1>4. CASE Dispatch(Boot)
    BY <1>4, DispatchIsDatabaseStep DEF Procs
<1>. QED  BY <1>1, <1>2, <1>3, <1>4 DEF BootStep

LEMMA NextIsDatabaseStep ==
    ASSUME OneGoroutinePerTask, TargetsKnown, [Next]_vars
    PROVE  DatabaseStep
<1>1. ASSUME NEW d \in Tails, Dispatch(d)
      PROVE  DatabaseStep
    BY <1>1, DispatchIsDatabaseStep DEF Procs
<1>2. CASE Crash \/ UNCHANGED vars
    BY <1>2 DEF Crash, vars, DatabaseStep
<1>. QED  BY <1>1, <1>2, WorkIsDatabaseStep, CallerIsDatabaseStep, BootIsDatabaseStep DEF Next

-----------------------------------------------------------------------------
(* Types.                                                                   *)

DurableOK ==
    /\ queue \in [Ids -> Row \cup {NoRow}]
    /\ history \in [Ids -> Seq(Outcomes)]
    /\ nextID \in 1 .. MaxTasks + 1

LEMMA DurableStays ==
    ASSUME DurableOK, DatabaseStep
    PROVE  DurableOK'
<1>. USE BoundAssumption DEF BoundAssumption, DurableOK
<1>1. CASE UNCHANGED durable
    BY <1>1 DEF durable
<1>2. ASSUME NEW id \in Ids, NEW s \in Statuses, UpdateStatus(id, s)
      PROVE  DurableOK'
    BY <1>2, RowAssumption DEF UpdateStatus, InQueue, RowAssumption, Row
<1>3. ASSUME NEW id \in Ids, NEW outcome \in Outcomes, MoveToHistory(id, outcome)
      PROVE  DurableOK'
    <2>1. Append(history[id], outcome) \in Seq(Outcomes)
        BY AppendProperties
    <2>2. /\ queue' \in {queue, [queue EXCEPT ![id] = NoRow]}
          /\ history' \in {history, [history EXCEPT ![id] = Append(history[id], outcome)]}
          /\ nextID' = nextID
        BY <1>3 DEF MoveToHistory
    <2>3. history' \in [Ids -> Seq(Outcomes)]
        BY <2>1, <2>2
    <2>. QED  BY <2>2, <2>3
<1>4. ASSUME NEW type \in Types, NEW priority \in Priorities, Create(type, priority)
      PROVE  DurableOK'
    <2>. DEFINE row == [status |-> "pending", priority |-> priority, type |-> type]
    <2>1. row \in Row
        BY DEF Row, Statuses
    <2>2. nextID \in Ids /\ queue' = [queue EXCEPT ![nextID] = row]
          /\ nextID' = nextID + 1 /\ history' = history
        BY <1>4 DEF Create
    <2>. HIDE DEF row
    <2>3. queue' \in [Ids -> Row \cup {NoRow}]
        BY <2>1, <2>2
    <2>4. nextID' \in 1 .. MaxTasks + 1
        BY <2>2 DEF Ids
    <2>. QED  BY <2>2, <2>3, <2>4
<1>5. ASSUME NEW id \in Ids, NEW priority \in Priorities,
             InQueue(id), queue' = [queue EXCEPT ![id].priority = priority],
             UNCHANGED <<history, nextID>>
      PROVE  DurableOK'
    BY <1>5, RowAssumption DEF InQueue, RowAssumption, Row
<1>6. CASE history' = [id \in Ids |-> <<>>] /\ UNCHANGED <<queue, nextID>>
    BY <1>6, EmptySeq
<1>. QED  BY <1>1, <1>2, <1>3, <1>4, <1>5, <1>6 DEF DatabaseStep, Outcomes

\* Where each process may stand.
PCs(p) ==
    IF p \in Callers THEN CallerPCs
    ELSE IF p \in Workers THEN WorkerPCs
    ELSE IF p \in Tails THEN TailPCs ELSE BootPCs

PCsOK ==
    /\ DOMAIN pc = Procs
    /\ pc = [p \in Procs |-> pc[p]]
    /\ \A p \in Procs : pc[p] \in PCs(p)

LEMMA GotoStays ==
    ASSUME PCsOK, NEW p \in Procs, NEW label \in PCs(p), Goto(p, label)
    PROVE  PCsOK'
BY DEF PCsOK, Goto

LEMMA RestingIsPC ==
    ASSUME NEW p \in Procs
    PROVE  Resting(p) \in PCs(p)
BY ProcessAssumption DEF ProcessAssumption, Procs, Resting, PCs, CallerPCs, WorkerPCs, TailPCs, BootPCs

LEMMA WorkKeepsPCs ==
    ASSUME PCsOK, NEW w \in Workers, Work(w)
    PROVE  PCsOK'
<1>1. /\ w \in Procs
      /\ PCs(w) = {"free"} \cup Live
    BY ProcessAssumption DEF ProcessAssumption, Procs, PCs, WorkerPCs
<1>2. CASE Exit(w)
    <2>1. PICK d \in Tails : pc' = [pc EXCEPT ![w] = "free", ![d] = "dispatch"]
        BY <1>2 DEF Exit
    <2>2. d \in Procs /\ d # w /\ "dispatch" \in PCs(d)
        BY ProcessAssumption DEF ProcessAssumption, Procs, PCs, TailPCs, Dispatching
    <2>. QED  BY <1>1, <2>1, <2>2 DEF PCsOK
<1>3. CASE \E label \in Live : Goto(w, label)
    BY <1>1, <1>3, GotoStays
<1>. QED  BY <1>2, <1>3 DEF Work, MarkRunning, TransferReturns, ArchiveCompleted, MarkFailed,
              LoadIntent, ArchiveCancelled, MarkPaused, Live

-----------------------------------------------------------------------------
(* Control: where the processes stand and which tasks they have in hand.    *)

TasksOK == task \in [Procs -> Ids \cup {NoTask}]
RunningOK == running \in [Ids -> Workers \cup {NoWorker}]
BootOK ==
    /\ recovered \in Seq(Ids)
    /\ bootNext \in {"recover_list", "autoresume"}

ControlInv == PCsOK /\ TasksOK /\ RunningOK /\ BootOK /\ TargetsKnown /\ OneGoroutinePerTask

\* A step in which only process p moves on, and no task starts or ends.
OwnStep(p) ==
    /\ pc' = [pc EXCEPT ![p] = pc'[p]]
    /\ task' = [task EXCEPT ![p] = task'[p]]
    /\ running' = running
    /\ pc'[p] \in PCs(p)
    /\ task'[p] \in Ids \cup {NoTask}
    /\ p \in Workers => pc[p] \in Live /\ pc'[p] \in Live /\ task'[p] = task[p]
    /\ p \notin Workers /\ pc'[p] \in Targeting => task'[p] \in Ids

LEMMA OwnStepKeepsControl ==
    ASSUME ControlInv, BootOK', NEW p \in Procs, OwnStep(p)
    PROVE  ControlInv'
<1>1. PCsOK'
    BY DEF ControlInv, PCsOK, OwnStep
<1>2. TasksOK' /\ RunningOK'
    BY DEF ControlInv, TasksOK, RunningOK, OwnStep
<1>3. TargetsKnown'
    <2>. SUFFICES ASSUME NEW q \in Callers \cup {Boot}, pc'[q] \in Targeting
                  PROVE  task'[q] \in Ids
        BY DEF TargetsKnown
    <2>1. q \in Procs /\ q \notin Workers
        BY ProcessAssumption DEF ProcessAssumption, Procs
    <2>. QED  BY <2>1 DEF ControlInv, PCsOK, TasksOK, TargetsKnown, OwnStep
<1>4. OneGoroutinePerTask'
    <2>1. \A w \in Workers : task'[w] = task[w] /\ (pc'[w] \in Live <=> pc[w] \in Live)
        BY DEF ControlInv, PCsOK, TasksOK, OwnStep, Procs
    <2>2. \A id \in Ids : running[id] # NoWorker => running[id] \in Workers
        BY DEF ControlInv, RunningOK
    <2>. QED  BY <2>1, <2>2 DEF ControlInv, OneGoroutinePerTask, OwnStep
<1>. QED  BY <1>1, <1>2, <1>3, <1>4 DEF ControlInv

LEMMA WorkIsOwnStep ==
    ASSUME ControlInv, NEW w \in Workers, Work(w)
    PROVE  OwnStep(w) \/ Exit(w)
<1>1. w \in Procs /\ PCs(w) = {"free"} \cup Live
    BY ProcessAssumption DEF ProcessAssumption, Procs, PCs, WorkerPCs
<1>2. ASSUME NEW label \in Live, pc[w] \in Live, Goto(w, label), UNCHANGED <<task, running>>
      PROVE  OwnStep(w)
    BY <1>1, <1>2 DEF ControlInv, PCsOK, TasksOK, OwnStep, Goto
<1>. QED  BY <1>2 DEF Work, MarkRunning, TransferReturns, ArchiveCompleted, MarkFailed, LoadIntent,
              ArchiveCancelled, MarkPaused, Live, WorkerUnchanged, memory

\* Every step of a caller but the admission loop.
LEMMA CallerIsOwnStep ==
    ASSUME ControlInv, nextID \in 1 .. MaxTasks + 1,
           NEW c \in Callers, BeginCall(c) \/ QueueCopy(c) \/ ContinueCall(c) \/ DispatchList(c)
    PROVE  OwnStep(c)
<1>1. /\ c \in Procs /\ c \notin Workers /\ c # Boot
      /\ PCs(c) = CallerPCs
      /\ Continuation(c) = "idle"
    BY ProcessAssumption DEF ProcessAssumption, Procs, PCs, Continuation, Resting
<1>2. /\ pc = [pc EXCEPT ![c] = pc[c]] /\ pc[c] \in CallerPCs
      /\ task = [task EXCEPT ![c] = task[c]] /\ task[c] \in Ids \cup {NoTask}
      /\ c \in DOMAIN pc /\ c \in DOMAIN task
    BY <1>1 DEF ControlInv, PCsOK, TasksOK
<1>3. pc[c] \in Targeting => task[c] \in Ids
    BY DEF ControlInv, TargetsKnown
<1>4. ASSUME NEW label \in CallerPCs, Goto(c, label), label \in Targeting => task[c] \in Ids,
             UNCHANGED <<task, running>>
      PROVE  OwnStep(c)
    BY <1>1, <1>2, <1>4 DEF OwnStep, Goto
<1>5. ASSUME NEW label \in CallerPCs, NEW id \in Ids, Proceed(c, id, label), UNCHANGED running
      PROVE  OwnStep(c)
    BY <1>1, <1>2, <1>5 DEF OwnStep, Goto, Proceed
<1>6. ASSUME Return(c), UNCHANGED running
      PROVE  OwnStep(c)
    BY <1>1, <1>2, <1>6 DEF OwnStep, Goto, Return, Targeting, CallerPCs
<1>7. ASSUME UNCHANGED <<pc, task, running>>
      PROVE  OwnStep(c)
    BY <1>1, <1>2, <1>3, <1>7 DEF OwnStep
<1>8. CASE BeginCall(c)
    <2>. USE <1>4, <1>5, <1>7 DEF Call, memory, CallerPCs, Targeting, Dispatching
    <2>1. ASSUME NEW type \in Types, NEW priority \in Priorities, Queue(c, type, priority)
          PROVE  OwnStep(c)
        BY <2>1 DEF Queue
    <2>2. ASSUME NEW n \in Limits, SetMaxConcurrentTasks(c, n)
          PROVE  OwnStep(c)
        BY <2>2 DEF SetMaxConcurrentTasks
    <2>3. ASSUME NEW id \in Ids, NEW priority \in Priorities, ReorderTask(c, id, priority)
          PROVE  OwnStep(c)
        BY <2>3 DEF ReorderTask
    <2>4. CASE ClearHistory(c)
        BY <2>4 DEF ClearHistory
    <2>5. ASSUME NEW id \in 1 .. nextID - 1,
                 \/ ResumeRead(c, id) \/ RetryRead(c, id)
                 \/ PauseRead(c, id)  \/ CancelLookup(c, id)
          PROVE  OwnStep(c)
        <3>1. id \in Ids
            BY BoundAssumption DEF BoundAssumption, Ids
        <3>. QED  BY <2>5, <3>1 DEF ResumeRead, RetryRead, PauseRead, CancelLookup, Lookup
    <2>. QED  BY <1>8, <2>1, <2>2, <2>3, <2>4, <2>5 DEF BeginCall
<1>9. CASE QueueCopy(c)
    BY <1>4, <1>9 DEF QueueCopy, memory, CallerPCs, Targeting
<1>10. CASE ContinueCall(c)
    <2>. USE <1>10, <1>3, <1>4, <1>5, <1>6 DEF memory, CallerPCs, Targeting, Dispatching
    <2>1. CASE QueueCopyEnd(c)
        BY <2>1 DEF QueueCopyEnd
    <2>2. CASE MakePending(c)
        BY <1>1, <1>2, <2>2 DEF MakePending, OwnStep, Goto
    <2>3. CASE PauseLookup(c)
        BY <2>3 DEF PauseLookup, Lookup
    <2>4. CASE PauseReadAgain(c) \/ PauseWrite(c)
        BY <2>4 DEF PauseReadAgain, PauseWrite
    <2>5. CASE CancelRead(c) \/ CancelArchive(c)
        BY <2>5 DEF CancelRead, CancelArchive
    <2>6. CASE Signal(c) \/ Await(c)
        BY <2>6 DEF Signal, Await
    <2>. QED  BY <2>1, <2>2, <2>3, <2>4, <2>5, <2>6 DEF ContinueCall
<1>11. CASE DispatchList(c)
    BY <1>4, <1>11 DEF DispatchList, memory, CallerPCs, Targeting, Dispatching
<1>. QED  BY <1>8, <1>9, <1>10, <1>11

\* Every step of newApp but the admission loop.
LEMMA BootIsOwnStep ==
    ASSUME ControlInv, BootStep, ~DispatchAdmit(Boot)
    PROVE  OwnStep(Boot) /\ BootOK'
<1>1. /\ Boot \in Procs /\ Boot \notin Workers
      /\ PCs(Boot) = BootPCs
      /\ Continuation(Boot) \in {"recover_list", "autoresume"}
    BY ProcessAssumption DEF ProcessAssumption, Procs, PCs, Continuation, ControlInv, BootOK
<1>2. /\ pc = [pc EXCEPT ![Boot] = pc[Boot]] /\ pc[Boot] \in BootPCs
      /\ task = [task EXCEPT ![Boot] = task[Boot]] /\ task[Boot] \in Ids \cup {NoTask}
      /\ Boot \in DOMAIN pc /\ Boot \in DOMAIN task
    BY <1>1 DEF ControlInv, PCsOK, TasksOK
<1>3. pc[Boot] \in Targeting => task[Boot] \in Ids
    BY DEF ControlInv, TargetsKnown
<1>4. ASSUME NEW label \in BootPCs \ Targeting, Goto(Boot, label), UNCHANGED <<task, running>>
      PROVE  OwnStep(Boot)
    BY <1>1, <1>2, <1>4 DEF OwnStep, Goto
<1>5. ASSUME UNCHANGED <<pc, task, running>>
      PROVE  OwnStep(Boot)
    BY <1>1, <1>2, <1>3, <1>5 DEF OwnStep
<1>6. recovered \in Seq(Ids) /\ bootNext \in {"recover_list", "autoresume"}
    BY DEF ControlInv, BootOK
<1>7. <<>> \in Seq(Ids)
    BY EmptySeq
<1>. USE DEF BootUnchanged, BootPCs, Targeting, Dispatching, BootOK
<1>8. CASE ApplySettings \/ SettingsUnreadable
    BY <1>4, <1>6, <1>8 DEF ApplySettings, SettingsUnreadable
<1>9. CASE RecoverList \/ RecoverDone \/ AutoResumeDone
    BY <1>4, <1>6, <1>7, <1>9 DEF RecoverList, RecoverDone, AutoResumeDone
<1>10. ASSUME NEW id \in Ids, RecoverTask(id)
       PROVE  OwnStep(Boot) /\ BootOK'
    <2>1. Append(recovered, id) \in Seq(Ids)
        BY <1>6, AppendProperties
    <2>. QED  BY <1>4, <1>5, <1>6, <1>10, <2>1 DEF RecoverTask
<1>11. CASE AutoResumeNext
    <2>1. Head(recovered) \in Ids /\ Tail(recovered) \in Seq(Ids)
        BY <1>6, <1>11, HeadTailProperties DEF AutoResumeNext
    <2>2. CASE HasStatus(Head(recovered), "paused")
        BY <1>1, <1>2, <1>11, <2>1, <2>2 DEF AutoResumeNext, Proceed, Goto, OwnStep
    <2>3. CASE ~HasStatus(Head(recovered), "paused")
        BY <1>5, <1>11, <2>1, <2>3 DEF AutoResumeNext
    <2>. QED  BY <2>2, <2>3
<1>12. CASE MakePending(Boot)
    BY <1>1, <1>2, <1>6, <1>12 DEF MakePending, OwnStep, Goto, memory, booting
<1>13. CASE DispatchList(Boot)
    BY <1>4, <1>6, <1>13 DEF DispatchList, memory, booting
<1>. QED  BY <1>8, <1>9, <1>10, <1>11, <1>12, <1>13 DEF BootStep, Dispatch

LEMMA BootOKStays ==
    ASSUME ControlInv, [Next]_vars
    PROVE  BootOK'
<1>. USE DEF ControlInv, BootOK
<1>1. ASSUME UNCHANGED booting
      PROVE  BootOK'
    BY <1>1 DEF booting
<1>2. ASSUME NEW w \in Workers, Work(w)
      PROVE  BootOK'
    BY <1>1, <1>2 DEF Work, MarkRunning, TransferReturns, ArchiveCompleted, MarkFailed, LoadIntent,
                      ArchiveCancelled, MarkPaused, Exit, WorkerUnchanged
<1>3. ASSUME NEW p, Dispatch(p)
      PROVE  BootOK'
    BY <1>1, <1>3 DEF Dispatch, DispatchList, DispatchAdmit
<1>4. ASSUME NEW c \in Callers, BeginCall(c) \/ QueueCopy(c)
      PROVE  BootOK'
    BY <1>1, <1>4 DEF BeginCall, Queue, SetMaxConcurrentTasks, ReorderTask, ClearHistory,
                      ResumeRead, RetryRead, PauseRead, CancelLookup, QueueCopy
<1>5. ASSUME NEW c \in Callers, ContinueCall(c)
      PROVE  BootOK'
    BY <1>1, <1>5 DEF ContinueCall, QueueCopyEnd, MakePending, PauseLookup, PauseReadAgain,
                      PauseWrite, CancelRead, CancelArchive, Signal, Await
<1>6. CASE BootStep
    <2>1. CASE DispatchAdmit(Boot)
        BY <1>3, <2>1 DEF Dispatch
    <2>. QED  BY <1>6, <2>1, BootIsOwnStep
<1>7. CASE Crash \/ UNCHANGED vars
    <2>1. <<>> \in Seq(Ids)
        BY EmptySeq
    <2>. QED  BY <1>7, <2>1 DEF Crash, vars, booting
<1>. QED  BY <1>2, <1>3, <1>4, <1>5, <1>6, <1>7 DEF Next, CallerStep

LEMMA ExitKeepsControl ==
    ASSUME ControlInv, BootOK', NEW w \in Workers, Exit(w)
    PROVE  ControlInv'
<1>1. PICK d \in Tails : pc[d] = "free" /\ pc' = [pc EXCEPT ![w] = "free", ![d] = "dispatch"]
    BY DEF Exit
<1>2. /\ w \in Procs /\ d \in Procs /\ d # w
      /\ w \notin Callers \cup {Boot} /\ d \notin Callers \cup {Boot} \cup Workers
      /\ "free" \in PCs(w) /\ "dispatch" \in PCs(d)
    BY ProcessAssumption DEF ProcessAssumption, Procs, PCs, TailPCs, WorkerPCs, Dispatching
<1>3. /\ pc[w] = "exiting"
      /\ task[w] \in Ids /\ running[task[w]] = w
      /\ running' = [running EXCEPT ![task[w]] = NoWorker]
      /\ task' = [task EXCEPT ![w] = NoTask]
    BY DEF Exit, ControlInv, OneGoroutinePerTask, Live
<1>4. PCsOK'
    BY <1>1, <1>2 DEF ControlInv, PCsOK
<1>5. TasksOK' /\ RunningOK'
    BY <1>3 DEF ControlInv, TasksOK, RunningOK
<1>6. TargetsKnown'
    <2>1. \A q \in Callers \cup {Boot} : q \in Procs /\ pc'[q] = pc[q] /\ task'[q] = task[q]
        BY <1>1, <1>2, <1>3 DEF ControlInv, PCsOK, TasksOK, Procs
    <2>. QED  BY <2>1 DEF ControlInv, TargetsKnown
<1>7. OneGoroutinePerTask'
    <2>1. \A v \in Workers \ {w} : pc'[v] = pc[v] /\ task'[v] = task[v]
        BY <1>1, <1>2, <1>3 DEF ControlInv, PCsOK, TasksOK, Procs
    <2>2. pc'[w] \notin Live
        BY <1>1, <1>2 DEF ControlInv, PCsOK, Live
    <2>3. \A id \in Ids : running[id] # NoWorker => running[id] \in Workers
        BY DEF ControlInv, RunningOK
    <2>. QED  BY <1>3, <2>1, <2>2, <2>3, ProcessAssumption
              DEF ControlInv, OneGoroutinePerTask, RunningOK, ProcessAssumption
<1>. QED  BY <1>4, <1>5, <1>6, <1>7 DEF ControlInv

\* Whom an admission loop starts: the goroutines that were free, one for each
\* admitted task.
LEMMA StartTasksFacts ==
    ASSUME ControlInv, NEW p \in Procs, p \notin Workers, NEW S \in SUBSET Startable(snap[p]),
           NEW by \in Injection(S, FreeWorkers), StartTasks(p, S, by)
    PROVE  /\ \A id \in S : /\ id \in Ids /\ running[id] = NoWorker
                            /\ by[id] \in Workers /\ pc[by[id]] = "free"
                            /\ running'[id] = by[id]
                            /\ pc'[by[id]] = "started" /\ task'[by[id]] = id
           /\ running' \in [Ids -> Workers \cup {NoWorker}]
           /\ \A id \in Ids \ S : running'[id] = running[id]
           /\ \A q \in Procs : \/ \E id \in S : q = by[id]
                               \/ q = p /\ pc'[q] = Continuation(p) /\ task'[q] = NoTask
                               \/ q # p /\ pc'[q] = pc[q] /\ task'[q] = task[q]
           /\ DOMAIN pc' = Procs /\ pc' = [q \in Procs |-> pc'[q]]
           /\ DOMAIN task' = Procs /\ task' = [q \in Procs |-> task'[q]]
<1>. DEFINE jobOf(w) == CHOOSE id \in S : by[id] = w
            started == Range(by)
<1>1. /\ running' = [id \in Ids |-> IF id \in S THEN by[id] ELSE running[id]]
      /\ task' = [q \in Procs |-> IF q \in started THEN jobOf(q)
                                  ELSE IF q = p THEN NoTask ELSE task[q]]
      /\ pc' = [q \in Procs |-> IF q \in started THEN "started"
                                ELSE IF q = p THEN Continuation(p) ELSE pc[q]]
    BY DEF StartTasks
<1>2. /\ by \in [S -> FreeWorkers]
      /\ \A a, b \in S : by[a] = by[b] => a = b
    BY DEF Injection, IsInjective
<1>3. started = {by[id] : id \in S}
    BY <1>2 DEF Range
<1>4. \A id \in S : jobOf(by[id]) = id
    BY <1>2
<1>5. \A id \in S : id \in Ids /\ running[id] = NoWorker
    BY DEF Startable
<1>6. \A id \in S : by[id] \in Workers /\ pc[by[id]] = "free" /\ by[id] \in started
    BY <1>2, <1>3 DEF FreeWorkers
<1>7. Workers \subseteq Procs
    BY DEF Procs
<1>. HIDE DEF jobOf, started
<1>8. \A id \in S : /\ running'[id] = by[id]
                    /\ pc'[by[id]] = "started" /\ task'[by[id]] = id
    BY <1>1, <1>4, <1>5, <1>6, <1>7
<1>9. running' \in [Ids -> Workers \cup {NoWorker}]
    BY <1>1, <1>6 DEF ControlInv, RunningOK
<1>10. \A q \in Procs : \/ \E id \in S : q = by[id]
                        \/ q = p /\ pc'[q] = Continuation(p) /\ task'[q] = NoTask
                        \/ q # p /\ pc'[q] = pc[q] /\ task'[q] = task[q]
    BY <1>1, <1>3
<1>11. \A id \in Ids \ S : running'[id] = running[id]
    BY <1>1
<1>12. /\ DOMAIN pc' = Procs /\ pc' = [q \in Procs |-> pc'[q]]
       /\ DOMAIN task' = Procs /\ task' = [q \in Procs |-> task'[q]]
    BY <1>1
<1>. QED  BY <1>5, <1>6, <1>8, <1>9, <1>10, <1>11, <1>12

LEMMA AdmitKeepsControl ==
    ASSUME ControlInv, BootOK', NEW p \in Procs, p \notin Workers, DispatchAdmit(p)
    PROVE  ControlInv'
<1>1. PICK S \in Admitted(snap[p]) : \E by \in Injection(S, FreeWorkers) : StartTasks(p, S, by)
    BY DEF DispatchAdmit
<1>2. PICK by \in Injection(S, FreeWorkers) : StartTasks(p, S, by)
    BY <1>1
<1>3. S \in SUBSET Startable(snap[p])
    BY DEF Admitted
<1>4. /\ \A id \in S : /\ id \in Ids /\ running[id] = NoWorker
                       /\ by[id] \in Workers /\ pc[by[id]] = "free"
                       /\ running'[id] = by[id]
                       /\ pc'[by[id]] = "started" /\ task'[by[id]] = id
      /\ running' \in [Ids -> Workers \cup {NoWorker}]
      /\ \A id \in Ids \ S : running'[id] = running[id]
      /\ \A q \in Procs : \/ \E id \in S : q = by[id]
                          \/ q = p /\ pc'[q] = Continuation(p) /\ task'[q] = NoTask
                          \/ q # p /\ pc'[q] = pc[q] /\ task'[q] = task[q]
      /\ DOMAIN pc' = Procs /\ pc' = [q \in Procs |-> pc'[q]]
      /\ DOMAIN task' = Procs /\ task' = [q \in Procs |-> task'[q]]
    BY <1>2, <1>3, StartTasksFacts
<1>5. /\ Workers \subseteq Procs
      /\ \A w \in Workers : PCs(w) = WorkerPCs
    BY ProcessAssumption DEF ProcessAssumption, Procs, PCs
<1>6. Continuation(p) \in PCs(p) /\ Continuation(p) \notin Targeting
    BY ProcessAssumption
       DEF ProcessAssumption, ControlInv, BootOK, Continuation, Resting, Procs, PCs,
           CallerPCs, WorkerPCs, TailPCs, BootPCs, Targeting
<1>7. PCsOK'
    BY <1>4, <1>5, <1>6 DEF ControlInv, PCsOK, WorkerPCs, Live
<1>8. TasksOK' /\ RunningOK'
    <2>1. \A q \in Procs : task'[q] \in Ids \cup {NoTask}
        BY <1>4 DEF ControlInv, TasksOK
    <2>. QED  BY <1>4, <2>1 DEF TasksOK, RunningOK
<1>9. TargetsKnown'
    BY <1>4, <1>6, ProcessAssumption DEF ControlInv, TargetsKnown, Targeting, ProcessAssumption, Procs
<1>10. OneGoroutinePerTask'
    <2>1. \A w \in Workers : \/ \E id \in S : w = by[id]
                             \/ pc'[w] = pc[w] /\ task'[w] = task[w]
        BY <1>4, <1>5
    <2>2. \A id \in Ids : running[id] # NoWorker => running[id] \in Workers
        BY DEF ControlInv, RunningOK
    <2>3. ASSUME NEW w \in Workers, pc'[w] \in Live
          PROVE  task'[w] \in Ids /\ running'[task'[w]] = w
        <3>1. CASE \E id \in S : w = by[id]
            BY <1>4, <3>1
        <3>2. CASE pc'[w] = pc[w] /\ task'[w] = task[w]
            BY <1>4, <2>3, <3>2, ProcessAssumption
               DEF ControlInv, OneGoroutinePerTask, ProcessAssumption
        <3>. QED  BY <2>1, <3>1, <3>2
    <2>4. ASSUME NEW id \in Ids, running'[id] # NoWorker
          PROVE  pc'[running'[id]] \in Live /\ task'[running'[id]] = id
        <3>1. CASE id \in S
            BY <1>4, <3>1 DEF Live
        <3>2. CASE id \notin S
            <4>1. running'[id] = running[id]
                BY <1>4, <3>2
            <4>. DEFINE w == running[id]
            <4>2. w \in Workers /\ pc[w] \in Live /\ task[w] = id
                BY <2>2, <2>4, <4>1 DEF ControlInv, OneGoroutinePerTask
            <4>3. pc[w] # "free"
                BY <4>2 DEF Live
            <4>. QED  BY <1>4, <2>1, <4>1, <4>2, <4>3
        <3>. QED  BY <3>1, <3>2
    <2>. QED  BY <2>3, <2>4 DEF OneGoroutinePerTask
<1>. QED  BY <1>7, <1>8, <1>9, <1>10 DEF ControlInv

LEMMA CrashKeepsControl ==
    ASSUME ControlInv, Crash
    PROVE  ControlInv'
<1>1. /\ pc' = [p \in Procs |-> Resting(p)]
      /\ task' = [p \in Procs |-> NoTask]
      /\ running' = [id \in Ids |-> NoWorker]
      /\ recovered' = <<>> /\ bootNext' = "recover_list"
    BY DEF Crash
<1>2. \A p \in Procs : pc'[p] = Resting(p)
    BY <1>1
<1>3. PCsOK'
    BY <1>1, <1>2, RestingIsPC DEF PCsOK
<1>4. TasksOK' /\ RunningOK' /\ BootOK'
    BY <1>1, EmptySeq DEF TasksOK, RunningOK, BootOK
<1>5. TargetsKnown'
    BY <1>2, ProcessAssumption DEF TargetsKnown, Targeting, Resting, ProcessAssumption, Procs
<1>6. OneGoroutinePerTask'
    BY <1>1, <1>2, ProcessAssumption DEF OneGoroutinePerTask, Live, Resting, ProcessAssumption, Procs
<1>. QED  BY <1>3, <1>4, <1>5, <1>6 DEF ControlInv

LEMMA InitControl == Init => ControlInv
<1>. SUFFICES ASSUME Init PROVE ControlInv
    OBVIOUS
<1>1. /\ pc = [p \in Procs |-> Resting(p)]
      /\ task = [p \in Procs |-> NoTask]
      /\ running = [id \in Ids |-> NoWorker]
      /\ recovered = <<>> /\ bootNext = "recover_list"
    BY DEF Init
<1>2. \A p \in Procs : pc[p] = Resting(p)
    BY <1>1
<1>3. PCsOK
    BY <1>1, <1>2, RestingIsPC DEF PCsOK
<1>4. TasksOK /\ RunningOK /\ BootOK
    BY <1>1, EmptySeq DEF TasksOK, RunningOK, BootOK
<1>5. TargetsKnown
    BY <1>2, ProcessAssumption DEF TargetsKnown, Targeting, Resting, ProcessAssumption, Procs
<1>6. OneGoroutinePerTask
    BY <1>1, <1>2, ProcessAssumption DEF OneGoroutinePerTask, Live, Resting, ProcessAssumption, Procs
<1>. QED  BY <1>3, <1>4, <1>5, <1>6 DEF ControlInv

\* The next step's own process, or what a task's start, its end and a crash do.
LEMMA NextKeepsControl ==
    ASSUME ControlInv, DurableOK, [Next]_vars
    PROVE  ControlInv'
<1>1. BootOK'
    BY BootOKStays
<1>2. ASSUME NEW w \in Workers, Work(w)
      PROVE  ControlInv'
    BY <1>1, <1>2, WorkIsOwnStep, OwnStepKeepsControl, ExitKeepsControl DEF Procs
<1>3. ASSUME NEW p \in Procs, p \notin Workers, DispatchAdmit(p)
      PROVE  ControlInv'
    BY <1>1, <1>3, AdmitKeepsControl
<1>4. ASSUME NEW d \in Tails, Dispatch(d)
      PROVE  ControlInv'
    <2>1. /\ d \in Procs /\ d \notin Workers
          /\ PCs(d) = TailPCs
        BY ProcessAssumption DEF ProcessAssumption, Procs, PCs
    <2>2. CASE DispatchList(d)
        <3>1. OwnStep(d)
            BY <2>1, <2>2
               DEF DispatchList, Goto, OwnStep, ControlInv, PCsOK, TasksOK, memory, TailPCs,
                   Dispatching, Targeting
        <3>. QED  BY <1>1, <2>1, <3>1, OwnStepKeepsControl
    <2>. QED  BY <1>3, <1>4, <2>1, <2>2 DEF Dispatch
<1>5. ASSUME NEW c \in Callers, BeginCall(c) \/ QueueCopy(c) \/ CallerStep(c)
      PROVE  ControlInv'
    <2>1. c \in Procs /\ c \notin Workers
        BY ProcessAssumption DEF ProcessAssumption, Procs
    <2>2. CASE DispatchAdmit(c)
        BY <1>3, <2>1, <2>2
    <2>3. CASE BeginCall(c) \/ QueueCopy(c) \/ ContinueCall(c) \/ DispatchList(c)
        BY <1>1, <2>1, <2>3, CallerIsOwnStep, OwnStepKeepsControl DEF DurableOK
    <2>. QED  BY <1>5, <2>2, <2>3 DEF CallerStep, Dispatch
<1>6. CASE BootStep
    <2>1. Boot \in Procs /\ Boot \notin Workers
        BY ProcessAssumption DEF ProcessAssumption, Procs
    <2>. QED  BY <1>1, <1>3, <1>6, <2>1, BootIsOwnStep, OwnStepKeepsControl
<1>7. CASE Crash
    BY <1>7, CrashKeepsControl
<1>8. CASE UNCHANGED vars
    BY <1>8
       DEF vars, memory, booting, ControlInv, PCsOK, TasksOK, RunningOK, BootOK, TargetsKnown,
           OneGoroutinePerTask
<1>. QED  BY <1>2, <1>4, <1>5, <1>6, <1>7, <1>8 DEF Next

LEMMA InitDurable == Init => DurableOK
<1>. SUFFICES ASSUME Init PROVE DurableOK
    OBVIOUS
<1>1. queue \in [Ids -> Row \cup {NoRow}]
    BY DEF Init, NoRows
<1>2. history \in [Ids -> Seq(Outcomes)]
    BY EmptySeq DEF Init
<1>3. nextID \in 1 .. MaxTasks + 1
    <2>1. nextID = 1
        BY DEF Init
    <2>2. MaxTasks \in Nat
        BY BoundAssumption DEF BoundAssumption
    <2>. QED  BY <2>1, <2>2
<1>. QED  BY <1>1, <1>2, <1>3 DEF DurableOK

CoreInv == DurableOK /\ ControlInv

LEMMA NextKeepsCore == CoreInv /\ [Next]_vars => CoreInv'
BY NextIsDatabaseStep, DurableStays, NextKeepsControl DEF CoreInv, ControlInv

LEMMA CoreAlways == Spec => []CoreInv
<1>1. Init => CoreInv
    BY InitDurable, InitControl DEF CoreInv
<1>. QED  BY <1>1, NextKeepsCore, PTL DEF Spec

\* No task is ever executed by two goroutines: the map running names the only
\* one, and it names no other (dispatch's admission loop, runTask's deferred
\* function).
THEOREM OneGoroutinePerTaskAlways == Spec => []OneGoroutinePerTask
<1>1. CoreInv => OneGoroutinePerTask
    BY DEF CoreInv, ControlInv
<1>. QED  BY <1>1, CoreAlways, PTL

-----------------------------------------------------------------------------
(* What the tables say.                                                     *)

LEMMA ArchiveStays ==
    ASSUME DurableOK, ArchivedOnce, Unused, DatabaseStep
    PROVE  ArchivedOnce' /\ Unused'
<1>. USE DEF ArchivedOnce, Unused, InQueue
<1>1. CASE UNCHANGED durable
    BY <1>1 DEF durable
<1>2. ASSUME NEW id \in Ids, NEW s \in Statuses, UpdateStatus(id, s)
      PROVE  ArchivedOnce' /\ Unused'
    <2>1. history' = history /\ nextID' = nextID
        BY <1>2 DEF UpdateStatus
    <2>2. \A other \in Ids : queue[other] = NoRow => queue'[other] = NoRow
        BY <1>2 DEF UpdateStatus, DurableOK
    <2>. QED  BY <2>1, <2>2
<1>3. ASSUME NEW id \in Ids, NEW outcome \in Outcomes, MoveToHistory(id, outcome)
      PROVE  ArchivedOnce' /\ Unused'
    <2>1. CASE InQueue(id)
        <3>1. /\ queue' = [queue EXCEPT ![id] = NoRow]
              /\ history' = [history EXCEPT ![id] = Append(history[id], outcome)]
              /\ nextID' = nextID
            BY <1>3, <2>1 DEF MoveToHistory
        <3>2. history[id] = <<>> /\ ~(id >= nextID)
            BY <2>1
        <3>3. Len(Append(history[id], outcome)) = 1
            BY <3>2, EmptySeq, AppendProperties
        <3>4. history'[id] = Append(history[id], outcome) /\ queue'[id] = NoRow
            BY <3>1 DEF DurableOK
        <3>5. \A other \in Ids \ {id} : history'[other] = history[other] /\ queue'[other] = queue[other]
            BY <3>1 DEF DurableOK
        <3>. QED  BY <3>1, <3>2, <3>3, <3>4, <3>5
    <2>2. CASE ~InQueue(id)
        BY <1>3, <2>2 DEF MoveToHistory
    <2>. QED  BY <2>1, <2>2
<1>4. ASSUME NEW type \in Types, NEW priority \in Priorities, Create(type, priority)
      PROVE  ArchivedOnce' /\ Unused'
    <2>1. nextID \in Ids /\ nextID' = nextID + 1 /\ history' = history
        BY <1>4 DEF Create
    <2>2. \A other \in Ids \ {nextID} : queue'[other] = queue[other]
        BY <1>4 DEF Create, DurableOK
    <2>3. history[nextID] = <<>> /\ Len(history[nextID]) = 0
        BY <2>1, EmptySeq DEF Ids
    <2>. QED  BY <2>1, <2>2, <2>3 DEF Ids
<1>5. ASSUME NEW id \in Ids, NEW priority \in Priorities,
             InQueue(id), queue' = [queue EXCEPT ![id].priority = priority],
             UNCHANGED <<history, nextID>>
      PROVE  ArchivedOnce' /\ Unused'
    BY <1>5 DEF DurableOK
<1>6. CASE history' = [id \in Ids |-> <<>>] /\ UNCHANGED <<queue, nextID>>
    BY <1>6, EmptySeq
<1>. QED  BY <1>1, <1>2, <1>3, <1>4, <1>5, <1>6 DEF DatabaseStep, Outcomes

\* However the goroutine of a task and the callers race to archive it, it is
\* archived once, and only when it leaves the queue (MoveToHistory).
THEOREM ArchivedOnceAlways == Spec => []ArchivedOnce
<1>1. Init => ArchivedOnce /\ Unused
    <2>1. Init => \A id \in Ids : queue[id] = NoRow /\ history[id] = <<>>
        BY DEF Init, NoRows
    <2>. QED  BY <2>1, EmptySeq DEF ArchivedOnce, Unused, InQueue
<1>2. CoreInv /\ ArchivedOnce /\ Unused /\ [Next]_vars => ArchivedOnce' /\ Unused'
    BY NextIsDatabaseStep, ArchiveStays DEF CoreInv, ControlInv
<1>. QED  BY <1>1, <1>2, CoreAlways, PTL DEF Spec

-----------------------------------------------------------------------------
(* The limit.                                                               *)

LEMMA BusyIsFinite ==
    /\ IsFiniteSet(Busy) /\ Cardinality(Busy) \in Nat
    /\ \A S \in SUBSET Ids : IsFiniteSet(S) /\ Cardinality(S) \in Nat
<1>1. IsFiniteSet(Ids)
    BY BoundAssumption, FS_Interval DEF BoundAssumption, Ids
<1>2. \A S \in SUBSET Ids : IsFiniteSet(S) /\ Cardinality(S) \in Nat
    BY <1>1, FS_Subset, FS_CardinalityType
<1>3. Busy \in SUBSET Ids
    BY DEF Busy
<1>. QED  BY <1>2, <1>3

LEMMA AdmitKeepsLimit ==
    ASSUME ControlInv, maxConcurrentTasks \in Nat,
           NEW p \in Procs, p \notin Workers, DispatchAdmit(p)
    PROVE  Busy' \subseteq Busy \/ Cardinality(Busy') <= maxConcurrentTasks
<1>1. PICK S \in Admitted(snap[p]) : \E by \in Injection(S, FreeWorkers) : StartTasks(p, S, by)
    BY DEF DispatchAdmit
<1>2. PICK by \in Injection(S, FreeWorkers) : StartTasks(p, S, by)
    BY <1>1
<1>3. /\ S \in SUBSET Startable(snap[p])
      /\ Cardinality(S) <= IF Slots > 0 THEN Slots ELSE 0
    BY DEF Admitted
<1>4. S \in SUBSET Ids
    BY <1>3 DEF Startable
<1>5. Busy' = Busy \cup S
    <2>1. /\ \A id \in S : by[id] \in Workers /\ running'[id] = by[id]
          /\ \A id \in Ids \ S : running'[id] = running[id]
        BY <1>2, <1>3, StartTasksFacts
    <2>2. \A id \in Ids : running'[id] # NoWorker <=> running[id] # NoWorker \/ id \in S
        BY <2>1, <1>3, ProcessAssumption DEF ProcessAssumption, Startable
    <2>. QED  BY <1>4, <2>2 DEF Busy
<1>6. CASE S = {}
    BY <1>5, <1>6
<1>7. CASE S # {}
    <2>1. Cardinality(S) > 0
        BY <1>4, <1>7, BusyIsFinite, FS_EmptySet
    <2>2. Cardinality(S) + Cardinality(Busy) <= maxConcurrentTasks
        BY <1>3, <1>4, <2>1, BusyIsFinite DEF Slots
    <2>3. Cardinality(Busy \cup S) = Cardinality(Busy) + Cardinality(S) - Cardinality(Busy \cap S)
        BY <1>4, BusyIsFinite, FS_Union
    <2>4. Cardinality(Busy \cap S) \in Nat
        BY <1>4, BusyIsFinite DEF Busy
    <2>. QED  BY <1>4, <1>5, <2>2, <2>3, <2>4, BusyIsFinite
<1>. QED  BY <1>6, <1>7

\* Only the admission loop makes a task busy.
LEMMA NextKeepsLimit ==
    ASSUME ControlInv, DurableOK, maxConcurrentTasks \in Nat, [Next]_vars
    PROVE  Busy' \subseteq Busy \/ Cardinality(Busy') <= maxConcurrentTasks
<1>1. ASSUME running' = running
      PROVE  Busy' = Busy
    BY <1>1 DEF Busy
<1>2. ASSUME NEW w \in Workers, Work(w)
      PROVE  Busy' \subseteq Busy
    <2>1. CASE OwnStep(w)
        BY <1>1, <2>1 DEF OwnStep
    <2>2. CASE Exit(w)
        BY <2>2 DEF Exit, Busy, ControlInv, RunningOK
    <2>. QED  BY <1>2, <2>1, <2>2, WorkIsOwnStep
<1>3. ASSUME NEW d \in Tails, DispatchList(d)
      PROVE  Busy' = Busy
    BY <1>1, <1>3 DEF DispatchList, memory
<1>4. ASSUME NEW c \in Callers,
             BeginCall(c) \/ QueueCopy(c) \/ ContinueCall(c) \/ DispatchList(c)
      PROVE  Busy' = Busy
    BY <1>1, <1>4, CallerIsOwnStep DEF DurableOK, OwnStep
<1>5. ASSUME BootStep, ~DispatchAdmit(Boot)
      PROVE  Busy' = Busy
    BY <1>1, <1>5, BootIsOwnStep DEF OwnStep
<1>6. ASSUME Crash
      PROVE  Busy' \subseteq Busy
    BY <1>6 DEF Crash, Busy
<1>7. ASSUME UNCHANGED vars
      PROVE  Busy' = Busy
    BY <1>1, <1>7 DEF vars, memory
<1>8. \A p \in Callers \cup Tails \cup {Boot} : p \in Procs /\ p \notin Workers
    BY ProcessAssumption DEF ProcessAssumption, Procs
<1>. QED  BY <1>2, <1>3, <1>4, <1>5, <1>6, <1>7, <1>8, AdmitKeepsLimit
          DEF Next, CallerStep, Dispatch

-----------------------------------------------------------------------------
(* The rest of the type invariant.                                          *)

CountersOK ==
    /\ maxConcurrentTasks \in Nat \ {0}
    /\ cancelAsked \in SUBSET Ids
    /\ calls \in 0 .. MaxCalls
    /\ crashes \in 0 .. MaxCrashes

RuntimeTaskOK ==
    /\ intent \in [Workers -> {"none", "pause", "cancel"}]
    /\ canceled \in [Workers -> BOOLEAN]
    /\ rt \in [Callers -> Workers \cup {NoWorker}]

SnapOK == snap \in [Procs -> [Ids -> Row \cup {NoRow}]]
SettingOK == autoResume \in BOOLEAN

LEMMA CountersStay ==
    ASSUME CountersOK, DurableOK, [Next]_vars
    PROVE  CountersOK'
<1>. USE DEF CountersOK, counted
<1>1. ASSUME NEW w \in Workers, Work(w)
      PROVE  CountersOK'
    BY <1>1 DEF Work, MarkRunning, TransferReturns, ArchiveCompleted, MarkFailed, LoadIntent,
                ArchiveCancelled, MarkPaused, Exit, WorkerUnchanged, memory
<1>2. ASSUME NEW p, Dispatch(p) \/ MakePending(p)
      PROVE  CountersOK'
    BY <1>2 DEF Dispatch, DispatchList, DispatchAdmit, MakePending, memory
<1>3. ASSUME NEW c \in Callers, BeginCall(c)
      PROVE  CountersOK'
    <2>1. ASSUME Call(c)
          PROVE  calls' \in 0 .. MaxCalls /\ crashes' = crashes
        BY <2>1, BoundAssumption DEF Call, BoundAssumption
    <2>2. ASSUME NEW n \in Limits, SetMaxConcurrentTasks(c, n)
          PROVE  CountersOK'
        BY <2>1, <2>2, DataAssumption DEF SetMaxConcurrentTasks, DataAssumption
    <2>3. ASSUME NEW id \in 1 .. nextID - 1, CancelLookup(c, id)
          PROVE  CountersOK'
        <3>1. id \in Ids
            BY BoundAssumption DEF BoundAssumption, DurableOK, Ids
        <3>. QED  BY <2>1, <2>3, <3>1 DEF CancelLookup, Lookup, memory
    <2>. QED  BY <1>3, <2>1, <2>2, <2>3
              DEF BeginCall, Queue, ReorderTask, ClearHistory, ResumeRead, RetryRead, PauseRead, memory
<1>4. ASSUME NEW c \in Callers, QueueCopy(c)
      PROVE  CountersOK'
    BY <1>4, BoundAssumption DEF QueueCopy, Call, BoundAssumption, memory
<1>5. ASSUME NEW c \in Callers, ContinueCall(c)
      PROVE  CountersOK'
    BY <1>2, <1>5 DEF ContinueCall, QueueCopyEnd, PauseLookup, PauseReadAgain, PauseWrite,
                      CancelRead, CancelArchive, Signal, Await, memory
<1>6. CASE BootStep
    <2>1. CASE ApplySettings
        BY <2>1, DataAssumption DEF ApplySettings, BootUnchanged, DataAssumption
    <2>. QED  BY <1>2, <1>6, <2>1
              DEF BootStep, SettingsUnreadable, RecoverList, RecoverTask, RecoverDone,
                  AutoResumeNext, AutoResumeDone, BootUnchanged
<1>7. CASE Crash
    <2>1. crashes' \in 0 .. MaxCrashes
        <3>1. crashes < MaxCrashes /\ crashes' = crashes + 1
            BY <1>7 DEF Crash
        <3>2. MaxCrashes \in Nat
            BY BoundAssumption DEF BoundAssumption
        <3>. QED  BY <3>1, <3>2
    <2>2. maxConcurrentTasks' = 2 /\ UNCHANGED <<cancelAsked, calls>>
        BY <1>7 DEF Crash, DefaultMaxConcurrentTasks
    <2>. QED  BY <2>1, <2>2
<1>8. CASE UNCHANGED vars
    BY <1>8 DEF vars, memory
<1>. QED  BY <1>1, <1>2, <1>3, <1>4, <1>5, <1>6, <1>7, <1>8 DEF Next, CallerStep

LEMMA SettingStays ==
    ASSUME SettingOK, [Next]_vars
    PROVE  SettingOK'
<1>. USE DEF SettingOK, booting
<1>1. ASSUME NEW w \in Workers, Work(w)
      PROVE  SettingOK'
    BY <1>1 DEF Work, MarkRunning, TransferReturns, ArchiveCompleted, MarkFailed, LoadIntent,
                ArchiveCancelled, MarkPaused, Exit, WorkerUnchanged
<1>2. ASSUME NEW p, Dispatch(p) \/ MakePending(p)
      PROVE  SettingOK'
    BY <1>2 DEF Dispatch, DispatchList, DispatchAdmit, MakePending
<1>3. ASSUME NEW c \in Callers, BeginCall(c) \/ QueueCopy(c)
      PROVE  SettingOK'
    BY <1>3 DEF BeginCall, Queue, SetMaxConcurrentTasks, ReorderTask, ClearHistory,
                ResumeRead, RetryRead, PauseRead, CancelLookup, QueueCopy
<1>4. ASSUME NEW c \in Callers, ContinueCall(c)
      PROVE  SettingOK'
    BY <1>2, <1>4 DEF ContinueCall, QueueCopyEnd, PauseLookup, PauseReadAgain, PauseWrite,
                      CancelRead, CancelArchive, Signal, Await
<1>5. CASE BootStep
    BY <1>2, <1>5
       DEF BootStep, ApplySettings, SettingsUnreadable, RecoverList, RecoverTask, RecoverDone,
           AutoResumeNext, AutoResumeDone
<1>6. CASE Crash
    BY <1>6 DEF Crash
<1>7. CASE UNCHANGED vars
    BY <1>7 DEF vars
<1>. QED  BY <1>1, <1>2, <1>3, <1>4, <1>5, <1>6, <1>7 DEF Next, CallerStep

\* Snapshots are copies of the queue, or nothing.
LEMMA SnapStays ==
    ASSUME SnapOK, DurableOK, [Next]_vars
    PROVE  SnapOK'
<1>1. NoRows \in [Ids -> Row \cup {NoRow}] /\ queue \in [Ids -> Row \cup {NoRow}]
    BY DEF NoRows, DurableOK
<1>2. ASSUME NEW p, NEW rows \in {queue, NoRows}, snap' = [snap EXCEPT ![p] = rows]
      PROVE  SnapOK'
    BY <1>1, <1>2 DEF SnapOK
<1>3. ASSUME snap' = snap
      PROVE  SnapOK'
    BY <1>3 DEF SnapOK
<1>4. ASSUME NEW w \in Workers, Work(w)
      PROVE  SnapOK'
    BY <1>3, <1>4 DEF Work, MarkRunning, TransferReturns, ArchiveCompleted, MarkFailed, LoadIntent,
                      ArchiveCancelled, MarkPaused, Exit, WorkerUnchanged
<1>5. ASSUME NEW p, Dispatch(p) \/ MakePending(p)
      PROVE  SnapOK'
    BY <1>2, <1>3, <1>5 DEF Dispatch, DispatchList, DispatchAdmit, MakePending
<1>6. ASSUME NEW c \in Callers, BeginCall(c) \/ QueueCopy(c)
      PROVE  SnapOK'
    BY <1>3, <1>6 DEF BeginCall, Queue, SetMaxConcurrentTasks, ReorderTask, ClearHistory,
                      ResumeRead, RetryRead, PauseRead, CancelLookup, QueueCopy
<1>7. ASSUME NEW c \in Callers, ContinueCall(c)
      PROVE  SnapOK'
    BY <1>3, <1>5, <1>7 DEF ContinueCall, QueueCopyEnd, PauseLookup, PauseReadAgain, PauseWrite,
                            CancelRead, CancelArchive, Signal, Await
<1>8. ASSUME NEW id \in Ids, RecoverTask(id)
      PROVE  SnapOK'
    <2>1. CASE InQueue(id)
        BY <1>8, <2>1 DEF RecoverTask, SnapOK
    <2>2. CASE ~InQueue(id)
        BY <1>2, <1>8, <2>2 DEF RecoverTask
    <2>. QED  BY <2>1, <2>2
<1>9. CASE BootStep
    BY <1>2, <1>3, <1>5, <1>8, <1>9
       DEF BootStep, ApplySettings, SettingsUnreadable, RecoverList, RecoverDone,
           AutoResumeNext, AutoResumeDone
<1>10. CASE Crash
    BY <1>1, <1>10 DEF Crash, SnapOK
<1>11. CASE UNCHANGED vars
    BY <1>3, <1>11 DEF vars
<1>. QED  BY <1>4, <1>5, <1>6, <1>7, <1>9, <1>10, <1>11 DEF Next, CallerStep

LEMMA RuntimeTaskStays ==
    ASSUME RuntimeTaskOK, ControlInv, DurableOK, [Next]_vars
    PROVE  RuntimeTaskOK'
<1>1. ASSUME UNCHANGED <<tasks, rt>>
      PROVE  RuntimeTaskOK'
    BY <1>1 DEF RuntimeTaskOK, tasks
<1>2. ASSUME NEW c, UNCHANGED tasks, NEW id \in Ids, rt' = [rt EXCEPT ![c] = running[id]]
      PROVE  RuntimeTaskOK'
    BY <1>2 DEF RuntimeTaskOK, ControlInv, RunningOK, tasks
<1>3. ASSUME NEW c, UNCHANGED tasks, rt' = [rt EXCEPT ![c] = NoWorker]
      PROVE  RuntimeTaskOK'
    BY <1>3 DEF RuntimeTaskOK, tasks
<1>4. ASSUME NEW w \in Workers, Exit(w)
      PROVE  RuntimeTaskOK'
    <2>1. intent' \in [Workers -> {"none", "pause", "cancel"}]
        BY <1>4 DEF Exit, RuntimeTaskOK
    <2>2. canceled' \in [Workers -> BOOLEAN]
        BY <1>4 DEF Exit, RuntimeTaskOK
    <2>3. rt' \in [Callers -> Workers \cup {NoWorker}]
        BY <1>4 DEF Exit, RuntimeTaskOK
    <2>. QED  BY <2>1, <2>2, <2>3 DEF RuntimeTaskOK
<1>5. ASSUME NEW w \in Workers, Work(w)
      PROVE  RuntimeTaskOK'
    BY <1>1, <1>4, <1>5 DEF Work, MarkRunning, TransferReturns, ArchiveCompleted, MarkFailed,
                            LoadIntent, ArchiveCancelled, MarkPaused, WorkerUnchanged
<1>6. ASSUME NEW p, DispatchAdmit(p)
      PROVE  RuntimeTaskOK'
    <2>1. rt' = rt /\ \E S \in Admitted(snap[p]) : \E by \in Injection(S, FreeWorkers) : StartTasks(p, S, by)
        BY <1>6 DEF DispatchAdmit
    <2>2. intent' \in [Workers -> {"none", "pause", "cancel"}]
        BY <2>1 DEF StartTasks, RuntimeTaskOK
    <2>3. canceled' \in [Workers -> BOOLEAN]
        BY <2>1 DEF StartTasks, RuntimeTaskOK
    <2>. QED  BY <2>1, <2>2, <2>3 DEF RuntimeTaskOK
<1>7. ASSUME NEW p, Dispatch(p) \/ MakePending(p)
      PROVE  RuntimeTaskOK'
    BY <1>1, <1>6, <1>7 DEF Dispatch, DispatchList, MakePending
<1>8. ASSUME NEW c \in Callers, BeginCall(c) \/ QueueCopy(c)
      PROVE  RuntimeTaskOK'
    <2>1. ASSUME NEW id \in 1 .. nextID - 1, CancelLookup(c, id)
          PROVE  RuntimeTaskOK'
        <3>1. id \in Ids
            BY BoundAssumption DEF BoundAssumption, DurableOK, Ids
        <3>. QED  BY <1>2, <2>1, <3>1 DEF CancelLookup, Lookup
    <2>. QED  BY <1>1, <1>8, <2>1
              DEF BeginCall, Queue, SetMaxConcurrentTasks, ReorderTask, ClearHistory,
                  ResumeRead, RetryRead, PauseRead, QueueCopy
<1>9. ASSUME NEW c \in Callers, Signal(c)
      PROVE  RuntimeTaskOK'
    <2>1. CASE rt[c] = NoWorker
        BY <1>1, <1>9, <2>1 DEF Signal
    <2>2. CASE rt[c] # NoWorker
        <3>1. intent' \in [Workers -> {"none", "pause", "cancel"}]
            BY <1>9, <2>2 DEF Signal, RuntimeTaskOK
        <3>2. canceled' \in [Workers -> BOOLEAN] /\ rt' = rt
            BY <1>9, <2>2 DEF Signal, RuntimeTaskOK
        <3>. QED  BY <3>1, <3>2 DEF RuntimeTaskOK
    <2>. QED  BY <2>1, <2>2
<1>10. ASSUME NEW c \in Callers, ContinueCall(c)
       PROVE  RuntimeTaskOK'
    <2>1. CASE PauseLookup(c)
        <3>1. task[c] \in Ids
            BY <2>1 DEF PauseLookup, ControlInv, TargetsKnown, Targeting
        <3>. QED  BY <1>2, <2>1, <3>1 DEF PauseLookup, Lookup
    <2>. QED  BY <1>1, <1>3, <1>7, <1>9, <1>10, <2>1
              DEF ContinueCall, QueueCopyEnd, PauseReadAgain, PauseWrite,
                  CancelRead, CancelArchive, Await, Return
<1>11. CASE BootStep
    BY <1>1, <1>7, <1>11
       DEF BootStep, ApplySettings, SettingsUnreadable, RecoverList, RecoverTask, RecoverDone,
           AutoResumeNext, AutoResumeDone, BootUnchanged
<1>12. CASE Crash
    <2>1. intent' = [w \in Workers |-> "none"] /\ rt' = [c \in Callers |-> NoWorker]
        BY <1>12 DEF Crash
    <2>2. canceled' \in [Workers -> BOOLEAN]
        BY <1>12 DEF Crash
    <2>. QED  BY <2>1, <2>2 DEF RuntimeTaskOK
<1>13. CASE UNCHANGED vars
    BY <1>1, <1>13 DEF vars
<1>. QED  BY <1>5, <1>7, <1>8, <1>10, <1>11, <1>12, <1>13 DEF Next, CallerStep

TypeInv == CoreInv /\ CountersOK /\ RuntimeTaskOK /\ SnapOK /\ SettingOK

LEMMA TypeInvImpliesTypeOK == TypeInv => TypeOK
<1>. SUFFICES ASSUME TypeInv PROVE TypeOK
    OBVIOUS
<1>1. /\ \A c \in Callers : c \in Procs /\ PCs(c) = CallerPCs
      /\ \A w \in Workers : w \in Procs /\ PCs(w) = WorkerPCs
      /\ \A d \in Tails : d \in Procs /\ PCs(d) = TailPCs
      /\ Boot \in Procs /\ PCs(Boot) = BootPCs
    BY ProcessAssumption DEF ProcessAssumption, Procs, PCs
<1>2. PCsOK
    BY DEF TypeInv, CoreInv, ControlInv
<1>3. /\ \A c \in Callers : pc[c] \in CallerPCs
      /\ \A w \in Workers : pc[w] \in WorkerPCs
      /\ \A d \in Tails : pc[d] \in TailPCs
      /\ pc[Boot] \in BootPCs
    BY <1>1, <1>2 DEF PCsOK
<1>4. pc \in [Procs -> CallerPCs \cup WorkerPCs \cup TailPCs \cup BootPCs]
    BY <1>2, <1>3 DEF PCsOK, Procs
<1>. QED  BY <1>3, <1>4
          DEF TypeOK, TypeInv, CoreInv, ControlInv, DurableOK, TasksOK, RunningOK, BootOK,
              CountersOK, RuntimeTaskOK, SnapOK, SettingOK

LEMMA InitTypeInv == Init => TypeInv
<1>. SUFFICES ASSUME Init PROVE TypeInv
    OBVIOUS
<1>1. CoreInv
    BY InitDurable, InitControl DEF CoreInv
<1>2. CountersOK
    <2>1. maxConcurrentTasks = 2 /\ cancelAsked = {} /\ calls = 0 /\ crashes = 0
        BY DEF Init, DefaultMaxConcurrentTasks
    <2>2. MaxCalls \in Nat /\ MaxCrashes \in Nat
        BY BoundAssumption DEF BoundAssumption
    <2>. QED  BY <2>1, <2>2 DEF CountersOK
<1>3. RuntimeTaskOK
    <2>1. intent = [w \in Workers |-> "none"] /\ rt = [c \in Callers |-> NoWorker]
        BY DEF Init
    <2>2. canceled \in [Workers -> BOOLEAN]
        BY DEF Init
    <2>. QED  BY <2>1, <2>2 DEF RuntimeTaskOK
<1>4. SnapOK
    BY DEF Init, SnapOK, NoRows
<1>5. SettingOK
    BY DEF Init, SettingOK
<1>. QED  BY <1>1, <1>2, <1>3, <1>4, <1>5 DEF TypeInv

LEMMA TypeInvAlways == Spec => []TypeInv
<1>1. TypeInv /\ [Next]_vars => TypeInv'
    BY NextKeepsCore, CountersStay, RuntimeTaskStays, SnapStays, SettingStays DEF TypeInv, CoreInv
<1>. QED  BY <1>1, InitTypeInv, PTL DEF Spec

\* Every variable keeps its type, for any constants.
THEOREM TypeCorrect == Spec => []TypeOK
BY TypeInvAlways, TypeInvImpliesTypeOK, PTL

\* No dispatch, whatever stale list it works from, starts a task beyond the limit
\* that is in force when it does (the admission loop is one critical section).
THEOREM ConcurrencyLimitAlways == Spec => ConcurrencyLimit
<1>1. TypeInv /\ [Next]_vars => (Busy' \subseteq Busy \/ Cardinality(Busy') <= maxConcurrentTasks)
    BY NextKeepsLimit DEF TypeInv, CoreInv, CountersOK
<1>2. TypeInv /\ [Next]_vars => [Busy' \subseteq Busy \/ Cardinality(Busy') <= maxConcurrentTasks]_vars
    BY <1>1
<1>. QED  BY <1>2, TypeInvAlways, PTL DEF Spec, ConcurrencyLimit

-----------------------------------------------------------------------------
(* Cancellation.                                                            *)

CancelPCs == {"cancel_signal", "cancel_wait", "cancel_read", "cancel_archive"}
Holding == {"pause_signal", "pause_wait", "cancel_signal", "cancel_wait"}

CancellersAsked == \A c \in Callers : pc[c] \in CancelPCs => task[c] \in cancelAsked

\* A caller that holds a *runningTask waits for the goroutine of its own task.
HoldersHold ==
    \A c \in Callers : rt[c] # NoWorker =>
        pc[c] \in Holding /\ pc[rt[c]] \in Live /\ task[rt[c]] = task[c]

IntentsAsked == \A w \in Workers : intent[w] = "cancel" => task[w] \in cancelAsked
CancellingAsked == \A w \in Workers : pc[w] = "cancelling" => task[w] \in cancelAsked

AskedInv == CancellersAsked /\ HoldersHold /\ IntentsAsked /\ CancellingAsked

LEMMA OwnStepFrame ==
    ASSUME ControlInv, NEW p \in Procs, OwnStep(p)
    PROVE  \A q \in Procs : q # p => pc'[q] = pc[q] /\ task'[q] = task[q]
BY DEF ControlInv, PCsOK, TasksOK, OwnStep

\* A step of a process that is no worker leaves the workers alone; the part of
\* AskedInv about process p itself is what remains to be seen.
LEMMA BystanderKeepsAsked ==
    ASSUME TypeInv, AskedInv, NEW p \in Procs, p \notin Workers, OwnStep(p),
           UNCHANGED tasks, cancelAsked \subseteq cancelAsked',
           \A c \in Callers : c # p => rt'[c] = rt[c],
           p \in Callers /\ pc'[p] \in CancelPCs => task'[p] \in cancelAsked',
           p \in Callers /\ rt'[p] # NoWorker =>
               rt'[p] \in Workers /\ pc'[p] \in Holding /\ pc[rt'[p]] \in Live
                 /\ task[rt'[p]] = task'[p]
    PROVE  AskedInv'
<1>1. \A q \in Procs : q # p => pc'[q] = pc[q] /\ task'[q] = task[q]
    BY OwnStepFrame DEF TypeInv, CoreInv
<1>2. /\ \A w \in Workers : w \in Procs /\ w # p
      /\ \A c \in Callers : c \in Procs
    BY DEF Procs
<1>3. CancellersAsked'
    BY <1>1, <1>2 DEF AskedInv, CancellersAsked
<1>4. HoldersHold'
    <2>. SUFFICES ASSUME NEW c \in Callers, rt'[c] # NoWorker
                  PROVE  pc'[c] \in Holding /\ pc'[rt'[c]] \in Live /\ task'[rt'[c]] = task'[c]
        BY DEF HoldersHold
    <2>1. CASE c = p
        BY <1>1, <1>2, <2>1
    <2>2. CASE c # p
        <3>1. rt'[c] = rt[c] /\ rt[c] \in Workers
            BY <2>2 DEF TypeInv, RuntimeTaskOK
        <3>. QED  BY <1>1, <1>2, <2>2, <3>1 DEF AskedInv, HoldersHold
    <2>. QED  BY <2>1, <2>2
<1>5. IntentsAsked' /\ CancellingAsked'
    BY <1>1, <1>2 DEF AskedInv, IntentsAsked, CancellingAsked, tasks
<1>. QED  BY <1>3, <1>4, <1>5 DEF AskedInv

LEMMA WorkKeepsAsked ==
    ASSUME TypeInv, AskedInv, NEW w \in Workers, Work(w)
    PROVE  AskedInv'
<1>1. ControlInv
    BY DEF TypeInv, CoreInv
<1>2. /\ w \in Procs
      /\ \A c \in Callers : c \in Procs /\ c # w /\ c \notin Tails
      /\ \A v \in Workers : v \in Procs /\ v \notin Tails
    BY ProcessAssumption DEF ProcessAssumption, Procs
<1>3. cancelAsked' = cancelAsked
    BY DEF Work, MarkRunning, TransferReturns, ArchiveCompleted, MarkFailed, LoadIntent,
           ArchiveCancelled, MarkPaused, Exit, WorkerUnchanged
<1>4. \A c \in Callers : rt[c] # NoWorker => rt[c] \in Workers
    BY DEF TypeInv, RuntimeTaskOK
<1>5. CASE Exit(w)
    <2>1. PICK d \in Tails : pc' = [pc EXCEPT ![w] = "free", ![d] = "dispatch"]
        BY <1>5 DEF Exit
    <2>2. \A q \in Procs : q # w /\ q # d => pc'[q] = pc[q]
        BY <1>1, <2>1 DEF ControlInv, PCsOK
    <2>3. \A q \in Procs : q # w => task'[q] = task[q]
        BY <1>1, <1>5 DEF Exit, ControlInv, TasksOK
    <2>4. /\ pc'[w] = "free"
          /\ intent'[w] = "none" /\ \A v \in Workers : v # w => intent'[v] = intent[v]
        BY <1>1, <1>2, <1>5, <2>1, ProcessAssumption
           DEF Exit, ControlInv, PCsOK, TypeInv, RuntimeTaskOK, ProcessAssumption
    <2>5. CancellersAsked'
        BY <1>2, <1>3, <2>2, <2>3 DEF AskedInv, CancellersAsked
    <2>6. HoldersHold'
        <3>. SUFFICES ASSUME NEW c \in Callers, rt'[c] # NoWorker
                      PROVE  pc'[c] \in Holding /\ pc'[rt'[c]] \in Live /\ task'[rt'[c]] = task'[c]
            BY DEF HoldersHold
        <3>1. rt'[c] = rt[c] /\ rt[c] # w
            BY <1>5 DEF Exit
        <3>. QED  BY <1>2, <1>4, <2>2, <2>3, <3>1 DEF AskedInv, HoldersHold
    <2>7. IntentsAsked' /\ CancellingAsked'
        BY <1>2, <1>3, <2>2, <2>3, <2>4 DEF AskedInv, IntentsAsked, CancellingAsked
    <2>. QED  BY <2>5, <2>6, <2>7 DEF AskedInv
<1>6. CASE OwnStep(w) /\ ~Exit(w)
    <2>1. /\ \A q \in Procs : q # w => pc'[q] = pc[q]
          /\ \A q \in Procs : task'[q] = task[q]
          /\ pc'[w] \in Live
        BY <1>1, <1>2, <1>6, OwnStepFrame DEF OwnStep
    <2>2. UNCHANGED <<intent, rt>>
        BY <1>6 DEF Work, MarkRunning, TransferReturns, ArchiveCompleted, MarkFailed, LoadIntent,
                    ArchiveCancelled, MarkPaused, WorkerUnchanged, tasks
    <2>3. pc'[w] = "cancelling" => intent[w] = "cancel"
        BY <1>1, <1>2, <1>6
           DEF Work, MarkRunning, TransferReturns, ArchiveCompleted, MarkFailed, LoadIntent,
               ArchiveCancelled, MarkPaused, Goto, ControlInv, PCsOK
    <2>4. CancellersAsked' /\ HoldersHold'
        BY <1>2, <1>3, <1>4, <2>1, <2>2 DEF AskedInv, CancellersAsked, HoldersHold
    <2>5. IntentsAsked' /\ CancellingAsked'
        BY <1>2, <1>3, <2>1, <2>2, <2>3 DEF AskedInv, IntentsAsked, CancellingAsked
    <2>. QED  BY <2>4, <2>5 DEF AskedInv
<1>. QED  BY <1>1, <1>5, <1>6, WorkIsOwnStep

LEMMA AdmitKeepsAsked ==
    ASSUME TypeInv, AskedInv, NEW p \in Procs, p \notin Workers, DispatchAdmit(p)
    PROVE  AskedInv'
<1>1. ControlInv
    BY DEF TypeInv, CoreInv
<1>2. PICK S \in Admitted(snap[p]) : \E by \in Injection(S, FreeWorkers) : StartTasks(p, S, by)
    BY DEF DispatchAdmit
<1>3. PICK by \in Injection(S, FreeWorkers) : StartTasks(p, S, by)
    BY <1>2
<1>4. S \in SUBSET Startable(snap[p])
    BY DEF Admitted
<1>5. /\ \A id \in S : /\ by[id] \in Workers /\ pc[by[id]] = "free"
                       /\ pc'[by[id]] = "started"
      /\ \A q \in Procs : \/ \E id \in S : q = by[id]
                          \/ q = p /\ pc'[q] = Continuation(p) /\ task'[q] = NoTask
                          \/ q # p /\ pc'[q] = pc[q] /\ task'[q] = task[q]
    BY <1>1, <1>3, <1>4, StartTasksFacts
<1>6. /\ \A c \in Callers : c \in Procs /\ c \notin Workers /\ c # Boot
      /\ \A w \in Workers : w \in Procs
    BY ProcessAssumption DEF ProcessAssumption, Procs
<1>7. /\ UNCHANGED <<rt, cancelAsked>>
      /\ pc[p] = "admit"
      /\ \A w \in Workers : intent'[w] \in {"none", intent[w]}
      /\ \A id \in S : intent'[by[id]] = "none"
    <2>1. \A id \in S : by[id] \in Range(by)
        BY DEF Injection, Range
    <2>. QED  BY <1>3, <1>5, <2>1 DEF DispatchAdmit, StartTasks
<1>8. CancellersAsked'
    <2>1. \A c \in Callers : Continuation(c) = "idle"
        BY <1>6 DEF Continuation, Resting
    <2>2. \A c \in Callers : \/ pc'[c] = "idle"
                             \/ pc'[c] = pc[c] /\ task'[c] = task[c]
        BY <1>5, <1>6, <2>1
    <2>. QED  BY <1>7, <2>2 DEF AskedInv, CancellersAsked, CancelPCs
<1>9. HoldersHold'
    <2>. SUFFICES ASSUME NEW c \in Callers, rt[c] # NoWorker
                  PROVE  pc'[c] \in Holding /\ pc'[rt[c]] \in Live /\ task'[rt[c]] = task'[c]
        BY <1>7 DEF HoldersHold
    <2>1. /\ rt[c] \in Workers
          /\ pc[c] \in Holding /\ pc[rt[c]] \in Live /\ task[rt[c]] = task[c]
        BY DEF TypeInv, RuntimeTaskOK, AskedInv, HoldersHold
    <2>2. c # p /\ pc[rt[c]] # "free"
        BY <1>7, <2>1 DEF Holding, Live
    <2>. QED  BY <1>5, <1>6, <2>1, <2>2
<1>10. IntentsAsked' /\ CancellingAsked'
    BY <1>5, <1>6, <1>7 DEF AskedInv, IntentsAsked, CancellingAsked
<1>. QED  BY <1>8, <1>9, <1>10 DEF AskedInv

LEMMA CallerKeepsAsked ==
    ASSUME TypeInv, AskedInv,
           NEW c \in Callers, BeginCall(c) \/ QueueCopy(c) \/ ContinueCall(c) \/ DispatchList(c),
           ~Signal(c)
    PROVE  AskedInv'
<1>1. ControlInv /\ nextID \in 1 .. MaxTasks + 1
    BY DEF TypeInv, CoreInv, DurableOK
<1>2. c \in Procs /\ c \notin Workers
    BY ProcessAssumption DEF ProcessAssumption, Procs
<1>3. OwnStep(c)
    BY <1>1, CallerIsOwnStep
<1>4. /\ c \in DOMAIN pc /\ c \in DOMAIN task /\ c \in DOMAIN rt
      /\ pc[c] \in CancelPCs => task[c] \in cancelAsked
      /\ rt[c] # NoWorker => /\ rt[c] \in Workers /\ pc[c] \in Holding
                             /\ pc[rt[c]] \in Live /\ task[rt[c]] = task[c]
    BY <1>1, <1>2 DEF ControlInv, PCsOK, TasksOK, TypeInv, RuntimeTaskOK, AskedInv,
                      CancellersAsked, HoldersHold
<1>5. ASSUME UNCHANGED <<tasks, rt, cancelAsked>>,
             pc'[c] \in CancelPCs => pc[c] \in CancelPCs /\ task'[c] = task[c],
             pc[c] \in Holding => pc'[c] \in Holding /\ task'[c] = task[c]
      PROVE  AskedInv'
    BY <1>2, <1>3, <1>4, <1>5, BystanderKeepsAsked
<1>6. ASSUME UNCHANGED <<tasks, cancelAsked>>, Return(c)
      PROVE  AskedInv'
    <2>1. rt'[c] = NoWorker /\ pc'[c] = "idle" /\ \A d \in Callers : d # c => rt'[d] = rt[d]
        BY <1>4, <1>6 DEF Return, Goto, TypeInv, RuntimeTaskOK
    <2>. QED  BY <1>2, <1>3, <1>6, <2>1, BystanderKeepsAsked DEF CancelPCs
<1>7. ASSUME NEW id \in Ids, NEW ifRunning \in Holding, NEW ifNot \in CallerPCs,
             Lookup(c, id, ifRunning, ifNot), UNCHANGED tasks, cancelAsked \subseteq cancelAsked',
             ifRunning \in CancelPCs \/ ifNot \in CancelPCs => id \in cancelAsked'
      PROVE  AskedInv'
    <2>1. /\ rt'[c] = running[id] /\ task'[c] = id
          /\ pc'[c] = IF running[id] = NoWorker THEN ifNot ELSE ifRunning
          /\ \A d \in Callers : d # c => rt'[d] = rt[d]
        BY <1>4, <1>7 DEF Lookup, Proceed, Goto, TypeInv, RuntimeTaskOK
    <2>2. running[id] # NoWorker => /\ running[id] \in Workers
                                    /\ pc[running[id]] \in Live /\ task[running[id]] = id
        BY <1>1 DEF ControlInv, RunningOK, OneGoroutinePerTask
    <2>. QED  BY <1>2, <1>3, <1>7, <2>1, <2>2, BystanderKeepsAsked
<1>. USE DEF Goto, Proceed, CancelPCs, Holding
<1>8. CASE BeginCall(c)
    <2>1. ASSUME NEW id \in 1 .. nextID - 1, CancelLookup(c, id)
          PROVE  AskedInv'
        <3>1. id \in Ids
            BY <1>1, BoundAssumption DEF BoundAssumption, Ids
        <3>2. cancelAsked' = cancelAsked \cup {id} /\ Lookup(c, id, "cancel_signal", "cancel_read")
              /\ UNCHANGED tasks
            BY <2>1 DEF CancelLookup
        <3>. QED  BY <1>7, <3>1, <3>2 DEF CallerPCs
    <2>2. CASE \E type \in Types, priority \in Priorities : Queue(c, type, priority)
        BY <1>4, <1>5, <2>2 DEF Queue, Call
    <2>3. CASE \E n \in Limits : SetMaxConcurrentTasks(c, n)
        BY <1>4, <1>5, <2>3 DEF SetMaxConcurrentTasks, Call
    <2>4. CASE \/ \E id \in Ids, priority \in Priorities : ReorderTask(c, id, priority)
               \/ ClearHistory(c)
        BY <1>4, <1>5, <2>4 DEF ReorderTask, ClearHistory, Call
    <2>5. ASSUME NEW id \in 1 .. nextID - 1, ResumeRead(c, id) \/ RetryRead(c, id) \/ PauseRead(c, id)
          PROVE  AskedInv'
        BY <1>4, <1>5, <2>5 DEF ResumeRead, RetryRead, PauseRead, Call
    <2>. QED  BY <1>8, <2>1, <2>2, <2>3, <2>4, <2>5 DEF BeginCall
<1>9. CASE QueueCopy(c)
    BY <1>4, <1>5, <1>9 DEF QueueCopy, Call
<1>10. CASE ContinueCall(c)
    <2>1. CASE QueueCopyEnd(c) \/ MakePending(c)
        BY <1>2, <1>4, <1>5, <2>1, ProcessAssumption
           DEF QueueCopyEnd, MakePending, Continuation, Resting, ProcessAssumption
    <2>2. CASE PauseLookup(c)
        <3>1. task[c] \in Ids
            BY <1>1, <2>2 DEF PauseLookup, ControlInv, TargetsKnown, Targeting
        <3>. QED  BY <1>7, <2>2, <3>1 DEF PauseLookup, CallerPCs
    <2>3. CASE PauseReadAgain(c) \/ CancelRead(c)
        BY <1>4, <1>5, <1>6, <2>3 DEF PauseReadAgain, CancelRead
    <2>4. CASE PauseWrite(c) \/ CancelArchive(c) \/ Await(c)
        BY <1>6, <2>4 DEF PauseWrite, CancelArchive, Await
    <2>. QED  BY <1>10, <2>1, <2>2, <2>3, <2>4 DEF ContinueCall
<1>11. CASE DispatchList(c)
    BY <1>4, <1>5, <1>11 DEF DispatchList
<1>. QED  BY <1>8, <1>9, <1>10, <1>11

\* Only CancelTask stores the intent "cancel", for the task it was called with.
LEMMA SignalKeepsAsked ==
    ASSUME TypeInv, AskedInv, NEW c \in Callers, Signal(c)
    PROVE  AskedInv'
<1>1. /\ pc[c] \in {"pause_signal", "cancel_signal"}
      /\ pc' = [pc EXCEPT ![c] = IF pc[c] = "pause_signal" THEN "pause_wait" ELSE "cancel_wait"]
      /\ UNCHANGED <<task, rt, cancelAsked>>
    BY DEF Signal, Goto
<1>2. /\ c \in Procs /\ c \notin Workers /\ c \in DOMAIN pc
      /\ \A q \in Procs : q # c => pc'[q] = pc[q]
      /\ \A w \in Workers : w \in Procs
      /\ \A d \in Callers : d \in Procs
    BY <1>1, ProcessAssumption DEF ProcessAssumption, Procs, TypeInv, CoreInv, ControlInv, PCsOK
<1>3. CancellersAsked'
    BY <1>1, <1>2 DEF AskedInv, CancellersAsked, CancelPCs
<1>4. HoldersHold'
    <2>. SUFFICES ASSUME NEW d \in Callers, rt[d] # NoWorker
                  PROVE  pc'[d] \in Holding /\ pc'[rt[d]] \in Live /\ task[rt[d]] = task[d]
        BY <1>1 DEF HoldersHold
    <2>1. rt[d] \in Workers
        BY DEF TypeInv, RuntimeTaskOK
    <2>. QED  BY <1>1, <1>2, <2>1 DEF AskedInv, HoldersHold, Holding
<1>5. IntentsAsked'
    <2>1. CASE rt[c] = NoWorker
        BY <1>1, <2>1 DEF Signal, tasks, AskedInv, IntentsAsked
    <2>2. CASE rt[c] # NoWorker
        <3>1. /\ rt[c] \in Workers /\ task[rt[c]] = task[c]
              /\ pc[c] = "cancel_signal" => task[c] \in cancelAsked
            BY <2>2 DEF TypeInv, RuntimeTaskOK, AskedInv, HoldersHold, CancellersAsked, CancelPCs
        <3>2. intent' = [intent EXCEPT ![rt[c]] =
                            IF pc[c] = "pause_signal" THEN "pause" ELSE "cancel"]
            BY <2>2 DEF Signal
        <3>. QED  BY <1>1, <3>1, <3>2 DEF TypeInv, RuntimeTaskOK, AskedInv, IntentsAsked
    <2>. QED  BY <2>1, <2>2
<1>6. CancellingAsked'
    BY <1>1, <1>2 DEF AskedInv, CancellingAsked
<1>. QED  BY <1>3, <1>4, <1>5, <1>6 DEF AskedInv

LEMMA BootKeepsAsked ==
    ASSUME TypeInv, AskedInv, BootStep, ~DispatchAdmit(Boot)
    PROVE  AskedInv'
<1>1. Boot \in Procs /\ Boot \notin Workers /\ Boot \notin Callers
    BY ProcessAssumption DEF ProcessAssumption, Procs
<1>2. UNCHANGED <<tasks, rt, cancelAsked>>
    BY DEF BootStep, ApplySettings, SettingsUnreadable, RecoverList, RecoverTask, RecoverDone,
           AutoResumeNext, AutoResumeDone, MakePending, Dispatch, DispatchList, BootUnchanged
<1>3. OwnStep(Boot)
    BY BootIsOwnStep DEF TypeInv, CoreInv
<1>. QED  BY <1>1, <1>2, <1>3, BystanderKeepsAsked

LEMMA NextKeepsAsked ==
    ASSUME TypeInv, AskedInv, [Next]_vars
    PROVE  AskedInv'
<1>1. ASSUME NEW d \in Tails, DispatchList(d)
      PROVE  AskedInv'
    <2>1. /\ d \in Procs /\ d \notin Workers /\ d \notin Callers
          /\ PCs(d) = TailPCs
        BY ProcessAssumption DEF ProcessAssumption, Procs, PCs
    <2>2. OwnStep(d)
        BY <1>1, <2>1
           DEF DispatchList, Goto, OwnStep, TypeInv, CoreInv, ControlInv, PCsOK, TasksOK, memory,
               TailPCs, Dispatching, Targeting
    <2>3. UNCHANGED <<tasks, rt, cancelAsked>>
        BY <1>1 DEF DispatchList
    <2>. QED  BY <2>1, <2>2, <2>3, BystanderKeepsAsked
<1>2. CASE Crash
    <2>1. /\ \A c \in Callers : c \in Procs /\ c # Boot
          /\ \A w \in Workers : w \in Procs /\ w # Boot /\ w \notin Callers
        BY ProcessAssumption DEF ProcessAssumption, Procs
    <2>2. /\ pc' = [p \in Procs |-> Resting(p)]
          /\ intent' = [w \in Workers |-> "none"]
          /\ rt' = [c \in Callers |-> NoWorker]
        BY <1>2 DEF Crash
    <2>3. /\ \A c \in Callers : pc'[c] = "idle" /\ rt'[c] = NoWorker
          /\ \A w \in Workers : pc'[w] = "free" /\ intent'[w] = "none"
        BY <2>1, <2>2 DEF Resting
    <2>. QED  BY <2>3 DEF AskedInv, CancellersAsked, HoldersHold, IntentsAsked, CancellingAsked, CancelPCs
<1>3. CASE UNCHANGED vars
    BY <1>3 DEF vars, tasks, AskedInv, CancellersAsked, HoldersHold, IntentsAsked, CancellingAsked
<1>4. \A p \in Callers \cup Tails \cup {Boot} : p \in Procs /\ p \notin Workers
    BY ProcessAssumption DEF ProcessAssumption, Procs
<1>. QED  BY <1>1, <1>2, <1>3, <1>4, WorkKeepsAsked, AdmitKeepsAsked, CallerKeepsAsked,
             SignalKeepsAsked, BootKeepsAsked
          DEF Next, CallerStep, Dispatch

LEMMA NextKeepsCancelled ==
    ASSUME TypeInv, AskedInv, CancelledOnlyIfAsked, [Next]_vars
    PROVE  CancelledOnlyIfAsked'
<1>1. cancelAsked \subseteq cancelAsked'
    <2>1. ASSUME NEW p, Dispatch(p) \/ MakePending(p)
          PROVE  cancelAsked' = cancelAsked
        BY <2>1 DEF Dispatch, DispatchList, DispatchAdmit, MakePending
    <2>2. ASSUME NEW w \in Workers, Work(w)
          PROVE  cancelAsked' = cancelAsked
        BY <2>2 DEF Work, MarkRunning, TransferReturns, ArchiveCompleted, MarkFailed, LoadIntent,
                    ArchiveCancelled, MarkPaused, Exit, WorkerUnchanged
    <2>3. ASSUME NEW c \in Callers, BeginCall(c) \/ QueueCopy(c)
          PROVE  cancelAsked \subseteq cancelAsked'
        BY <2>3 DEF BeginCall, Queue, SetMaxConcurrentTasks, ReorderTask, ClearHistory,
                    ResumeRead, RetryRead, PauseRead, CancelLookup, QueueCopy
    <2>4. ASSUME NEW c \in Callers, ContinueCall(c)
          PROVE  cancelAsked' = cancelAsked
        BY <2>1, <2>4 DEF ContinueCall, QueueCopyEnd, PauseLookup, PauseReadAgain, PauseWrite,
                          CancelRead, CancelArchive, Signal, Await
    <2>5. BootStep \/ Crash \/ UNCHANGED vars => cancelAsked' = cancelAsked
        BY <2>1
           DEF BootStep, ApplySettings, SettingsUnreadable, RecoverList, RecoverTask, RecoverDone,
               AutoResumeNext, AutoResumeDone, BootUnchanged, Crash, vars
    <2>. QED  BY <2>1, <2>2, <2>3, <2>4, <2>5 DEF Next, CallerStep
<1>2. DatabaseStep
    BY NextIsDatabaseStep DEF TypeInv, CoreInv, ControlInv
<1>3. ASSUME history' = history
      PROVE  CancelledOnlyIfAsked'
    BY <1>1, <1>3 DEF CancelledOnlyIfAsked
<1>4. ASSUME NEW id \in Ids, NEW outcome \in Outcomes, MoveToHistory(id, outcome),
             outcome = "cancelled" => id \in cancelAsked
      PROVE  CancelledOnlyIfAsked'
    <2>1. CASE InQueue(id)
        <3>. DEFINE h == history[id]
        <3>1. h \in Seq(Outcomes) /\ history' = [history EXCEPT ![id] = Append(h, outcome)]
            BY <1>4, <2>1 DEF MoveToHistory, TypeInv, CoreInv, DurableOK
        <3>2. Range(Append(h, outcome)) \subseteq Range(h) \cup {outcome}
            <4>. HIDE DEF h
            <4>1. /\ Append(h, outcome) \in Seq(Outcomes)
                  /\ Len(Append(h, outcome)) = Len(h) + 1
                  /\ \A i \in 1 .. Len(h) : Append(h, outcome)[i] = h[i]
                  /\ Append(h, outcome)[Len(h) + 1] = outcome
                BY <3>1, AppendProperties
            <4>2. /\ Len(h) \in Nat /\ DOMAIN h = 1 .. Len(h)
                  /\ DOMAIN Append(h, outcome) = 1 .. Len(h) + 1
                BY <3>1, <4>1, LenProperties
            <4>3. \A i \in 1 .. Len(h) + 1 : i \in 1 .. Len(h) \/ i = Len(h) + 1
                BY <4>2
            <4>. QED  BY <4>1, <4>2, <4>3 DEF Range
        <3>. QED  BY <1>1, <1>4, <3>1, <3>2 DEF CancelledOnlyIfAsked, TypeInv, CoreInv, DurableOK
    <2>2. CASE ~InQueue(id)
        BY <1>3, <1>4, <2>2 DEF MoveToHistory
    <2>. QED  BY <2>1, <2>2
<1>5. ASSUME NEW id \in Ids, Cancelling(id)
      PROVE  id \in cancelAsked
    BY <1>5 DEF Cancelling, AskedInv, CancellersAsked, CancellingAsked, CancelPCs
<1>6. CASE history' = [id \in Ids |-> <<>>]
    BY <1>6 DEF CancelledOnlyIfAsked, Range
<1>. QED  BY <1>2, <1>3, <1>4, <1>5, <1>6 DEF DatabaseStep, durable, UpdateStatus, Create, Outcomes

\* Whatever pauses, cancellations, crashes and stale lists do, a task enters the
\* history as "cancelled" only after a CancelTask call for it (runningTask.intent).
THEOREM CancelledOnlyIfAskedAlways == Spec => []CancelledOnlyIfAsked
<1>1. Init => AskedInv /\ CancelledOnlyIfAsked
    <2>. SUFFICES ASSUME Init PROVE AskedInv /\ CancelledOnlyIfAsked
        OBVIOUS
    <2>1. /\ \A c \in Callers : c \in Procs /\ c # Boot
          /\ \A w \in Workers : w \in Procs /\ w # Boot /\ w \notin Callers
        BY ProcessAssumption DEF ProcessAssumption, Procs
    <2>2. /\ pc = [p \in Procs |-> Resting(p)]
          /\ intent = [w \in Workers |-> "none"]
          /\ rt = [c \in Callers |-> NoWorker]
          /\ history = [id \in Ids |-> <<>>]
        BY DEF Init
    <2>3. /\ \A c \in Callers : pc[c] = "idle" /\ rt[c] = NoWorker
          /\ \A w \in Workers : pc[w] = "free" /\ intent[w] = "none"
        BY <2>1, <2>2 DEF Resting
    <2>4. CancelledOnlyIfAsked
        <3>1. \A id \in Ids : history[id] = <<>>
            BY <2>2
        <3>2. Range(<<>>) = {}
            BY DEF Range
        <3>. QED  BY <3>1, <3>2 DEF CancelledOnlyIfAsked
    <2>. QED  BY <2>3, <2>4
              DEF AskedInv, CancellersAsked, HoldersHold, IntentsAsked, CancellingAsked, CancelPCs
<1>2. TypeInv /\ AskedInv /\ CancelledOnlyIfAsked /\ [Next]_vars
        => AskedInv' /\ CancelledOnlyIfAsked'
    BY NextKeepsAsked, NextKeepsCancelled
<1>. QED  BY <1>1, <1>2, TypeInvAlways, PTL DEF Spec

-----------------------------------------------------------------------------
(* Rows that say "running".                                                 *)

\* Only MarkRunning says so of a row, and its goroutine, found in running, takes
\* that back before it leaves.
RowsOwned ==
    \A id \in Ids : HasStatus(id, "running") =>
        running[id] # NoWorker /\ pc[running[id]] # "exiting"

\* The step makes no row "running".
NoNewRunning == \A id \in Ids : HasStatus(id, "running")' => HasStatus(id, "running")

LEMMA StatusStays ==
    ASSUME CoreInv, UNCHANGED queue
    PROVE  NoNewRunning
BY DEF NoNewRunning, HasStatus, InQueue

LEMMA UpdateLeavesRunning ==
    ASSUME CoreInv, NEW id \in Ids, NEW s \in Statuses \ {"running"}, UpdateStatus(id, s)
    PROVE  NoNewRunning /\ ~HasStatus(id, "running")'
<1>. USE RowAssumption DEF RowAssumption, Row
<1>1. queue \in [Ids -> Row \cup {NoRow}]
    BY DEF CoreInv, DurableOK
<1>2. CASE InQueue(id)
    <2>1. queue' = [queue EXCEPT ![id].status = s]
        BY <1>2 DEF UpdateStatus
    <2>2. queue'[id].status = s
        BY <1>1, <1>2, <2>1 DEF InQueue
    <2>3. \A other \in Ids \ {id} : queue'[other] = queue[other]
        BY <1>1, <2>1
    <2>. QED  BY <2>2, <2>3 DEF NoNewRunning, HasStatus, InQueue
<1>3. CASE ~InQueue(id)
    BY <1>1, <1>3 DEF UpdateStatus, NoNewRunning, HasStatus, InQueue
<1>. QED  BY <1>2, <1>3

LEMMA ArchiveLeavesRunning ==
    ASSUME CoreInv, NEW id \in Ids, NEW outcome \in Outcomes, MoveToHistory(id, outcome)
    PROVE  NoNewRunning /\ ~HasStatus(id, "running")'
<1>1. queue \in [Ids -> Row \cup {NoRow}]
    BY DEF CoreInv, DurableOK
<1>2. CASE InQueue(id)
    BY <1>1, <1>2 DEF MoveToHistory, NoNewRunning, HasStatus, InQueue
<1>3. CASE ~InQueue(id)
    BY <1>1, <1>3 DEF MoveToHistory, NoNewRunning, HasStatus, InQueue
<1>. QED  BY <1>2, <1>3

LEMMA CreateLeavesRunning ==
    ASSUME CoreInv, NEW type \in Types, NEW priority \in Priorities, Create(type, priority)
    PROVE  NoNewRunning
<1>1. queue \in [Ids -> Row \cup {NoRow}]
    BY DEF CoreInv, DurableOK
<1>2. PICK id \in Ids :
          queue' = [queue EXCEPT ![id] =
                       [status |-> "pending", priority |-> priority, type |-> type]]
    BY DEF Create
<1>3. \A other \in Ids \ {id} : queue'[other] = queue[other]
    BY <1>1, <1>2
<1>4. queue'[id].status = "pending"
    BY <1>1, <1>2
<1>. QED  BY <1>3, <1>4 DEF NoNewRunning, HasStatus, InQueue

LEMMA ReorderLeavesRunning ==
    ASSUME CoreInv, NEW c \in Callers, NEW id \in Ids, NEW priority \in Priorities,
           ReorderTask(c, id, priority)
    PROVE  NoNewRunning
<1>. USE RowAssumption DEF RowAssumption, Row
<1>1. queue \in [Ids -> Row \cup {NoRow}]
    BY DEF CoreInv, DurableOK
<1>2. InQueue(id) /\ queue' = [queue EXCEPT ![id].priority = priority]
    BY DEF ReorderTask
<1>3. \A other \in Ids \ {id} : queue'[other] = queue[other]
    BY <1>1, <1>2
<1>4. queue'[id].status = queue[id].status
    BY <1>1, <1>2 DEF InQueue
<1>. QED  BY <1>2, <1>3, <1>4 DEF NoNewRunning, HasStatus, InQueue

LEMMA CallerLeavesRunning ==
    ASSUME CoreInv, NEW c \in Callers,
           BeginCall(c) \/ QueueCopy(c) \/ ContinueCall(c) \/ DispatchList(c)
    PROVE  NoNewRunning
<1>1. pc[c] \in Targeting => task[c] \in Ids
    BY DEF CoreInv, ControlInv, TargetsKnown
<1>2. ASSUME NEW type \in Types, NEW priority \in Priorities, Queue(c, type, priority)
      PROVE  NoNewRunning
    BY <1>2, CreateLeavesRunning DEF Queue
<1>3. ASSUME NEW id \in Ids, NEW priority \in Priorities, ReorderTask(c, id, priority)
      PROVE  NoNewRunning
    BY <1>3, ReorderLeavesRunning
<1>4. CASE QueueCopy(c)
    BY <1>4, CreateLeavesRunning, DataAssumption DEF QueueCopy, DataAssumption
<1>5. CASE PauseWrite(c)
    BY <1>1, <1>5, UpdateLeavesRunning DEF PauseWrite, Targeting, Statuses
<1>6. CASE CancelArchive(c)
    BY <1>1, <1>6, ArchiveLeavesRunning DEF CancelArchive, Targeting, Outcomes
<1>7. CASE MakePending(c)
    BY <1>1, <1>7, UpdateLeavesRunning DEF MakePending, Targeting, Statuses
<1>8. CASE BeginCall(c)
    <2>1. CASE ClearHistory(c) \/ \E n \in Limits : SetMaxConcurrentTasks(c, n)
        BY <2>1, StatusStays DEF ClearHistory, SetMaxConcurrentTasks, durable
    <2>2. CASE \E id \in 1 .. nextID - 1 : \/ ResumeRead(c, id) \/ RetryRead(c, id)
                                           \/ PauseRead(c, id)  \/ CancelLookup(c, id)
        BY <2>2, StatusStays DEF ResumeRead, RetryRead, PauseRead, CancelLookup, durable
    <2>. QED  BY <1>2, <1>3, <1>8, <2>1, <2>2 DEF BeginCall
<1>9. CASE \/ QueueCopyEnd(c) \/ PauseLookup(c) \/ PauseReadAgain(c) \/ CancelRead(c)
           \/ Signal(c) \/ Await(c) \/ DispatchList(c)
    BY <1>9, StatusStays DEF QueueCopyEnd, PauseLookup, PauseReadAgain, CancelRead, Signal, Await,
                             DispatchList, durable
<1>. QED  BY <1>4, <1>5, <1>6, <1>7, <1>8, <1>9 DEF ContinueCall

LEMMA BootLeavesRunning ==
    ASSUME CoreInv, BootStep, ~DispatchAdmit(Boot)
    PROVE  NoNewRunning
<1>1. pc[Boot] \in Targeting => task[Boot] \in Ids
    BY DEF CoreInv, ControlInv, TargetsKnown
<1>2. ASSUME NEW id \in Ids, RecoverTask(id)
      PROVE  NoNewRunning
    BY <1>2, UpdateLeavesRunning DEF RecoverTask, Statuses
<1>3. CASE MakePending(Boot)
    BY <1>1, <1>3, UpdateLeavesRunning DEF MakePending, Targeting, Statuses
<1>4. CASE \/ ApplySettings \/ SettingsUnreadable \/ RecoverList \/ RecoverDone
           \/ AutoResumeNext \/ AutoResumeDone \/ DispatchList(Boot)
    BY <1>4, StatusStays
       DEF ApplySettings, SettingsUnreadable, RecoverList, RecoverDone, AutoResumeNext,
           AutoResumeDone, DispatchList, durable
<1>. QED  BY <1>2, <1>3, <1>4 DEF BootStep, Dispatch

\* A step of a process that is no goroutine of a task leaves their places alone.
LEMMA BystanderKeepsOwned ==
    ASSUME CoreInv, RowsOwned, NEW p \in Procs, p \notin Workers, OwnStep(p), NoNewRunning
    PROVE  RowsOwned'
<1>1. /\ \A q \in Procs : q # p => pc'[q] = pc[q]
      /\ running' = running
    BY OwnStepFrame DEF CoreInv, OwnStep
<1>2. \A id \in Ids : running[id] # NoWorker => running[id] \in Procs /\ running[id] # p
    BY DEF CoreInv, ControlInv, RunningOK, Procs
<1>. QED  BY <1>1, <1>2 DEF RowsOwned, NoNewRunning

LEMMA WorkKeepsOwned ==
    ASSUME CoreInv, RowsOwned, NEW w \in Workers, Work(w)
    PROVE  RowsOwned'
<1>1. w \in Procs /\ DOMAIN pc = Procs
    BY DEF CoreInv, ControlInv, PCsOK, Procs
<1>2. pc[w] \in Live => task[w] \in Ids /\ running[task[w]] = w
    BY DEF CoreInv, ControlInv, OneGoroutinePerTask
<1>3. \A id \in Ids : running[id] = w => task[w] = id
    BY ProcessAssumption DEF CoreInv, ControlInv, OneGoroutinePerTask, ProcessAssumption
<1>4. ASSUME NEW label, Goto(w, label), UNCHANGED running, NoNewRunning,
             label = "exiting" => task' = task /\ ~HasStatus(task[w], "running")'
      PROVE  RowsOwned'
    <2>1. /\ \A q \in Procs : q # w => pc'[q] = pc[q]
          /\ pc'[w] = label
        BY <1>1, <1>4 DEF Goto
    <2>2. \A id \in Ids : running[id] # NoWorker => running[id] \in Procs
        BY DEF CoreInv, ControlInv, RunningOK, Procs
    <2>3. ASSUME NEW id \in Ids, HasStatus(id, "running")'
          PROVE  running'[id] # NoWorker /\ pc'[running'[id]] # "exiting"
        <3>1. HasStatus(id, "running")
            BY <1>4, <2>3 DEF NoNewRunning
        <3>2. running[id] # NoWorker /\ pc[running[id]] # "exiting"
            BY <3>1 DEF RowsOwned
        <3>3. running'[id] = running[id] /\ running[id] \in Procs
            BY <1>4, <2>2, <3>2
        <3>4. CASE running[id] = w
            <4>1. task[w] = id
                BY <1>3, <3>4
            <4>2. label # "exiting"
                BY <1>4, <2>3, <4>1
            <4>. QED  BY <2>1, <3>2, <3>3, <3>4, <4>2
        <3>5. CASE running[id] # w
            BY <2>1, <3>2, <3>3, <3>5
        <3>. QED  BY <3>4, <3>5
    <2>. QED  BY <2>3 DEF RowsOwned
<1>5. CASE MarkRunning(w)
    <2>1. /\ task[w] \in Ids /\ running[task[w]] = w
          /\ UpdateStatus(task[w], "running") /\ running' = running
          /\ \A q \in Procs : q # w => pc'[q] = pc[q]
          /\ pc'[w] = "transferring"
        BY <1>1, <1>2, <1>5 DEF MarkRunning, Live, Goto, WorkerUnchanged, memory
    <2>2. \A id \in Ids : id # task[w] => queue'[id] = queue[id]
        BY <2>1 DEF UpdateStatus, CoreInv, DurableOK
    <2>3. \A id \in Ids : running[id] # NoWorker => running[id] \in Procs
        BY DEF CoreInv, ControlInv, RunningOK, Procs
    <2>4. w # NoWorker
        BY ProcessAssumption DEF ProcessAssumption
    <2>5. \A id \in Ids : id # task[w] /\ HasStatus(id, "running")' => HasStatus(id, "running")
        BY <2>2 DEF HasStatus, InQueue
    <2>. QED  BY <1>3, <2>1, <2>3, <2>4, <2>5 DEF RowsOwned
<1>6. CASE TransferReturns(w) \/ LoadIntent(w)
    <2>1. PICK label \in Live \ {"exiting"} : Goto(w, label)
        BY <1>6 DEF TransferReturns, LoadIntent, Live
    <2>2. UNCHANGED <<queue, running>>
        BY <1>6 DEF TransferReturns, LoadIntent, durable, WorkerUnchanged, memory
    <2>. QED  BY <1>4, <2>1, <2>2, StatusStays
<1>7. CASE ArchiveCompleted(w) \/ ArchiveCancelled(w)
    <2>1. /\ task[w] \in Ids /\ \E outcome \in Outcomes : MoveToHistory(task[w], outcome)
          /\ Goto(w, "exiting") /\ running' = running /\ task' = task
        BY <1>2, <1>7 DEF ArchiveCompleted, ArchiveCancelled, Live, Outcomes, WorkerUnchanged, memory
    <2>2. NoNewRunning /\ ~HasStatus(task[w], "running")'
        BY <2>1, ArchiveLeavesRunning DEF HasStatus, InQueue
    <2>. QED  BY <1>4, <2>1, <2>2
<1>8. CASE MarkFailed(w) \/ MarkPaused(w)
    <2>1. /\ task[w] \in Ids
          /\ \E s \in Statuses \ {"running"} : UpdateStatus(task[w], s)
          /\ Goto(w, "exiting") /\ running' = running /\ task' = task
        BY <1>2, <1>8 DEF MarkFailed, MarkPaused, Live, Statuses, WorkerUnchanged, memory
    <2>2. NoNewRunning /\ ~HasStatus(task[w], "running")'
        BY <2>1, UpdateLeavesRunning DEF HasStatus, InQueue
    <2>. QED  BY <1>4, <2>1, <2>2
<1>9. CASE Exit(w)
    <2>1. PICK d \in Tails : pc[d] = "free" /\ pc' = [pc EXCEPT ![w] = "free", ![d] = "dispatch"]
        BY <1>9 DEF Exit
    <2>2. /\ task[w] \in Ids /\ running[task[w]] = w /\ pc[w] = "exiting"
          /\ running' = [running EXCEPT ![task[w]] = NoWorker] /\ queue' = queue
        BY <1>2, <1>9 DEF Exit, Live, durable
    <2>3. \A id \in Ids : id # task[w] => running'[id] = running[id] /\ running[id] # w
        BY <1>3, <2>2
    <2>4. \A q \in Workers : q # w => pc'[q] = pc[q]
        BY <1>1, <2>1, ProcessAssumption DEF ProcessAssumption, Procs
    <2>5. \A id \in Ids : running[id] # NoWorker => running[id] \in Workers
        BY DEF CoreInv, ControlInv, RunningOK
    <2>6. ~HasStatus(task[w], "running") /\ NoNewRunning
        BY <2>2, StatusStays, ProcessAssumption DEF RowsOwned, ProcessAssumption
    <2>7. ASSUME NEW id \in Ids, HasStatus(id, "running")'
          PROVE  running'[id] # NoWorker /\ pc'[running'[id]] # "exiting"
        <3>1. HasStatus(id, "running") /\ id # task[w]
            BY <2>6, <2>7 DEF NoNewRunning
        <3>2. running[id] # NoWorker /\ pc[running[id]] # "exiting"
            BY <3>1 DEF RowsOwned
        <3>3. running'[id] = running[id] /\ running[id] # w
            BY <2>3, <3>1
        <3>4. pc'[running[id]] = pc[running[id]]
            BY <2>4, <2>5, <3>2, <3>3
        <3>. QED  BY <3>2, <3>3, <3>4
    <2>. QED  BY <2>7 DEF RowsOwned
<1>. QED  BY <1>5, <1>6, <1>7, <1>8, <1>9 DEF Work

LEMMA AdmitKeepsOwned ==
    ASSUME CoreInv, RowsOwned, NEW p \in Procs, p \notin Workers, DispatchAdmit(p)
    PROVE  RowsOwned'
<1>1. PICK S \in Admitted(snap[p]) : \E by \in Injection(S, FreeWorkers) : StartTasks(p, S, by)
    BY DEF DispatchAdmit
<1>2. PICK by \in Injection(S, FreeWorkers) : StartTasks(p, S, by)
    BY <1>1
<1>3. S \in SUBSET Startable(snap[p])
    BY DEF Admitted
<1>4. ControlInv
    BY DEF CoreInv
<1>5. /\ \A id \in S : /\ id \in Ids /\ running[id] = NoWorker
                       /\ by[id] \in Workers /\ pc[by[id]] = "free"
      /\ \A id \in Ids \ S : running'[id] = running[id]
      /\ \A q \in Procs : \/ \E id \in S : q = by[id]
                          \/ q = p
                          \/ q # p /\ pc'[q] = pc[q]
    BY <1>2, <1>3, <1>4, StartTasksFacts
<1>6. \A id \in Ids : running[id] # NoWorker =>
          running[id] \in Workers /\ running[id] \in Procs /\ pc[running[id]] # "free"
    BY <1>4 DEF ControlInv, RunningOK, OneGoroutinePerTask, Live, Procs
<1>7. NoNewRunning
    BY StatusStays DEF DispatchAdmit, durable
<1>8. ASSUME NEW id \in Ids, HasStatus(id, "running")'
      PROVE  running'[id] # NoWorker /\ pc'[running'[id]] # "exiting"
    <2>1. running[id] # NoWorker /\ pc[running[id]] # "exiting"
        BY <1>7, <1>8 DEF RowsOwned, NoNewRunning
    <2>2. running'[id] = running[id] /\ pc'[running[id]] = pc[running[id]]
        BY <1>5, <1>6, <2>1
    <2>. QED  BY <2>1, <2>2
<1>. QED  BY <1>8 DEF RowsOwned

LEMMA NextKeepsOwned ==
    ASSUME CoreInv, RowsOwned, [Next]_vars, ~Crash
    PROVE  RowsOwned'
<1>1. ASSUME NEW p \in Procs, p \notin Workers, DispatchAdmit(p)
      PROVE  RowsOwned'
    BY <1>1, AdmitKeepsOwned
<1>2. ASSUME NEW d \in Tails, Dispatch(d)
      PROVE  RowsOwned'
    <2>1. /\ d \in Procs /\ d \notin Workers
          /\ PCs(d) = TailPCs
        BY ProcessAssumption DEF ProcessAssumption, Procs, PCs
    <2>2. CASE DispatchList(d)
        <3>1. OwnStep(d)
            BY <2>1, <2>2
               DEF DispatchList, Goto, OwnStep, CoreInv, ControlInv, PCsOK, TasksOK, memory, TailPCs,
                   Dispatching, Targeting
        <3>2. NoNewRunning
            BY <2>2, StatusStays DEF DispatchList, durable
        <3>. QED  BY <2>1, <3>1, <3>2, BystanderKeepsOwned
    <2>. QED  BY <1>1, <1>2, <2>1, <2>2 DEF Dispatch
<1>3. ASSUME NEW c \in Callers, BeginCall(c) \/ QueueCopy(c) \/ CallerStep(c)
      PROVE  RowsOwned'
    <2>1. c \in Procs /\ c \notin Workers
        BY ProcessAssumption DEF ProcessAssumption, Procs
    <2>2. CASE DispatchAdmit(c)
        BY <1>1, <2>1, <2>2
    <2>3. CASE BeginCall(c) \/ QueueCopy(c) \/ ContinueCall(c) \/ DispatchList(c)
        BY <2>1, <2>3, CallerIsOwnStep, CallerLeavesRunning, BystanderKeepsOwned
           DEF CoreInv, DurableOK
    <2>. QED  BY <1>3, <2>2, <2>3 DEF CallerStep, Dispatch
<1>4. CASE BootStep
    <2>1. Boot \in Procs /\ Boot \notin Workers
        BY ProcessAssumption DEF ProcessAssumption, Procs
    <2>2. CASE ~DispatchAdmit(Boot)
        BY <1>4, <2>1, <2>2, BootIsOwnStep, BootLeavesRunning, BystanderKeepsOwned DEF CoreInv
    <2>. QED  BY <1>1, <2>1, <2>2
<1>5. CASE UNCHANGED vars
    BY <1>5 DEF vars, durable, memory, RowsOwned, HasStatus, InQueue
<1>. QED  BY <1>2, <1>3, <1>4, <1>5, WorkKeepsOwned DEF Next

\* As long as no process has died with a row left "running", a row that says so has
\* a goroutine that will end it, whatever settings, calls and stale lists do: so
\* PauseTask, ResumeTask, CancelTask and RetryTask never refuse a task for good.
THEOREM RunningRowHasGoroutineAlways == Spec => [](crashes = 0 => RunningRowHasGoroutine)
<1>. DEFINE Uncrashed == crashes \in Nat /\ (crashes = 0 => RowsOwned)
<1>1. Init => Uncrashed
    BY DEF Init, NoRows, RowsOwned, HasStatus, InQueue
<1>2. CoreInv /\ Uncrashed /\ [Next]_vars => Uncrashed'
    <2>. SUFFICES ASSUME CoreInv, Uncrashed, [Next]_vars PROVE Uncrashed'
        OBVIOUS
    <2>1. CASE Crash
        BY <2>1 DEF Crash
    <2>2. CASE ~Crash
        <3>1. crashes' = crashes
            BY <2>2
               DEF Next, vars, counted, Work, MarkRunning, TransferReturns, ArchiveCompleted,
                   MarkFailed, LoadIntent, ArchiveCancelled, MarkPaused, Exit, WorkerUnchanged,
                   Dispatch, DispatchList, DispatchAdmit, BeginCall, Call, Queue, QueueCopy,
                   SetMaxConcurrentTasks, ReorderTask, ClearHistory, ResumeRead, RetryRead,
                   PauseRead, CancelLookup, CallerStep, ContinueCall, QueueCopyEnd, MakePending,
                   PauseLookup, PauseReadAgain, PauseWrite, CancelRead, CancelArchive, Signal,
                   Await, BootStep, ApplySettings, SettingsUnreadable, RecoverList, RecoverTask,
                   RecoverDone, AutoResumeNext, AutoResumeDone, BootUnchanged
        <3>. QED  BY <2>2, <3>1, NextKeepsOwned
    <2>. QED  BY <2>1, <2>2
<1>3. Uncrashed => (crashes = 0 => RunningRowHasGoroutine)
    BY DEF RowsOwned, RunningRowHasGoroutine
<1>. QED  BY <1>1, <1>2, <1>3, CoreAlways, PTL DEF Spec

-----------------------------------------------------------------------------
(* The queue implements TaskLedger: no step changes both the tables and    *)
(* the executions, the ways of changing the tables are the ledger's        *)
(* Submit, Settle and Forget (or leave it alone), and the ways of changing *)
(* the executions are Begin, End, SetLimit and Restart.                    *)

\* A list of rows, however old, only has rows of ids that have been given out.
SnapKnown == \A p \in Procs, id \in Ids : snap[p][id] # NoRow => id < nextID

MapInv == TypeInv /\ ArchivedOnce /\ Unused /\ SnapKnown

\* The ways in which a step changes the executions.
ExecutionStep ==
    \/ UNCHANGED memory
    \/ \E w \in Workers : Exit(w)
    \/ \E p \in Callers \cup Tails \cup {Boot} : DispatchAdmit(p)
    \/ running' = running /\ maxConcurrentTasks' \in Nat \ {0}
    \/ Crash

LEMMA NextIsExecutionStep ==
    ASSUME TypeInv, [Next]_vars
    PROVE  /\ ExecutionStep
           /\ UNCHANGED durable \/ UNCHANGED memory
<1>. DEFINE Goal == ExecutionStep /\ (UNCHANGED durable \/ UNCHANGED memory)
<1>1. ASSUME NEW w \in Workers, Work(w)
      PROVE  Goal
    BY <1>1 DEF ExecutionStep, Work, MarkRunning, TransferReturns, ArchiveCompleted, MarkFailed,
                LoadIntent, ArchiveCancelled, MarkPaused, Exit, WorkerUnchanged
<1>2. ASSUME NEW p \in Callers \cup Tails \cup {Boot}, Dispatch(p)
      PROVE  Goal
    BY <1>2 DEF ExecutionStep, Dispatch, DispatchList, DispatchAdmit
<1>3. ASSUME NEW p, MakePending(p)
      PROVE  Goal
    BY <1>3 DEF ExecutionStep, MakePending
<1>4. ASSUME NEW c \in Callers, BeginCall(c) \/ QueueCopy(c)
      PROVE  Goal
    <2>1. ASSUME NEW n \in Limits, SetMaxConcurrentTasks(c, n)
          PROVE  Goal
        BY <2>1, DataAssumption DEF SetMaxConcurrentTasks, DataAssumption, ExecutionStep, memory
    <2>. QED  BY <1>4, <2>1
              DEF ExecutionStep, BeginCall, Queue, ReorderTask, ClearHistory,
                  ResumeRead, RetryRead, PauseRead, CancelLookup, QueueCopy
<1>5. ASSUME NEW c \in Callers, ContinueCall(c)
      PROVE  Goal
    BY <1>3, <1>5 DEF ExecutionStep, ContinueCall, QueueCopyEnd, PauseLookup, PauseReadAgain,
                      PauseWrite, CancelRead, CancelArchive, Signal, Await
<1>6. CASE BootStep
    <2>1. CASE ApplySettings
        BY <2>1, DataAssumption DEF ApplySettings, BootUnchanged, DataAssumption, ExecutionStep, memory
    <2>. QED  BY <1>2, <1>3, <1>6, <2>1
              DEF BootStep, SettingsUnreadable, RecoverList, RecoverTask, RecoverDone,
                  AutoResumeNext, AutoResumeDone, BootUnchanged, ExecutionStep, memory
<1>7. CASE Crash \/ UNCHANGED vars
    BY <1>7 DEF Crash, vars, ExecutionStep
<1>. QED  BY <1>1, <1>2, <1>4, <1>5, <1>6, <1>7 DEF Next, CallerStep

LEMMA SnapKnownStays ==
    ASSUME TypeInv, Unused, SnapKnown, [Next]_vars
    PROVE  SnapKnown'
<1>1. nextID \in Nat /\ nextID' \in Nat /\ nextID <= nextID'
    <2>1. DatabaseStep /\ DurableOK /\ DurableOK'
        BY NextIsDatabaseStep, DurableStays DEF TypeInv, CoreInv, ControlInv
    <2>2. nextID \in Nat /\ nextID' \in Nat
        BY <2>1, BoundAssumption DEF DurableOK, BoundAssumption
    <2>3. nextID' \in {nextID, nextID + 1}
        BY <2>1 DEF DatabaseStep, durable, UpdateStatus, MoveToHistory, Create
    <2>. QED  BY <2>2, <2>3
<1>2. SnapOK
    BY DEF TypeInv
<1>3. ASSUME \A p \in Procs, id \in Ids :
                 snap'[p][id] \in {snap[p][id], NoRow, queue[id]}
      PROVE  SnapKnown'
    BY <1>1, <1>3 DEF SnapKnown, Unused, InQueue, Ids
<1>4. ASSUME snap' = snap
      PROVE  SnapKnown'
    BY <1>3, <1>4
<1>5. ASSUME NEW p, NEW rows \in {queue, NoRows}, snap' = [snap EXCEPT ![p] = rows]
      PROVE  SnapKnown'
    BY <1>2, <1>3, <1>5 DEF SnapOK, NoRows
<1>6. ASSUME NEW w \in Workers, Work(w)
      PROVE  SnapKnown'
    BY <1>4, <1>6 DEF Work, MarkRunning, TransferReturns, ArchiveCompleted, MarkFailed, LoadIntent,
                      ArchiveCancelled, MarkPaused, Exit, WorkerUnchanged
<1>7. ASSUME NEW p, Dispatch(p) \/ MakePending(p)
      PROVE  SnapKnown'
    BY <1>4, <1>5, <1>7 DEF Dispatch, DispatchList, DispatchAdmit, MakePending
<1>8. ASSUME NEW c \in Callers, BeginCall(c) \/ QueueCopy(c)
      PROVE  SnapKnown'
    BY <1>4, <1>8 DEF BeginCall, Queue, SetMaxConcurrentTasks, ReorderTask, ClearHistory,
                      ResumeRead, RetryRead, PauseRead, CancelLookup, QueueCopy
<1>9. ASSUME NEW c \in Callers, ContinueCall(c)
      PROVE  SnapKnown'
    BY <1>4, <1>7, <1>9 DEF ContinueCall, QueueCopyEnd, PauseLookup, PauseReadAgain, PauseWrite,
                            CancelRead, CancelArchive, Signal, Await
<1>10. ASSUME NEW id \in Ids, RecoverTask(id)
       PROVE  SnapKnown'
    <2>1. CASE InQueue(id)
        BY <1>2, <1>3, <1>10, <2>1 DEF RecoverTask, SnapOK
    <2>2. CASE ~InQueue(id)
        BY <1>5, <1>10, <2>2 DEF RecoverTask
    <2>. QED  BY <2>1, <2>2
<1>11. CASE BootStep
    BY <1>4, <1>5, <1>7, <1>10, <1>11
       DEF BootStep, ApplySettings, SettingsUnreadable, RecoverList, RecoverDone,
           AutoResumeNext, AutoResumeDone
<1>12. CASE Crash
    BY <1>3, <1>12 DEF Crash, NoRows
<1>13. CASE UNCHANGED vars
    BY <1>4, <1>13 DEF vars
<1>. QED  BY <1>6, <1>7, <1>8, <1>9, <1>11, <1>12, <1>13 DEF Next, CallerStep

\* Changes of the tables, seen from the ledger.
LEMMA DatabaseStepMaps ==
    ASSUME MapInv, DatabaseStep, UNCHANGED memory
    PROVE  [Ledger!Next]_Ledger!lvars
<1>. USE DEF Ledger!lvars, Entry, InQueue
<1>1. /\ queue \in [Ids -> Row \cup {NoRow}]
      /\ history \in [Ids -> Seq(Outcomes)]
      /\ nextID \in Nat
      /\ \A id \in Ids : history[id] # <<>> => queue[id] = NoRow /\ Head(history[id]) \in Outcomes
      /\ \A id \in Ids : queue[id] # NoRow \/ history[id] # <<>> => id < nextID
    <2>1. DurableOK
        BY DEF MapInv, TypeInv, CoreInv
    <2>2. nextID \in Nat
        BY <2>1, BoundAssumption DEF DurableOK, BoundAssumption
    <2>3. ASSUME NEW id \in Ids, history[id] # <<>>
          PROVE  queue[id] = NoRow /\ Head(history[id]) \in Outcomes
        BY <2>1, <2>3, HeadTailProperties DEF DurableOK, MapInv, ArchivedOnce
    <2>4. \A id \in Ids : queue[id] # NoRow \/ history[id] # <<>> => id < nextID
        BY <2>2 DEF MapInv, Unused, Ids
    <2>. QED  BY <2>1, <2>2, <2>3, <2>4 DEF DurableOK
<1>2. Busy' = Busy /\ maxConcurrentTasks' = maxConcurrentTasks
    BY DEF memory, Busy
<1>3. ASSUME \A id \in Ids : Entry(id)' = Entry(id)
      PROVE  UNCHANGED Ledger!lvars
    BY <1>2, <1>3
<1>4. CASE UNCHANGED durable
    BY <1>3, <1>4 DEF durable
<1>5. ASSUME NEW id \in Ids, NEW s \in Statuses, UpdateStatus(id, s)
      PROVE  UNCHANGED Ledger!lvars
    <2>1. history' = history /\ nextID' = nextID
        BY <1>5 DEF UpdateStatus
    <2>2. \A other \in Ids : queue'[other] = NoRow <=> queue[other] = NoRow
        BY <1>1, <1>5, RowAssumption DEF UpdateStatus, RowAssumption, Row
    <2>. QED  BY <1>3, <2>1, <2>2
<1>6. ASSUME NEW id \in Ids, NEW outcome \in Outcomes, MoveToHistory(id, outcome)
      PROVE  [Ledger!Next]_Ledger!lvars
    <2>1. CASE InQueue(id)
        <3>1. /\ queue' = [queue EXCEPT ![id] = NoRow]
              /\ history' = [history EXCEPT ![id] = Append(history[id], outcome)]
              /\ nextID' = nextID
              /\ history[id] = <<>>
            BY <1>1, <1>6, <2>1 DEF MoveToHistory
        <3>2. history'[id] # <<>> /\ Head(history'[id]) = outcome
            <4>1. history'[id] = Append(<<>>, outcome)
                BY <1>1, <3>1
            <4>. QED  BY <4>1
        <3>3. Entry(id) = "open" /\ Entry(id)' = outcome
            BY <1>1, <2>1, <3>1, <3>2
        <3>4. \A other \in Ids \ {id} : Entry(other)' = Entry(other)
            BY <1>1, <3>1
        <3>5. Ledger!Settle(id, outcome)
            BY <1>2, <3>3, <3>4 DEF Ledger!Settle
        <3>. QED  BY <3>5 DEF Ledger!Next, Ledger!Settled, Outcomes
    <2>2. CASE ~InQueue(id)
        BY <1>3, <1>6, <2>2 DEF MoveToHistory
    <2>. QED  BY <2>1, <2>2
<1>7. ASSUME NEW type \in Types, NEW priority \in Priorities, Create(type, priority)
      PROVE  [Ledger!Next]_Ledger!lvars
    <2>. DEFINE row == [status |-> "pending", priority |-> priority, type |-> type]
    <2>1. /\ nextID \in Ids /\ nextID' = nextID + 1 /\ history' = history
          /\ queue' = [queue EXCEPT ![nextID] = row]
        BY <1>7 DEF Create
    <2>2. row # NoRow
        BY RowAssumption DEF RowAssumption, Row, Statuses
    <2>. HIDE DEF row
    <2>3. PICK id \in Ids : id = nextID
        BY <2>1
    <2>4. queue'[id] # NoRow /\ history[id] = <<>> /\ queue[id] = NoRow
        BY <1>1, <2>1, <2>2, <2>3
    <2>5. Entry(id) = "unused" /\ Entry(id)' = "open"
        BY <1>1, <2>3, <2>4
    <2>6. \A other \in Ids \ {id} : Entry(other)' = Entry(other)
        BY <1>1, <2>1, <2>3 DEF Ids
    <2>7. Ledger!Submit(id)
        BY <1>2, <2>5, <2>6 DEF Ledger!Submit
    <2>. QED  BY <2>7 DEF Ledger!Next
<1>8. ASSUME NEW id \in Ids, NEW priority \in Priorities,
             InQueue(id), queue' = [queue EXCEPT ![id].priority = priority],
             UNCHANGED <<history, nextID>>
      PROVE  UNCHANGED Ledger!lvars
    <2>1. \A other \in Ids : queue'[other] = NoRow <=> queue[other] = NoRow
        BY <1>1, <1>8, RowAssumption DEF RowAssumption, Row
    <2>. QED  BY <1>3, <1>8, <2>1
<1>9. CASE history' = [id \in Ids |-> <<>>] /\ UNCHANGED <<queue, nextID>>
    <2>1. \A id \in Ids : Entry(id)' = IF Entry(id) \in Ledger!Settled THEN "forgotten" ELSE Entry(id)
        BY <1>1, <1>9 DEF Ledger!Settled, Outcomes
    <2>2. Ledger!Forget
        BY <1>2, <2>1 DEF Ledger!Forget
    <2>. QED  BY <2>2 DEF Ledger!Next
<1>. QED  BY <1>4, <1>5, <1>6, <1>7, <1>8, <1>9 DEF DatabaseStep, Outcomes

\* Changes of the executions, seen from the ledger.
LEMMA ExecutionStepMaps ==
    ASSUME MapInv, ExecutionStep, UNCHANGED durable
    PROVE  [Ledger!Next]_Ledger!lvars
<1>. USE DEF Ledger!lvars
<1>1. \A id \in Ids : Entry(id)' = Entry(id)
    BY DEF Entry, InQueue, durable
<1>2. [id \in Ids |-> Entry(id)]' = [id \in Ids |-> Entry(id)]
    BY <1>1
<1>3. ControlInv /\ TypeInv
    BY DEF MapInv, TypeInv, CoreInv
<1>4. CASE UNCHANGED memory
    BY <1>2, <1>4 DEF memory, Busy
<1>5. ASSUME NEW w \in Workers, Exit(w)
      PROVE  [Ledger!Next]_Ledger!lvars
    <2>1. /\ task[w] \in Ids
          /\ running' = [running EXCEPT ![task[w]] = NoWorker]
          /\ maxConcurrentTasks' = maxConcurrentTasks
        BY <1>3, <1>5 DEF Exit, ControlInv, OneGoroutinePerTask, Live
    <2>2. PICK id \in Ids : id = task[w]
        BY <2>1
    <2>3. Busy' = Busy \ {id}
        BY <1>3, <2>1, <2>2 DEF Busy, ControlInv, RunningOK
    <2>4. Ledger!End(id)
        BY <1>2, <2>1, <2>3 DEF Ledger!End
    <2>. QED  BY <2>4 DEF Ledger!Next
<1>6. ASSUME NEW p \in Callers \cup Tails \cup {Boot}, DispatchAdmit(p)
      PROVE  [Ledger!Next]_Ledger!lvars
    <2>1. p \in Procs /\ p \notin Workers
        BY ProcessAssumption DEF ProcessAssumption, Procs
    <2>2. Busy' \subseteq Busy \/ Cardinality(Busy') <= maxConcurrentTasks
        BY <1>3, <1>6, <2>1, AdmitKeepsLimit DEF TypeInv, CountersOK
    <2>3. maxConcurrentTasks' = maxConcurrentTasks
        BY <1>6 DEF DispatchAdmit
    <2>4. PICK S \in Admitted(snap[p]) : \E by \in Injection(S, FreeWorkers) : StartTasks(p, S, by)
        BY <1>6 DEF DispatchAdmit
    <2>5. PICK by \in Injection(S, FreeWorkers) : StartTasks(p, S, by)
        BY <2>4
    <2>6. S \in SUBSET Startable(snap[p])
        BY DEF Admitted
    <2>7. /\ \A id \in S : id \in Ids /\ by[id] \in Workers /\ running'[id] = by[id]
          /\ \A id \in Ids \ S : running'[id] = running[id]
        BY <1>3, <2>1, <2>5, <2>6, StartTasksFacts
    <2>8. /\ S \in SUBSET Ids /\ S \cap Busy = {}
          /\ Busy' = Busy \cup S
        BY <2>6, <2>7, ProcessAssumption DEF Busy, Startable, ProcessAssumption
    <2>9. CASE S = {}
        BY <1>2, <2>3, <2>8, <2>9
    <2>10. CASE S # {}
        <3>1. Cardinality(Busy') <= maxConcurrentTasks
            BY <2>2, <2>8, <2>10
        <3>2. ASSUME NEW id \in S
              PROVE  Entry(id) # "unused"
            <4>1. id \in Ids /\ id < nextID
                BY <2>1, <2>6, <2>8 DEF MapInv, SnapKnown, Startable
            <4>2. history[id] \in Seq(Outcomes)
                BY <1>3, <4>1 DEF TypeInv, CoreInv, DurableOK
            <4>3. history[id] # <<>> => Head(history[id]) \in Outcomes
                BY <4>2, HeadTailProperties
            <4>. QED  BY <4>1, <4>3 DEF Entry, Outcomes
        <3>3. Ledger!Begin(S)
            <4>1. \A id \in S : [i \in Ids |-> Entry(i)][id] # "unused"
                BY <2>8, <3>2
            <4>2. Ledger!Cardinality(Busy') = Cardinality(Busy')
                BY DEF Ledger!Cardinality, Cardinality
            <4>. QED  BY <1>2, <2>3, <2>8, <3>1, <4>1, <4>2 DEF Ledger!Begin
        <3>. QED  BY <2>8, <3>3 DEF Ledger!Next
    <2>. QED  BY <2>9, <2>10
<1>7. CASE running' = running /\ maxConcurrentTasks' \in Nat \ {0}
    <2>1. Ledger!SetLimit
        BY <1>2, <1>7 DEF Ledger!SetLimit, Busy
    <2>. QED  BY <2>1 DEF Ledger!Next
<1>8. CASE Crash
    <2>1. Busy' = {} /\ maxConcurrentTasks' = 2
        BY <1>8 DEF Crash, Busy, DefaultMaxConcurrentTasks
    <2>2. Ledger!Restart
        BY <1>2, <2>1 DEF Ledger!Restart
    <2>. QED  BY <2>2 DEF Ledger!Next
<1>. QED  BY <1>4, <1>5, <1>6, <1>7, <1>8 DEF ExecutionStep

\* The transfer queue keeps the ledger's promise through every interleaving and
\* every crash, whatever the bounds (MoveToHistory, dispatch, runTask).
THEOREM ImplementsLedger == Spec => RefinesLedger
<1>1. Init => MapInv /\ Ledger!Init
    <2>. SUFFICES ASSUME Init PROVE MapInv /\ Ledger!Init
        OBVIOUS
    <2>1. /\ \A id \in Ids : queue[id] = NoRow /\ history[id] = <<>> /\ running[id] = NoWorker
          /\ nextID = 1 /\ maxConcurrentTasks = 2
          /\ \A p \in Procs, id \in Ids : snap[p][id] = NoRow
        BY DEF Init, NoRows, DefaultMaxConcurrentTasks
    <2>2. ArchivedOnce /\ Unused /\ SnapKnown
        BY <2>1, EmptySeq DEF ArchivedOnce, Unused, SnapKnown, InQueue
    <2>3. \A id \in Ids : Entry(id) = "unused"
        BY <2>1 DEF Entry, InQueue, Ids
    <2>4. Ledger!Init
        BY <2>1, <2>3 DEF Ledger!Init, Busy
    <2>. QED  BY <2>2, <2>4, InitTypeInv DEF MapInv
<1>2. MapInv /\ [Next]_vars => SnapKnown' /\ ArchivedOnce' /\ Unused'
    BY SnapKnownStays, NextIsDatabaseStep, ArchiveStays DEF MapInv, TypeInv, CoreInv, ControlInv
<1>3. MapInv /\ [Next]_vars => [Ledger!Next]_Ledger!lvars
    BY NextIsExecutionStep, NextIsDatabaseStep, DatabaseStepMaps, ExecutionStepMaps
       DEF MapInv, TypeInv, CoreInv, ControlInv
<1>4. MapInv <=> TypeInv /\ (ArchivedOnce /\ Unused /\ SnapKnown)
    BY DEF MapInv
<1>. QED  BY <1>1, <1>2, <1>3, <1>4, TypeInvAlways, PTL DEF Spec, RefinesLedger, Ledger!Spec

=============================================================================
