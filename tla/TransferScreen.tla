---------------------------- MODULE TransferScreen ----------------------------
(***************************************************************************)
(* What the Transfers screen shows (frontend/src/stores/useTransferStore.ts,*)
(* hooks/useTransferEvents.ts) of the queue that the backend stores.       *)
(*                                                                         *)
(* An attempt of a task (task.go) runs beside its Tracker (progress.go),   *)
(* which publishes "running" and persists progress on its ticks, and ends  *)
(* with an event of its own.  The screen gets events, and answers of       *)
(* GetQueue after each of the user's calls: an answer is read at one time  *)
(* and arrives at another, with events between.                            *)
(*                                                                         *)
(* A call looks for an attempt, reads the row and writes it in steps of    *)
(* their own, and a dispatch starts what its list showed pending, so a row *)
(* may change, or leave the queue, under an attempt that has begun.        *)
(*                                                                         *)
(* Byte counts and speeds are left out, and so are failures of the store,  *)
(* the limit on attempts and the types of tasks: TransferService has them. *)
(***************************************************************************)
EXTENDS Integers, Sequences

CONSTANTS
    Tasks, Calls,             \* transfer tasks, and calls the screen may have in flight
    MaxActions, MaxTicks,     \* bounds on the user's actions and on the ticks of all trackers
    MaxLists                  \* bound on the lists held at once that show a task pending

\* What an instance gives.
ScreenAssumption == MaxActions \in Nat /\ MaxTicks \in Nat /\ MaxLists \in Nat

VARIABLES
    row,                      \* transfer_queue: the status of each task's row, or why it has none
    lists,                    \* for each task, the dispatches under way whose list shows it pending
    run, intent, outcome,     \* each task's attempt: its step, and why and how it ended
    tracker, ticks,           \* each attempt's Tracker.Run
    step, asked, task, data,  \* each call: its step, what it asks of which task, the queue it read
    inbox,                    \* events and answers on their way to the screen, in order
    shown,                    \* the store's queue: the status shown, or "none"
    actions,
    overtaken,                \* history: the tasks shown as by an event or answer that was
                              \* out of date when it arrived
    unannounced               \* history: the tasks whose last change nothing tells the screen of

attempt == <<lists, run, intent, outcome, tracker, ticks>>
calls == <<step, asked, task, data, actions>>
screen == <<shown, overtaken, unannounced>>
vars == <<row, attempt, calls, inbox, screen>>

InQueue == {"pending", "running", "paused", "failed"}
Terminal == {"completed", "cancelled"}

\* GetQueue returns the rows of transfer_queue.
GetQueue == [t \in Tasks |-> IF row[t] \in InQueue THEN row[t] ELSE "none"]

Event(t, status) == [kind |-> "event", task |-> t, status |-> status]
Answer(queue) == [kind |-> "answer", queue |-> queue]

\* The hook loads the queue when the application starts.
Init ==
    /\ row \in [Tasks -> {"none", "paused"}]
    /\ lists = [t \in Tasks |-> 0]
    /\ run = [t \in Tasks |-> "none"] /\ intent = [t \in Tasks |-> "none"]
    /\ outcome = [t \in Tasks |-> "none"]
    /\ tracker = [t \in Tasks |-> "off"] /\ ticks = 0
    /\ step \in {[d \in Calls |-> IF d = c THEN "fetch" ELSE "idle"] : c \in Calls}
    /\ asked = [c \in Calls |-> "none"] /\ task = [c \in Calls |-> "none"]
    /\ data = [c \in Calls |-> [t \in Tasks |-> "none"]]
    /\ inbox = <<>> /\ shown = [t \in Tasks |-> "none"]
    /\ actions = 0 /\ overtaken = {} /\ unannounced = {}

\* UpdateStatus and MoveToHistory change a row of transfer_queue, and fail without one.
Stored(t, status) == IF row[t] \in InQueue THEN [row EXCEPT ![t] = status] ELSE row

\* Calls that did what they were asked to: the store fetches the queue then, but the screen of
\* the connections, which drops the tasks of a profile before it deletes it, does not.
Return(C) ==
    /\ step' = [c \in Calls |-> IF c \notin C THEN step[c]
                               ELSE IF asked[c] = "drop" THEN "idle" ELSE "fetch"]
    /\ asked' = [c \in Calls |-> IF c \in C THEN "none" ELSE asked[c]]
    /\ task' = [c \in Calls |-> IF c \in C THEN "none" ELSE task[c]]

-----------------------------------------------------------------------------
(* dispatch, which a call, the end of an attempt or the start of the program may run. *)

\* The list is read before the lock ...
ListPending(t) ==
    /\ row[t] = "pending" /\ lists[t] < MaxLists
    /\ lists' = [lists EXCEPT ![t] = @ + 1]
    /\ UNCHANGED <<row, run, intent, outcome, tracker, ticks, calls, inbox, screen>>

\* ... and used under it: startTask, whatever the row says by now.
Start(t) ==
    /\ lists[t] > 0 /\ run[t] = "none"
    /\ lists' = [lists EXCEPT ![t] = @ - 1]
    /\ run' = [run EXCEPT ![t] = "starting"]
    /\ UNCHANGED <<row, intent, outcome, tracker, ticks, calls, inbox, screen>>

\* The task runs already, or no attempt is free.
PassOver(t) ==
    /\ lists[t] > 0
    /\ lists' = [lists EXCEPT ![t] = @ - 1]
    /\ UNCHANGED <<row, run, intent, outcome, tracker, ticks, calls, inbox, screen>>

-----------------------------------------------------------------------------
(* The attempt of a task. *)

\* runTask: what comes before the transfer may fail, and then no tracker was started.
MarkRunning(t) ==
    /\ run[t] = "starting"
    /\ row' = Stored(t, "running")
    /\ \/ /\ run' = [run EXCEPT ![t] = "working"]
          /\ tracker' = [tracker EXCEPT ![t] = "idle"] /\ UNCHANGED outcome
       \/ /\ run' = [run EXCEPT ![t] = "joined"]
          /\ outcome' = [outcome EXCEPT ![t] = "failed"] /\ UNCHANGED tracker
    /\ UNCHANGED <<lists, intent, ticks, calls, inbox, screen>>

\* Upload or Download returns; a cancelled context may also find it done or failed.
TransferReturns(t) ==
    /\ run[t] = "working"
    /\ \/ outcome' = [outcome EXCEPT ![t] = "completed"]
       \/ outcome' = [outcome EXCEPT ![t] = "failed"]
       \/ intent[t] = "pause" /\ outcome' = [outcome EXCEPT ![t] = "paused"]
       \/ intent[t] = "cancel" /\ outcome' = [outcome EXCEPT ![t] = "cancelled"]
    /\ run' = [run EXCEPT ![t] = "stopping"]
    /\ UNCHANGED <<row, lists, intent, tracker, ticks, calls, inbox, screen>>

\* A fault: stopTracker does not wait.
StopAtOnce(t) ==
    /\ run[t] = "stopping"
    /\ run' = [run EXCEPT ![t] = "joined"]
    /\ UNCHANGED <<row, lists, intent, outcome, tracker, ticks, calls, inbox, screen>>

\* stopTracker waits until Tracker.Run has returned.
StopTracker(t) ==
    /\ run[t] = "stopping" /\ tracker[t] = "off"
    /\ run' = [run EXCEPT ![t] = "joined"]
    /\ UNCHANGED <<row, lists, intent, outcome, tracker, ticks, calls, inbox, screen>>

\* handleTaskResult: the row first, then the event.
StoreResult(t) ==
    /\ run[t] = "joined"
    /\ row' = Stored(t, outcome[t])
    /\ run' = [run EXCEPT ![t] = "stored"]
    /\ UNCHANGED <<lists, intent, outcome, tracker, ticks, calls, inbox, screen>>

\* A fault: a pause is not published.
PublishTerminalOnly(t) ==
    /\ run[t] = "stored"
    /\ inbox' = IF outcome[t] \in Terminal THEN Append(inbox, Event(t, outcome[t])) ELSE inbox
    /\ run' = [run EXCEPT ![t] = "published"]
    /\ UNCHANGED <<row, lists, intent, outcome, tracker, ticks, calls, screen>>

Publish(t) ==
    /\ run[t] = "stored"
    /\ inbox' = Append(inbox, Event(t, outcome[t]))
    /\ run' = [run EXCEPT ![t] = "published"]
    /\ UNCHANGED <<row, lists, intent, outcome, tracker, ticks, calls, screen>>

\* The deferred function: closing done wakes the calls that wait for it.
Finish(t) ==
    /\ run[t] = "published"
    /\ run' = [run EXCEPT ![t] = "none"] /\ outcome' = [outcome EXCEPT ![t] = "none"]
    /\ intent' = [intent EXCEPT ![t] = "none"]
    /\ Return({c \in Calls : step[c] = "wait" /\ task[c] = t})
    /\ UNCHANGED <<row, lists, tracker, ticks, data, actions, inbox, screen>>

-----------------------------------------------------------------------------
(* Tracker.Run: a select of two tickers and the context. *)

\* A tick may win over a context that is done.
Tick(t) ==
    /\ tracker[t] = "idle" /\ ticks < MaxTicks
    /\ ticks' = ticks + 1
    /\ tracker' \in {[tracker EXCEPT ![t] = p] : p \in {"publishing", "persisting"}}
    /\ UNCHANGED <<row, lists, run, intent, outcome, calls, inbox, screen>>

\* onUIProgress.
TickPublishes(t) ==
    /\ tracker[t] = "publishing"
    /\ inbox' = Append(inbox, Event(t, "running"))
    /\ tracker' = [tracker EXCEPT ![t] = "idle"]
    /\ UNCHANGED <<row, lists, run, intent, outcome, ticks, calls, screen>>

\* onPersistProgress: UpdateProgress leaves the status alone.
TickPersists(t) ==
    /\ tracker[t] = "persisting"
    /\ tracker' = [tracker EXCEPT ![t] = "idle"]
    /\ UNCHANGED <<row, lists, run, intent, outcome, ticks, calls, inbox, screen>>

TrackerReturns(t) ==
    /\ tracker[t] = "idle" /\ (run[t] # "working" \/ intent[t] # "none")
    /\ tracker' = [tracker EXCEPT ![t] = "off"]
    /\ UNCHANGED <<row, lists, run, intent, outcome, ticks, calls, inbox, screen>>

-----------------------------------------------------------------------------
(* The screen's calls. *)

\* A new task is queued from the file manager.
Queue(c, t) ==
    /\ step[c] = "idle" /\ actions < MaxActions /\ row[t] = "none"
    /\ row' = [row EXCEPT ![t] = "pending"]
    /\ step' = [step EXCEPT ![c] = "fetch"] /\ actions' = actions + 1
    /\ UNCHANGED <<attempt, asked, task, data, inbox, screen>>

\* A task that is shown has the buttons; CancelTasksForProfile drops those of GetQueue.
Ask(c, op, t) ==
    /\ step[c] = "idle" /\ actions < MaxActions
    /\ IF op = "drop" THEN row[t] \in InQueue ELSE shown[t] # "none"
    /\ step' = [step EXCEPT ![c] = IF op \in {"resume", "retry"} THEN "read" ELSE "look"]
    /\ asked' = [asked EXCEPT ![c] = op] /\ task' = [task EXCEPT ![c] = t]
    /\ actions' = actions + 1
    /\ UNCHANGED <<row, attempt, data, inbox, screen>>

\* A call that is refused shows its error and fetches nothing.
Refuse(c) ==
    /\ step' = [step EXCEPT ![c] = "idle"]
    /\ asked' = [asked EXCEPT ![c] = "none"] /\ task' = [task EXCEPT ![c] = "none"]

\* The task is in TransferService.running: its context is cancelled, and the call waits.
AskAttempt(c) ==
    /\ step[c] = "look" /\ run[task[c]] # "none"
    /\ intent' = [intent EXCEPT ![task[c]] = IF asked[c] = "pause" THEN "pause" ELSE "cancel"]
    /\ step' = [step EXCEPT ![c] = "wait"]
    /\ UNCHANGED <<row, lists, run, outcome, tracker, ticks, asked, task, data, actions, inbox,
                   screen>>

\* It is not there, or PauseTask, which reads the row before, found none.
MissAttempt(c) ==
    /\ step[c] = "look"
    /\ \/ run[task[c]] = "none" /\ step' = [step EXCEPT ![c] = "read"] /\ UNCHANGED <<asked, task>>
       \/ asked[c] = "pause" /\ row[task[c]] \notin InQueue /\ Refuse(c)
    /\ UNCHANGED <<row, attempt, data, actions, inbox, screen>>

\* The statuses a call accepts, and the one it leaves.
Accepts(op) ==
    CASE op = "pause" -> {"pending"}
      [] op = "resume" -> {"paused"}
      [] op = "retry" -> {"failed"}
      [] op \in {"cancel", "drop"} -> {"pending", "paused", "failed"}
Leaves(op) ==
    CASE op \in {"resume", "retry"} -> "pending"
      [] op = "pause" -> "paused"
      [] op \in {"cancel", "drop"} -> "cancelled"

\* GetByID.
ReadStatus(c) ==
    /\ step[c] = "read"
    /\ \/ /\ row[task[c]] \in Accepts(asked[c])
          /\ step' = [step EXCEPT ![c] = "write"] /\ UNCHANGED <<asked, task>>
       \/ row[task[c]] \notin Accepts(asked[c]) /\ Refuse(c)
    /\ UNCHANGED <<row, attempt, data, actions, inbox, screen>>

\* UpdateStatus, or archiveTask.
WriteStatus(c) ==
    /\ step[c] = "write"
    /\ row' = Stored(task[c], Leaves(asked[c]))
    /\ IF row[task[c]] \in InQueue THEN Return({c}) ELSE Refuse(c)
    /\ unannounced' = IF asked[c] = "drop" /\ row[task[c]] \in InQueue
                      THEN unannounced \cup {task[c]} ELSE unannounced
    /\ UNCHANGED <<attempt, data, actions, inbox, shown, overtaken>>

\* fetchQueue.
Fetch(c) ==
    /\ step[c] = "fetch"
    /\ data' = [data EXCEPT ![c] = GetQueue]
    /\ step' = [step EXCEPT ![c] = "answer"]
    /\ UNCHANGED <<row, attempt, asked, task, actions, inbox, screen>>

SendAnswer(c) ==
    /\ step[c] = "answer"
    /\ inbox' = Append(inbox, Answer(data[c]))
    /\ step' = [step EXCEPT ![c] = "idle"]
    /\ data' = [data EXCEPT ![c] = [t \in Tasks |-> "none"]]
    /\ UNCHANGED <<row, attempt, asked, task, actions, screen>>

-----------------------------------------------------------------------------
(* What the screen makes of it. *)

applyProgressEvent ==
    LET e == Head(inbox) IN
    /\ inbox # <<>> /\ e.kind = "event"
    /\ inbox' = Tail(inbox)
    /\ \/ /\ e.status \in Terminal \/ shown[e.task] # "none"
          /\ shown' = [shown EXCEPT ![e.task] = IF e.status \in Terminal THEN "none" ELSE e.status]
          /\ overtaken' = IF shown'[e.task] = GetQueue[e.task] THEN overtaken \ {e.task}
                                                             ELSE overtaken \cup {e.task}
          /\ unannounced' = unannounced \ {e.task}
       \/ /\ e.status \notin Terminal /\ shown[e.task] = "none"    \* not shown yet: dropped
          /\ UNCHANGED screen
    /\ UNCHANGED <<row, attempt, calls>>

ShowQueue ==
    /\ inbox # <<>> /\ Head(inbox).kind = "answer"
    /\ inbox' = Tail(inbox)
    /\ shown' = Head(inbox).queue
    /\ overtaken' = {t \in Tasks : shown'[t] # GetQueue[t]} /\ unannounced' = {}
    /\ UNCHANGED <<row, attempt, calls>>

-----------------------------------------------------------------------------
User ==
    \E c \in Calls, t \in Tasks :
        \/ Queue(c, t)
        \/ \E op \in {"pause", "resume", "cancel", "retry", "drop"} : Ask(c, op, t)
Dispatch(t) == ListPending(t) \/ Start(t) \/ PassOver(t)
TaskRun(t) ==
    \/ MarkRunning(t) \/ TransferReturns(t) \/ StopTracker(t)
    \/ StoreResult(t) \/ Publish(t) \/ Finish(t)
TrackerRun(t) == TickPublishes(t) \/ TickPersists(t) \/ TrackerReturns(t)
CallRun(c) ==
    \/ AskAttempt(c) \/ MissAttempt(c) \/ ReadStatus(c) \/ WriteStatus(c)
    \/ Fetch(c) \/ SendAnswer(c)
Screen == applyProgressEvent \/ ShowQueue

Next ==
    \/ \E t \in Tasks : Dispatch(t) \/ TaskRun(t) \/ Tick(t) \/ TrackerRun(t)
    \/ User \/ \E c \in Calls : CallRun(c)
    \/ Screen

Spec == Init /\ [][Next]_vars

-----------------------------------------------------------------------------
(* Properties. *)

TypeOK ==
    /\ row \in [Tasks -> {"none"} \cup InQueue \cup Terminal]
    /\ lists \in [Tasks -> 0..MaxLists]
    /\ run \in [Tasks -> {"none", "starting", "working", "stopping", "joined", "stored",
                          "published"}]
    /\ intent \in [Tasks -> {"none", "pause", "cancel"}]
    /\ outcome \in [Tasks -> {"none", "paused", "failed"} \cup Terminal]
    /\ tracker \in [Tasks -> {"off", "idle", "publishing", "persisting"}] /\ ticks \in 0..MaxTicks
    /\ step \in [Calls -> {"idle", "look", "read", "write", "wait", "fetch", "answer"}]
    /\ asked \in [Calls -> {"none", "pause", "resume", "cancel", "retry", "drop"}]
    /\ task \in [Calls -> Tasks \cup {"none"}]
    /\ data \in [Calls -> [Tasks -> {"none"} \cup InQueue]]
    /\ shown \in [Tasks -> {"none"} \cup InQueue]
    /\ actions \in 0..MaxActions /\ overtaken \subseteq Tasks
    /\ unannounced \subseteq Tasks

\* A tracker publishes "running" and persists progress only while its attempt is transferring or
\* waits for it: never after the attempt's last event ("a stray 'running' tick", task.go), and
\* never for a later attempt.
TicksOnlyWhileRunning ==
    [][\A t \in Tasks : tracker[t] \in {"publishing", "persisting"} /\ tracker'[t] # tracker[t] =>
          run[t] \in {"working", "stopping"}]_vars

\* Nothing is under way: no attempt, no call, no message.
Quiet ==
    /\ \A t \in Tasks : run[t] = "none"
    /\ \A c \in Calls : step[c] = "idle"
    /\ inbox = <<>>

\* "The backend is the source of truth" (useTransferStore.ts): once nothing is under way the
\* screen shows every task of the queue with its stored status, and no other.
ShownIsStored == Quiet => shown = GetQueue

\* The same but for the tasks shown as by a message that was out of date when it arrived, and for
\* those that were dropped at rest with their profile: every other change of a row is followed by
\* a message that shows it.
ShownIsStoredUnlessOvertaken ==
    Quiet => \A t \in Tasks \ (overtaken \cup unannounced) : shown[t] = GetQueue[t]

\* A call that waits for an attempt to end is never left behind by it: pausing or cancelling
\* a running task returns, however the attempt and its tracker end meanwhile.
WaitsForRunning == \A c \in Calls : step[c] = "wait" => run[task[c]] # "none"

=============================================================================
