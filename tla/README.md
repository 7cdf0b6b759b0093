# A verification project for threev

threev is a desktop S3 client: a Go backend whose services are bound to a web
frontend by Wails. This directory models the parts of it that decide whether
transfers and copies arrive, whether a queue survives the death of the process,
whether stored credentials stay readable, and whether the screens show what is
stored. The models are TLA+ modules translated from the source (paths below are
relative to the repository), checked with TLC on small instances; the most
important properties are proved with TLAPS for every instance.

## 1. The system

### Components, their state and operations

| Component | State | Operations | Makes it correct |
|---|---|---|---|
| **Transfer queue** `internal/transfer/service.go`, `scheduler.go`, `task.go`, `internal/storage/transfer_queue_repository.go`, `transfer_history_repository.go` | SQLite tables `transfer_queue`, `transfer_history`; in memory `running` and `maxConcurrentTasks` under `mu`; per running task an intent, a cancel function and a `done` channel | Queue*, Pause, Resume, Cancel, Retry, Reorder, SetMaxConcurrentTasks, ClearHistory; `dispatch`; `runTask`, `handleTaskResult`; RecoverOrphanedTasks, AutoResumeIfEnabled | one goroutine per task, the limit, each task archived once and by the outcome it had, no row stuck, the queue drains |
| **Startup, shutdown, storage** `app.go`, `internal/storage/sqlite.go`, `migrations/`, `settings.go` | the database file and its schema version, the salt | OpenDB and migrations, salt, settings, recovery, auto-resume, the first key; shutdown without stopping tasks | a start leaves the schema of one release, loses no row, and makes no secret unreadable |
| **Circuit breaker, retry** `internal/s3client/circuitbreaker.go`, `retry.go`, `errors.go` | per host: status, failure count, `openedAt`, `probing` | Allow, RecordSuccess, RecordFailure; WithRetry around every S3 call, with pauses and adaptive timeouts | open only after enough failures, one trial at a time, retries that end |
| **Upload** `upload.go`, `multipart_upload.go`, `partsize.go` | the row's `multipart_upload_id`; parts on the server; `partETags` | PutObject or create, list, upload, complete; abort by a cancel | the object is the file; resume keeps and reuses parts |
| **Download** `download.go`, `range_download.go` | the preallocated local file, the progress sidecar | head, plan, segments, record, remove | the file is the object after any resume |
| **Download of a prefix** `zip_download.go`, `service.go` | the archive, one row or one per object | listing, queueing, entry by entry | an archive is whole or removed |
| **Cross-connection copy** `cross_connection_copy.go` | staging file, the upload at the destination | download, upload, delete the source | the source goes only after its whole copy is there |
| **Copy, move, delete** `internal/filemanager/copymove.go`, `copylarge.go`, `delete.go`, `bulkops.go`, `rename.go`, `createfolder.go`, `metadata.go` | running bulk operations, their channels and counters | background operations with a worker pool and cancellation | a key is deleted only after its copy exists; the final event is exact and last |
| **Master password** `internal/appsettings/security.go`, `internal/crypto`, `internal/connection`, `internal/storage/profile_repository.go` | verifier, encrypted secrets and tokens in SQLite; the `KeyBox` | Set, Remove, Unlock; SaveProfile, DeleteProfile, ImportProfiles, GetProfile | one key for all that is stored; only a verified password unlocks |
| **Connection manager** `internal/s3client/manager.go`, `factory.go`, `transport.go`, `internal/connection/resolve.go` | cached pairs of clients, by the profile's hash | Get, resolveProfile, Invalidate | a call's clients are never older than the call |
| **Bandwidth and progress** `ratelimit.go`, `progress.go` | the shared limiter; a tracker per attempt | throttling; ticks and events | the limit holds; no event after the last |
| **Settings** `internal/appsettings/service.go`, `retry.go` | a row per field; the values in effect | GetSettings, SaveSettings, ApplySettings, boot | every value in its range; a save lasts |
| **Listing, search, size** `internal/filemanager/list.go`, `list_cache.go`, `search.go`, `bucketsize.go`, `listallkeys.go` | the page cache | ListObjects by pages; walks under a deadline | a listing misses nothing; an answer that is not marked is whole |
| **Frontend stores** `useTransferStore.ts`, `useTransferEvents.ts`, `useFileManagerStore.ts` | the queue and the entries shown | events, answers, calls | what is shown is what is stored |
| **Presign, head, preview, buckets, favorites, connection test, dialogs, MIME, config, profiling, other views** | none, or one table | one request or statement each | – |

### How they interact

The frontend calls bound methods, each on a goroutine of its own, concurrently, and
gets answers and events in an order of their own. Queue methods write a row and call
`dispatch`, which lists the queue *outside* `mu` and starts tasks from that list
*under* `mu`. A started task is a goroutine that marks its row, resolves the profile
with the key in the `KeyBox`, takes clients from the connection manager, runs its
transfer (each request through `WithRetry`, the breaker and the limiter), lets
`handleTaskResult` archive or update the row, stops its tracker, leaves `running`,
closes `done`, and dispatches again. Pause and Cancel of a running task store an
intent, cancel the context and wait for `done`; of a resting task they read and write
the row themselves. Bulk operations are goroutines beside the queue, with workers and
a ticker of their own. SQLite has a single connection, so each statement and
transaction is atomic and nothing larger is. Only SQLite, local files and the object
store survive the process; shutdown does not stop tasks, so it is a crash.

### What is hard

Lists of different ages acting on one queue; intents racing results; calls that check
a row in one statement and write it in another; a restart that dispatches before it
reconciles; two processes on one database; late results at the breaker; lost answers
of requests that took effect; resumption from records (multipart parts, the sidecar,
a staging file) that do not say under which layout, or from which object, they were
made; a source or a bucket that others change meanwhile; the database and the `KeyBox`
changing in separate steps; caches filled from reads made before somebody else's
write; answers overtaken by events. `PROJECT.json` lists each such hazard at its line,
with the properties that would notice it.

## 2. The modules

| Module | Models | Role |
|---|---|---|
| `TransferService` | the queue, scheduler, task goroutines, calls, startup, crash | component |
| `TaskLedger` | what the queue promises, without saying how | abstract specification |
| `TransferRefinement` | the refinement mapping between the two | composition |
| `CircuitBreaker` | breaker and `WithRetry` for one host | component |
| `PartTiming` | backoff, deadlines, the pool and the limiter, in time | component |
| `PartSizing` | `PartSize`, `PartCount`, the override | pure functions, used by the next two |
| `MultipartUpload` | one upload task and the object store | component |
| `RangeDownload` | one download task, its file and its sidecar | component |
| `PrefixDownload` | the download of everything under a prefix, as objects or as an archive | component |
| `CrossConnectionCopy` | one copy or move between two connections | component |
| `BulkOperations` | copies, moves, deletes, renames over a bucket | component |
| `MasterPassword` | keys, verifier, credentials | component |
| `CredentialVault` | what the master password promises, without saying how | abstract specification |
| `ProfileClients` | profile, `KeyBox`, client cache and the calls that use them | component |
| `DatabaseOpening` | migrations, salt and recovery of starting processes | component |
| `AppSettings` | rows and values in effect | component |
| `TransferScreen` | an attempt, its tracker, events and answers, and the store | component, with the frontend |
| `BucketPages` | a page of a bucket: the first keys after a token | pure functions, used by the next two |
| `ObjectListing` | the file list, concurrent ListObjects and the page cache | component, with the frontend |
| `BucketWalks` | search, size and list of all keys | component |
| `MCTransferService` | the queue, in three configurations | instance |
| `MCMultipartUpload`, `MCPartTiming` | the component they are named after | instances |
| `MCDownloads` | `RangeDownload` and `PrefixDownload` | instance of two |
| `MCObjectCopies` | `BulkOperations` and `CrossConnectionCopy` | instance of two |
| `MCSecrets` | `DatabaseOpening` and `MasterPassword`, and the mapping of the latter to `CredentialVault` | instance of two |
| `MCClients` | `ProfileClients` and `CircuitBreaker` | instance of two |
| `MCScreens` | `AppSettings`, `TransferScreen`, `ObjectListing`, `BucketWalks` | instance of four |
| `TransferServiceProofs`, `MultipartUploadProofs`, `PartTimingProofs` | theorems about that component | proofs |
| `DownloadsProofs`, `CopiesProofs`, `SecretsProofs`, `ClientsProofs`, `ScreensProofs` | theorems about the components of the instance of that name | proofs |

**TransferService.** Processes are callers (frontend calls), workers (task
goroutines until they close `done`), tails (the same goroutines inside their last
`dispatch`) and Boot (`newApp`). `pc[p]` is the next step of a process, `task[p]`
the id it works on, `snap[p]` the rows its last `GetAll` returned. A step is one SQL
statement or transaction, one critical section, or one channel operation, and what a
process read earlier may be stale. `queue`, `history`, `nextID` are the durable
state; `running` and `maxConcurrentTasks` the state under `mu`; `rt[c]` is the
`*runningTask` a caller holds, which becomes `NoWorker` when its `done` is closed.
`DispatchList` and `DispatchAdmit` are `dispatch`'s two halves. The transfer is the
choice of what it returns. `CancelTasksForProfile` is a sequence of cancels.

**CircuitBreaker.** One host (hosts are independent map entries) and requests in
`WithRetry`. The clock is the Boolean `elapsed`; an attempt returns any category of
`ClassifyError`. `trials` is a history variable: requests admitted since the host
became half-open.

**PartTiming.** Time is a counter that advances only when every goroutine waits.
Each part is in `allow`, `pause`, `send` or at its end; `tokens` is the limiter's
bucket, negative when grants are ahead of time; `up` and `stale` are the link and the
pooled connections. `released`, `faulty` and `timedOut` are history variables.

**MultipartUpload.** The attempt's `pc` follows `uploadMultipart`: put | create,
persist | list, parts, complete, result, abort, archive. `listed` holds the upload
ids of the row copies that dispatches hold: an attempt may start from any of them.
A request takes effect and is answered, takes effect and is repeated because the
answer is lost, or fails. The store is external: an open upload holds parts, and
completing it needs exactly the listed ones. A part's content is the extent of the
file it holds. `mixed` is a history variable: an upload that held parts was resumed
with another part size.

**RangeDownload.** The file is the set `written` of units that hold the object's
data, the sidecar is `lines` plus a possibly torn last line (`tail`), which reads as the
number that is left when digits in base `Radix` are lost; `fetching` and `fetched` are the
workers. `spoiled` is a history variable: the sidecar was used for another segment size, or
after a torn line, or for a file it does not describe.

**PrefixDownload.** Keys are listed page by page while `Change` stores and deletes
objects; `stable` are the keys that nobody touched since the listing began. An object
is read in chunks into `buf`, and a request that breaks off is repeated. `op` tells a
call that queues from the task's attempt, and `entries` is what the archive holds.

**CrossConnectionCopy.** Units of data stand for segments and parts (`RangeDownload`
and `MultipartUpload` have their layouts and workers). What an object, a staging file
or a part holds is the version of the source that each unit came from, so that a copy
of a source that was replaced meanwhile is visible as a mixture.

**BulkOperations.** A location is a folder and a name; an object is where its data
was first stored and its metadata. An operation is a record with its feeder, counters
and last event, each worker a record with its own step; requests take effect and are
answered, take effect unanswered, or fail. Renames, folder creation and the rewrite of
metadata are single calls beside them. The history field `orphan` of an upload says that
its creation was not answered, its abort failed, or its completion did not happen.

**MasterPassword.** A ciphertext is the key it is under. `Commit` is `reencryptTx`,
`Install` is `KeyBox.Set`, and SaveProfile is three or four separate steps. Calls overlap
in any way: nothing orders them in the backend, and the frontend's dialogs can be closed
over a call. `overtaken` and `spoiled` are history variables: the calls that go on with a
key, or a verified password, which another call's commit has replaced, and whether one of
them has taken effect.
`CredentialVault` has none of these steps: the key changes at once, is taken or lost, and a
credential is put in, imported blank or deleted.

**ProfileClients.** One profile; its configuration is one value, its secret a key's
number. Browsing calls resolve and build for themselves, transferring calls read the
profile for the host and again in `Get`, whose cache is one entry. `seen` is the set of
configurations stored during a call, `cause` whether there was a reason to fail.

**DatabaseOpening.** Of the schema only what differs between releases is kept, and of
the data one queue row, the salt and the saved secrets. `tx` is SQLite's one write
transaction; a step is a statement outside it or one inside. A crash undoes it.
`raced` is a history variable: two processes were up before there was a salt.

**AppSettings.** A save clamps, writes row after row and applies value after value;
`Rows` is the order of the rows. `saved` and `current` are history variables.

**TransferScreen.** `lists[t]` counts the dispatches whose list shows t pending: one of
them may start t whatever its row has become. A call looks for an attempt, reads the row
and writes it in steps of their own. `inbox` is the ordered channel of events and answers;
`data` what a GetQueue in flight has read. `overtaken` and `unannounced` are history
variables: the tasks shown as by a message that was out of date on arrival, and those that
were dropped at rest with their connection, of which no message tells.

**BucketPages, ObjectListing, BucketWalks.** Keys are numbers in S3's order and a
continuation token is the last key listed; a page is the `PageSize` lowest keys after it. Each ListObjects looks up, requests, merges under the cache's
lock and reads back, as separate steps of concurrent calls. `gap`, `alone` and `gone`
are history variables: an entry continued by a page that does not follow it, a call
nobody overlapped, objects absent ever since a call began.

Names ending in a mutation (`...Unchecked`, `...OffByOne`, `ListPartsFirstPage`,
`InstallFirst`, ...), each commented "A fault", are plausible bugs of the
definition that follows them. They are used by no specification; replacing the
definition by its fault makes TLC violate the property named in `PROJECT.json`.

## 3. The runs

| Run | Instance | Shows |
|---|---|---|
| `queue_races` | 2 callers, 2 workers, 2 tails, 1 task, 5 calls, no crash | `OneGoroutinePerTask`, `CancelledOnlyIfAsked`, `RunningRowHasGoroutine` |
| `queue_restart` | 1 caller, 2 workers, 1 tail, 2 tasks, 2 calls, 1 crash, limits 0 and 2 | `ArchivedOnce`, `ConcurrencyLimit`, `RefinesLedger` (every step is one of `TaskLedger`), `QueueDrains` |
| `queue_cancel` | as `queue_races` | **violates** `CancelledIsNotTransferring` |
| `upload` | files of 1 and 3 units, 2 part sizes, 2 workers, 2 uploads, 1 lost answer, 2 calls, 1 crash | `StoredIsFile` (`ObjectIsFile`, `CompletedIsStored`), `PartsAreKept` (`AbortOnlyOnCancel`, `NoPartSentTwice`), `AttemptReturns` |
| `downloads` | objects of 3 and 4 units, 2 overrides, 2 workers, 1 torn line, 3 calls, 1 crash, deletions of the file; 3 keys in pages of 1 with a placeholder, 2 chunks, 1 change, 2 faults, 1 call, 1 crash | `FileArrives` (`FileIsObject`), `ProgressIsUsed` (`ProgressKept`, `NoSegmentTwice`), `PrefixArrives` (`ArchiveIsWhole`, `PrefixIsWhole`, `FailureRemoves`), `WorkCompletes` (`AttemptReturns`, `WorkEnds`, `RetryCompletes`) |
| `copies` | one copy, move or delete of a small and a large object by 2 workers, with a rename, a cancel and 1 fault; a copy or move of an object of 1 or 2 units between connections, with 1 replacement, 2 uploads, 1 fault, 2 calls, 1 crash | `NothingIsLost`, `ReportsAreTrue` (`SuccessIsReal`, `FinalCountsAreExact`, `NoUploadLeft`, `CompletedIsCopied`), `FinalIsLast`, `MoveKeepsObject` (with `UploadKept`), `CopiesEnd` (`OperationsEnd`, the end of every attempt and waiting cancel, `SmallRecovers`) |
| `copies_orphan` | as `copies` | **violates** `CancelOrphansNoUpload` |
| `secrets` | 2 processes, 3 starts, databases of every release; 2 callers, 2 passwords, 2 profiles, 5 calls, 1 restart | `OpenIsCurrent`, `SchemaIsKept` (`SchemaIsApplied`, `RowIsKept`), `SecretsReadable`, `StartEnds`; `NoMixedKeys`, `UnlockedIsReadable` (with `OnlyBlankRefuses`), `ImplementsVault` (every step is one of `CredentialVault`) |
| `secrets_overlap` | as `secrets` | **violates** `SavedUnderCurrentKey` |
| `clients` | 2 callers, 3 configurations of which 1 cannot be used, 3 edits, 2 keys; 3 requests, 5 failures, 3 attempts | `ReturnsCurrent`, `CallsAreServed` (`FailsForCause`, `ReplacedAreClosed`); `OpenIffTooManyFailures`, `OneTrial`, `CallsReturn` |
| `timing` | 2 parts of 5 units, a link of 4 and a limit of 3 units a tick, 2 attempts | `BoundsHold` (`RetriesAreBounded`, `LimitHolds`), `PartsAreServed` (`FailsForCause`, `AdaptiveTimeIsGiven`), `CancelIsInstant` |
| `screens` | 2 saves, 1 fault, 1 restart; 1 task, 2 calls, 2 actions, 1 tick, 1 list held, 2 messages waiting; 1 folder of 3 objects in pages of 1, 2 calls, 4 actions, 2 changes; walks over 6 keys in pages of 2 with 3 changes | `InRange`, `SavesLast` (`SavedTakesEffect`, `UntouchedIsNeutral`); `ScreenIsTrue` (`ShownIsStoredUnlessOvertaken`, `WaitsForRunning`), `TicksOnlyWhileRunning`; `ListingIsTrue` (`CacheCoversUnlessGap`, `RefreshIsFresh`); `WalksAreTrue` (`UnmarkedIsWhole`, `CountedOnce`, `CapHolds`) |

A property in the last column is the conjunction of those in the parentheses behind it,
which the modules state and explain one by one, and of the module's type invariant where
it is an invariant. The type invariants of `TransferService` and `CircuitBreaker` are left
to their proofs.

**One run of several components.** `MCDownloads`, `MCObjectCopies`, `MCSecrets`, `MCClients`
and `MCScreens` instantiate two to four components that share no variable. A variable
`subject`, chosen at the start, says which of them moves; the others rest in one initial
state. The behaviours are exactly those of each component by itself, so a property of one
is checked, and proved, as in a specification of its own.

**Bounds.** Names that begin with `Max` (`MaxCalls`, `MaxCrashes`, `MaxRestarts`,
`MaxStarts`, `MaxFaults`, `MaxLost`, `MaxTorn`, `MaxTasks`, `MaxUploads`, `MaxOps`,
`MaxChanges`, `MaxWalkChanges`, `MaxReplaces`, `MaxEdits`, `MaxKeys`, `MaxActions`,
`MaxListActions`, `MaxLists`, `MaxPrefixCalls`, `MaxTicks`) bound how
often something happens and nothing else; `MaxInbox` is a constraint of `screens` alone, on
the messages that wait; `MaxConsecutiveFailures`, `MaxAttempts`,
`MaxDelay` are the program's. The races of the queue need one task, two calls and two
dispatches of different ages; the limit and the ledger need two tasks; startup needs a
crash with a row left running. One lost answer and two uploads are enough for a request
repeated after it took effect and for an upload abandoned for another. Three units in
parts of one or two give a short last part, parts in any order and a change of layout.
The sidecar's numbers are in
base 10; base 2 lets a torn line lose a digit among four segments. Pages of one key let the
bucket change between any two keys. A bulk operation over two
keys with two workers has every order of one key's copy against the other's deletion,
and batches of one key make the second batch follow a cancellation. A copy of two units
can be cut, mixed from two versions of the source, paused in either half and continued.
Three starts are two at once and one after a crash. Two parts share the limiter, and
five units at three units a tick need more than one read. The run of the passwords has room for
setting, changing and entering a password around a saved and an imported profile, with a
restart between any two steps and two calls overlapping anywhere. One list is enough for the
Transfers screen: it outlives a call that pauses or cancels its task, and the attempt it
starts runs under a row that a call still changes; two messages waiting are an answer and the
event that overtakes it. Symmetry is used only for safety and
action properties and over processes, passwords, profiles and parts that nothing
distinguishes. `CHECK_DEADLOCK FALSE` is set where the bounded calls end and the system
rests, which it also does in reality.

**Fairness.** Goroutines that can run do run, and a request returns: `WithRetry` bounds
the attempts and each has a timeout (`PartTiming`). So task goroutines, dispatches,
workers, calls under way, startup and the steps of an attempt are weakly fair. Calls by
the frontend, crashes, lost answers and failures are never required, with one exception:
`RetryCompletes` (in `WorkCompletes`) and `SmallRecovers` (in `CopiesEnd`) say what
retries achieve, so there the user's Retry and the start of a pending task are fair.
`QueueDrains` says what holds once the frontend stops calling. `StartEnds` needs
processes that go on until they die.

**Conditions.** Some properties carry a history condition because without it the code
violates them; section 5 names the unconditional ones.

- `ObjectIsFile` (unless `mixed`), `FileIsObject` (unless `spoiled`): the part size was
  not changed between attempts, and the sidecar describes its file.
- `MoveKeepsObject`: the source that is deleted is the object that was queued.
- `NoUploadLeft` (in `ReportsAreTrue`) excepts the uploads marked `orphan`: their creation
  was not answered, their abort failed, or their completion failed or was cancelled, after
  which the code aborts nothing (`copies_orphan`).
- `NothingIsLost` is checked for keys of different base names and a destination that is
  not the source's folder.
- `CacheCoversUnlessGap`: no page was appended to an entry that it does not follow.
- `RefreshIsFresh` (in `ListingIsTrue`) speaks of a refresh that no other listing of the
  folder overlapped (`alone`).
- `ShownIsStoredUnlessOvertaken` excepts the tasks shown as by an event or answer that was
  out of date on arrival, and those dropped at rest with their connection (`unannounced`),
  until the next message about them.
- `SecretsReadable` (unless `raced`): a second process was not started before there was
  a salt.
- `NoMixedKeys`, `UnlockedIsReadable`, `LockedUntilVerified` and `ImplementsVault` hold until
  a call takes effect that a password change has overtaken (`spoiled`): one that had read the
  KeyBox, or verified a password, before the commit and writes or installs after it.
  Everything else may overlap, be refused or be cut.
- `RunningRowHasGoroutine` is checked without a crash, and proved of every state before
  the first one.
- `timing` gives the clients' own timeout and the limit values that let an attempt pass
  (`TimeSuffices`, section 4).

## 4. What is proved

For every value of the constants that satisfies the assumptions the modules name:

| Module | Theorem | Says |
|---|---|---|
| `TransferServiceProofs` | `TypeCorrect`, `OneGoroutinePerTaskAlways`, `ArchivedOnceAlways`, `ConcurrencyLimitAlways`, `CancelledOnlyIfAskedAlways` | the queue's safety properties |
| | `RunningRowHasGoroutineAlways` | until the first crash, a row that says running has a goroutine |
| | `ImplementsLedger` | `TransferService` implements `TaskLedger` under the mapping of `TransferRefinement` |
| `MultipartUploadProofs` | `StoredIsFileAlways` | the stored object is the file, unless the part size was changed between attempts |
| | `PartsAreKeptAlways` | only a cancel aborts an upload; no stored part is sent again |
| | `UploadsFitTheLimit` | an upload of any size has at most `maxPartsPerUpload` parts, if the user's own part sizes are large enough (`OverridesFit`) |
| `DownloadsProofs` | `FileArrivesAlways`, `ProgressIsUsedAlways` | a completed file is the object, unless its sidecar was spoiled; recorded segments are kept and not fetched again |
| | `PrefixArrivesAlways` | an archive or a set of tasks has all that nobody touched; a failure removes the archive |
| `CopiesProofs` | `MoveKeepsObjectAlways` | a move between connections deletes only what the destination holds whole |
| | `FinalIsLastAlways` | nothing is said of a bulk operation after its final event |
| | `NothingIsLostAlways`, `ReportsAreTrueAlways` | under `Apart`: objects survive all that overlaps and fails; what is reported done is done, counts are exact, and uploads left are those marked `orphan` |
| `SecretsProofs` | `OpenedCurrent`, `SchemaIsAlwaysKept`, `SecretsStayReadable` | an opened database has every migration and lost nothing; secrets stay readable unless two first starts raced |
| | `NoMixedKeysAlways`, `UnlockedIsReadableAlways`, `LockedUntilVerifiedAlways` | the credentials' properties, and the KeyBox gets a key from the right password only, until an overtaken call takes effect (`spoiled`) |
| | `ImplementsVaultAlways` | until then, `MasterPassword` implements `CredentialVault` under the mapping of `MCSecrets` |
| `ClientsProofs` | `AlwaysReturnsCurrent`, `CallsAreServedAlways` | a call's clients belong to a profile stored during the call; a call that fails had a cause |
| | `OpenIffTooManyFailuresAlways`, `OneTrialAlways` | the breaker's safety properties |
| `PartTimingProofs` | `BoundsHoldAlways` (from `RetriesEnd`, `LimitHoldsAlways`) | no `WithRetry` outlasts its deadlines and pauses; all parts together keep the bandwidth limit |
| | `CancelIsInstantAlways` | no time passes between a cancel and the return of every part |
| | `PartsAreServedInTime` (from `FailsForCauseInTime`, `AdaptiveTimeIsGivenUnlessCut`) | under `TimeSuffices`, and unless the client's own timeout is shorter, a part fails only for a cause and gets its time |
| `ScreensProofs` | `SettingsInRange`, `SavesLastAlways` | only clamped values count; what was saved is in effect after a start |
| | `ScreenIsTrueAlways`, `TicksStopWithTheAttempt` | the screen shows what is stored but for tasks overtaken or dropped with their connection; no tick outlives the transfer of its attempt |
| | `WalksAreTrueAlways`, `ListingIsTrueAlways` | an unmarked answer is whole; the cache misses nothing unless it has a gap, and a refresh is fresh |

The arguments, by the inductive invariant each rests on. The invariants were model-checked
before they were proved.

*Queue.* The invariant is built in layers. `CoreInv` types the durable state and the
control state and contains `OneGoroutinePerTask`: every entry of `running` names a
live worker with that task and conversely. It is inductive because `DispatchAdmit` is
the only step that adds entries and looks at `running` under `mu`, whatever its list
says. `TypeInv` adds the list copies and counters. `ArchivedOnce` needs that
`MoveToHistory` removes the row and appends to the history together, and that ids not
yet given out (`Unused`) have neither. `CancelledOnlyIfAsked` needs `AskedInv`:
whoever is inside a cancel, or holds a goroutine to cancel, works for a task in
`cancelAsked`, and an intent "cancel" was put there by such a caller.
`RunningRowHasGoroutine` needs `RowsOwned`: a row that says running is that of a task
in `running` whose goroutine is not yet past the step that archives or updates the row. `ImplementsLedger` maps initial states and shows, action by
action, that a step is a ledger step or a stutter; it needs `SnapKnown`, that lists only
hold ids below the counter, so that a stale list cannot begin a task that was never
submitted.

*Upload.* `LayoutInv`: unless `mixed`, all that an upload holds, and all that the attempt
believes it to hold, was cut with the part size last used with that upload. Together with
the arithmetic of the layout (`ExtentsTile`: the extents of parts 1 to `Count` cover each
unit exactly once, for every file and part size) a completion with parts 1 to `Count` is
the file. `KnownInv` (the attempt knows of every part the upload holds, until an error) is
what keeps a part from being sent twice, and `CancelInv` what keeps an upload from being
aborted unasked.

*Downloads.* `RecordedInv`: what a sidecar that is not spoiled records is in the file.
`AttemptInv`: a running attempt knows of every segment of its layout that is not, in its
list or with a worker. Written before recorded, the two are inductive through every stop
and crash. For the prefix, `ListingInv` carries what nobody touched from the bucket into
the keys up to the token, then into the work that is left or the entries made; `ArchiveInv`
has each entry whole, from one object, because the buffer belongs to one request.

*Copies.* Between connections (`CrossInv`): parts, and the staging file, hold only the
version of the source that was queued, as long as that is what the source is
(`SameSourceInv`). Within one (`BulkInv`): what is at a target is the data of its object
(`DataInv`), a worker deletes a source only when a target has it, and an object that is not
at its place is at a target (`KeptInv`); each key, and each upload, belongs to one worker
(`HeldInv`, `UploadInv`), or to none and then it is an `orphan`. `CountInv` and `FinalInv` count keys done, failed and under way,
and hold of any requests. `Apart` says that the requests do not touch each other's keys: no target is a
stored object or the target of two, a request names a key once, no key is a folder's
placeholder, and no delete names another request's target. Without it the property is
false of the code (section 5), because two keys then become one.

*Database.* A process past `Apply` has found every version recorded, records are never
removed, and a transaction that dies leaves the committed database alone (`IInv`). A process has seen
an initial segment of the versions, so what gets past the primary key of
`schema_migrations` is the first that is not committed (`KInv`), whoever else migrates. For the
secrets, the salt that a process holds is the stored one: it read it, or it wrote it
while no other process was up.

*Passwords.* `PasswordInv` is in two parts. `FitInv` types the state and fits the fields of
a call to its step, and holds always. `KeysInv` holds until `spoiled`: a call that is not
overtaken and will install, encrypt with, or decrypt with a key has the one that the verifier
stands for, and the KeyBox differs from it only while a call that is not overtaken waits to
install it. `Commit` changes the current key, and marks every other call under way as
overtaken, so what the invariant says of calls is left to say of the committing one alone; a
call that starts with the old key between that commit and its `Install` is overtaken from the
start (`ReadsKey`). *Vault.* A profile's credential is kept when
both its fields are under the key that the verifier stands for, so `Commit` is the one
step in which the key changes and every credential must stay kept, `Install` and `Restart`
take or lose the key, and the other steps change one credential or none. That only who has
the current key stores one needs that the calls of SaveProfile, and of
SetMasterPassword before its commit, found a key in the KeyBox, where one stays until the
process ends.

*Clients.* What a call has read is in `seen`, the configurations stored since it began.
The cache may hold an older entry, but `Get` compares it with what the call has read, so
an entry that is returned equals something in `seen`; whatever makes a call fail was noted
in `cause` when it came about. *Breaker.* `OneTrial` is not inductive alone: `OneTrialInv`
adds that trials exist only while the half-open host is `probing`.

*Time.* `ClockInv` bounds the time since the parts began by what the attempt's number
allows, `Allowance(n)`, which is n deadlines and n longest pauses, plus the age of the
attempt or what is left of the pause. It is inductive because a pause is capped, and an
attempt that has reached its deadline lets no time pass before it ends. *Bandwidth.*
`LimitHolds` is far from inductive: the bucket goes into debt, its units are promised for
later ticks, and an attempt that ends gives some back. `LimitInv` says that everything let
through and granted was in the bucket, and, for every k, that what is let through or falls
due within k ticks is at most `Rate + Rate * (now + k)`. A grant with a wait of d ticks is
covered for k >= d by the first part, because d ticks of refills make up for the debt, and
does not count for k < d; a tick turns the bound for k + 1 into that for k. The sums over
parts are existential running totals (`Covers`), which needs no induction.
*Service.* `FailsForCause` is false of a limit too low for the deadline (section 5), so its
theorem has a condition on the constants: `TimeSuffices` says that the deadline is longer
than the ticks in which the link carries one part (`LinkTicks`) and the ticks in which the
limit lets all parts through (`LimitTicks`) together, and that there is a second attempt.
The run's instance satisfies it. `ServedInv` splits the age of an attempt over a link that
is up into ticks in which it waited for the link and ticks in which it waited for the
limiter (`InStep`). The first are bounded by the part's own bytes. The second cannot be
bounded by them, for others take what is refilled: but while a part waits the bucket is in
debt, so every refill pays for bytes that some part has been granted (`Refilled`), and all
parts together have only so many. The stale connections of the pool cost one attempt, which
is why one retry is enough.

*Settings.* Every call past its first step holds clamped settings, so every row it writes
and every value it applies is in range, whatever other calls wrote between (`IInv`);
`SaveInv` says of a save that nothing disturbed which rows and values it has done.
*Transfers screen.* `ShownInv`: a task that the screen does not show as stored, and that is
neither overtaken nor unannounced, has an answer, an event, or the end of an attempt or call
still to come, although a row may change under its attempt or leave the queue. That no tick
comes late does not depend on the row: the attempt joins its tracker before it stores a result. *Walks and listing.* A page of a
sorted bucket has all keys between its token and its last key, or all that are left
(`BucketPages`). So `WalkInv`: what was found is, each once, what stayed in the bucket up
to the token. `CacheInv`: every entry without a gap `Follows` from the beginning, that is,
has each steady object up to its token; `FreshInv` follows the objects that were gone when
a refresh began through the request, the merge and the read back.

**Model-checked only.**

- `QueueDrains`, `CallsReturn`, `AttemptReturns`, `WorkCompletes`, `CopiesEnd` and
  `StartEnds` are liveness under fairness, which is outside the proof system's reach.

## 5. Where code and documentation disagree

Three runs end in a violation. `queue_cancel`: a pending task is archived as cancelled while
a dispatch with an older list starts it, and it is transferred all the same.
`copies_orphan`: a copy cancelled while its multipart upload is being completed returns
without aborting it (`copylarge.go:115-117`), and the upload stays on the server although
every request was answered and every abort succeeded. `secrets_overlap`: a SaveProfile that
read the key before a password change writes its secret under the old key after it, and the
profile cannot be read any more; the dialogs do not prevent it, for they can be closed while
their call runs (`Modal.tsx:58-63`) and the backend has no lock around the two.

The following are stated in the modules as the documentation has them, and do not hold.
They are not among the runs; the last column says what it takes to see one violated.
`PROJECT.json` quotes the documentation of each under "findings".

| Property | What happens | Instance |
|---|---|---|
| `TransferService.RunningRowHasGoroutine` | startup's ApplySettings dispatches before RecoverOrphanedTasks, which gives up at the first row that has ended meanwhile; other rows stay "running" for good | 2 tasks, a crash |
| `CircuitBreaker.HalfOpenResolves` | a trial that is cancelled, or fails for a reason that does not count, or is retried, leaves `probing` set, and the host is refused for ever | `clients`, with the breaker's fairness |
| `RangeDownload.ResumedFileIsObject` | the sidecar makes a resumed download skip data that is not in the file (another segment size, a torn line, a deleted file), and the download succeeds | `downloads`; for the torn line eleven segments in base 10 |
| `PrefixDownload.NoStrayArchive` | a task paused by a restart and then cancelled leaves its torn archive | `downloads` |
| `CrossConnectionCopy.MoveNeverLosesObject` | a move deletes a source that replaced the one it copied, or copied a mixture of both | `copies` |
| `CrossConnectionCopy.NothingDownloadedAgain` | an attempt resumed during the upload downloads everything again | `copies` |
| `CrossConnectionCopy.CancelledUploadIsAborted` | cancelling a paused copy leaves its upload open | `copies` |
| `CrossConnectionCopy.LeftoverSourceRecovers` | a move of a large object that failed to delete the source fails at every retry | `copies` |
| `BulkOperations.NothingIsLost` | two keys of one base name are moved to one key; a large object moved into its own folder is deleted | Requests with such keys |
| `BulkOperations.CancelIsReported` | a delete cancelled during its last batch ends as completed | `copies` |
| `ProfileClients.ResolvesAlike` | an imported profile without a secret resolves for the file browser only | `clients` |
| `DatabaseOpening.SaltIsStored` | two first starts at once each keep their own salt | `secrets` |
| `DatabaseOpening.RecoveredIsOrphan` | a second process pauses the running task of the first | `secrets` |
| `AppSettings.PolicyIsOneSave` | two overlapping saves leave attempts of one and the timeout of the other | `screens` |
| `PartTiming.AdaptiveTimeIsGiven` | the http.Client's 30 s end an attempt before the adaptive timeout | `HTTPTimeout` below the deadline |
| `PartTiming.FailsForCause` | a limit too low for a part's timeout makes every attempt fail | `Rate` 1 |
| `TransferScreen.ShownIsStored` | an answer of GetQueue overtaken by an event leaves the old status on the screen; the tasks cancelled with a deleted connection stay shown (`ConnectionsScreen.tsx:131-134` fetches nothing, and cancelling a resting task emits nothing) | `screens` |
| `MasterPassword.AllUnderCurrentKey` | the same as `secrets_overlap`; and two overlapping password calls may install a key that is no longer the stored one | `secrets` |
| `ObjectListing.NothingShownTwice` | load more appends an answer that has every page already | `screens` |
| `ObjectListing.ShownIsOpen` | a late answer shows the folder that was left | two folders |
| `ObjectListing.CacheCovers` | after a failed refresh, load more starts an entry with the second page | `screens` |
| `BucketWalks.TruncatedIsPartial` | a search with exactly `maxSearchResults` matches is marked truncated | as many matches as results |

Present in the models without a property:

- `WithRetry` asks the breaker before the backoff pause, not after it (`Backoff`).
- PauseTask after CancelTask overwrites the intent: a cancelled task ends as paused.
- A failure before the transfer (profile, key) while a cancel is under way ends as
  "failed", for only `context.Canceled` is looked at.
- `ARCHITECTURE.md:44` and MoveToHistory's comment have failed tasks in the history;
  they stay in the queue. `ARCHITECTURE.md:57` has download resume compare the local
  size; the code uses the sidecar.
- A task started from an older list carries no upload id, creates a second multipart
  upload and overwrites the first's id (`Start`, `PersistUploadID`): its parts are
  lost to the resume that `upload.go:43-49` promises.
- CompleteMultipartUpload whose answer is lost, or a crash before the archive: the
  next attempt's ListParts finds no upload, and the task fails at every retry although
  the object is stored (`ListParts` is then never enabled).
- Parts stored under another part size are taken for parts of the new layout
  (`mixed`); with an override the 10000-part clamp is not applied.
- A profile imported without credentials makes SetMasterPassword and
  RemoveMasterPassword fail until it is edited or deleted (`Reencryptable`); nothing else
  that is stored does (`OnlyBlankRefuses`).

Outside the models: the data file is not synced before the sidecar, so a power loss
may leave a recorded hole; an object replaced between the attempts of a download mixes
two objects; a mismatch of a download's MD5 is ignored; a multipart copy within a
connection drops content type and user metadata; `CancelTasksForProfile` looks only at
`ProfileID`, not at a copy's destination; a profile edited between a task's two reads of
it counts failures at another host's breaker; rows stay pending after a start whose
settings cannot be read, until something else dispatches.

## 6. What is not modelled, and what is left

Not modelled, because there is no state to get wrong: presigned URLs, HeadObject and
preview, creation and deletion of buckets, favorites, the connection test and the
validator (one request or one statement each), dialogs and MIME types, file paths and
the profiling server, window geometry, the views that only render.

Abstracted away: bytes, speeds and times shown by the progress display; SQL errors other
than a missing row (but for `DatabaseOpening` and `AppSettings`, where a write may
fail); network detail below a request; ETag and MD5 verification, which only reports;
the format of archives and exports; key derivation; the layout of segments and parts in
`CrossConnectionCopy`.

What is left to do, the most rewarding first:

1. An abstract resumable transfer that `MultipartUpload`, `RangeDownload` and
   `CrossConnectionCopy` all implement, with proofs: progress that only
   grows until it is everything.
2. The task's two reads of its profile (`TransferService`) composed with
   `ProfileClients` and a breaker per host.
3. The Transfers screen composed with `TransferService`, whose queue it now has a smaller
   model of.
