------------------------------ MODULE MCScreens ------------------------------
(***************************************************************************)
(* Instances of AppSettings, TransferScreen, ObjectListing and BucketWalks *)
(* for TLC: the Settings screen's backend, what the Transfers screen and   *)
(* the file manager show, and the answers of the walks over a bucket.      *)
(* They share nothing in these models, so a behaviour is one of one kind,  *)
(* and the others rest.                                                    *)
(***************************************************************************)
EXTENDS AppSettings, TLC

CONSTANTS
    Tasks, Calls, MaxActions, MaxTicks, MaxLists, MaxInbox,
    folder, ListFolders, ListCalls, Steady, Volatile, ListPageSize, MaxListActions, MaxChanges,
    WalkSteady, WalkVolatile, Matching, WalkPageSize, maxSearchResults, MaxWalkChanges

VARIABLES
    subject,                  \* "settings", "transfers", "browse" or "walk"
    row, lists, run, intent, outcome, tracker, ticks, step, asked, task, data, inbox, shown,
    actions, overtaken, unannounced,
    bucket, changes, cache, listAt, entries, token, truncated, loading, listPc, call, page, result,
    listActions, listAlone, gone, gap,
    walk, walkPc, walkToken, found, walkTruncated, expired, walkBucket, walkChanges, absent

T == INSTANCE TransferScreen
L == INSTANCE ObjectListing
       WITH pc <- listPc, at <- listAt, alone <- listAlone, actions <- listActions,
            Calls <- ListCalls, MaxActions <- MaxListActions, Folders <- ListFolders,
            Start <- folder, PageSize <- ListPageSize, MayFail <- TRUE
W == INSTANCE BucketWalks
       WITH pc <- walkPc, token <- walkToken, truncated <- walkTruncated,
            bucket <- walkBucket, changes <- walkChanges,
            Steady <- WalkSteady, Volatile <- WalkVolatile, PageSize <- WalkPageSize,
            MaxChanges <- MaxWalkChanges

ASSUME ScreensAssumption ==
    T!ScreenAssumption /\ L!ListingAssumption /\ W!WalkAssumption

\* Settings below and above the bounds, some within.
Below == [theme |-> "other", uiScale |-> 300, closeBehavior |-> "confirm", autoResume |-> TRUE,
          maxConcurrent |-> 0, partSize |-> -1, uploadLimit |-> 1000, downloadLimit |-> -7,
          retryAttempts |-> 0, timeout |-> 60]
Above == [theme |-> "dark", uiScale |-> 300, closeBehavior |-> "other", autoResume |-> TRUE,
          maxConcurrent |-> 99, partSize |-> 500, uploadLimit |-> -1, downloadLimit |-> 2000,
          retryAttempts |-> 7, timeout |-> 900]
SomeRequests == {Below, Above}

transfers == <<row, lists, run, intent, outcome, tracker, ticks, step, asked, task, data, inbox,
               shown, actions, overtaken, unannounced>>
browsing == <<bucket, changes, cache, listAt, entries, token, truncated, loading, listPc, call,
              page, result, listActions, listAlone, gone, gap>>
walking == <<walk, walkPc, walkToken, found, walkTruncated, expired, walkBucket, walkChanges,
             absent>>
all == <<subject, vars, transfers, browsing, walking>>

\* Those that rest have a single initial state.
MCInit ==
    /\ subject \in {"settings", "transfers", "browse", "walk"}
    /\ Init /\ T!Init /\ L!Init /\ W!Init
    /\ subject # "transfers" => row = [t \in Tasks |-> "none"]
    /\ subject # "browse" => bucket = [f \in ListFolders |-> Steady]
    /\ subject # "walk" => walk = "list" /\ walkBucket = WalkSteady
MCNext ==
    \/ subject = "settings" /\ Next /\ UNCHANGED <<subject, transfers, browsing, walking>>
    \/ subject = "transfers" /\ T!Next /\ UNCHANGED <<subject, vars, browsing, walking>>
    \/ subject = "browse" /\ L!Next /\ UNCHANGED <<subject, vars, transfers, walking>>
    \/ subject = "walk" /\ W!Next /\ UNCHANGED <<subject, vars, transfers, browsing>>

MCSpec == MCInit /\ [][MCNext]_all

\* A constraint of the run: so many messages may wait for the Transfers screen.
FewMessages == Len(inbox) <= MaxInbox

CallSymmetry == Permutations(Saves) \cup Permutations(Calls)

\* A save that nothing disturbed lasts, and settings nobody touched are the program's, see
\* AppSettings.
SavesLast == TypeOK /\ SavedTakesEffect /\ UntouchedIsNeutral

\* The Transfers screen shows what is stored, and its calls wait for what runs, see
\* TransferScreen ...
ScreenIsTrue == T!TypeOK /\ T!ShownIsStoredUnlessOvertaken /\ T!WaitsForRunning

\* ... and no tick of a tracker outlives its attempt.
TicksOnlyWhileRunning == T!TicksOnlyWhileRunning

\* The cache misses and repeats nothing, and a refresh is fresh, see ObjectListing.
ListingIsTrue == L!TypeOK /\ L!CacheCoversUnlessGap /\ L!RefreshIsFresh

\* The answer of a walk is whole unless it is marked, and counts nothing twice, see
\* BucketWalks.
WalksAreTrue == W!TypeOK /\ W!UnmarkedIsWhole /\ W!CountedOnce /\ W!CapHolds

=============================================================================
