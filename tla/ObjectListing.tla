---------------------------- MODULE ObjectListing ----------------------------
(***************************************************************************)
(* Browsing a bucket: the listing that the file manager screen shows       *)
(* (frontend/src/stores/useFileManagerStore.ts), the calls of ListObjects  *)
(* it makes, which run concurrently and answer in any order, and the       *)
(* session cache of accumulated pages they share (filemanager/list.go,     *)
(* list_cache.go), over a bucket that others change meanwhile.             *)
(*                                                                         *)
(* The objects of a folder are numbered in S3's order and a continuation   *)
(* token is the last one listed.  Sorting, which works on a copy, and the  *)
(* folder tree of the destination picker, a second reader of the same      *)
(* cache, are left out.                                                    *)
(***************************************************************************)
EXTENDS BucketPages, SequencesExt

CONSTANTS
    Folders, Start,           \* the prefixes, and the one that is open first
    Calls,                    \* calls of ListObjects that may be in flight
    Steady, Volatile,         \* objects that stay, and objects that come and go, in each
    PageSize,
    MayFail,                  \* whether a request may fail
    MaxActions, MaxChanges    \* bounds on the user's actions and on the bucket's changes

\* What an instance gives.
ListingAssumption ==
    /\ Start \in Folders /\ Steady \cup Volatile \subseteq Nat \ {0}
    /\ Steady \cap Volatile = {} /\ IsFiniteSet(Steady \cup Volatile)
    /\ PageSize \in Nat \ {0} /\ MayFail \in BOOLEAN
    /\ MaxActions \in Nat /\ MaxChanges \in Nat

Keys == Steady \cup Volatile
NoToken == 0
NoEntry == [entries |-> <<>>, token |-> -1, truncated |-> FALSE]
NoCall == [folder |-> Start, token |-> NoToken, refresh |-> FALSE, append |-> FALSE]

VARIABLES
    bucket, changes,          \* the objects of each folder
    cache,                    \* listCache: for each folder the entry, or NoEntry
    at, entries, token, truncated, loading,     \* the store of the screen
    pc, call,                 \* each call: its step and its request
    page, result,             \* the page it fetched, and what it answers
    actions,
    alone, gone, gap          \* history: a call that no other overlapped on its folder, the
                              \* objects absent ever since it began, the folders whose entry
                              \* was continued by a page that does not follow it

store == <<at, entries, token, truncated, loading>>
history == <<alone, gone, gap>>
vars == <<bucket, changes, cache, store, pc, call, page, result, actions, history>>

Object(f, k) == <<f, k>>
Running(c) == pc[c] # "idle"

Init ==
    /\ bucket \in [Folders -> {Steady \cup v : v \in SUBSET Volatile}]
    /\ changes = 0
    /\ cache = [f \in Folders |-> NoEntry]
    /\ at = Start /\ entries = <<>> /\ token = NoToken /\ truncated = FALSE /\ loading = FALSE
    /\ pc = [c \in Calls |-> "idle"] /\ call = [c \in Calls |-> NoCall]
    /\ page = [c \in Calls |-> NoEntry] /\ result = [c \in Calls |-> NoEntry]
    /\ actions = 0
    /\ alone = [c \in Calls |-> FALSE] /\ gone = [c \in Calls |-> {}] /\ gap = {}

-----------------------------------------------------------------------------
(* The store: what the user does. *)

\* loadEntries: the request is made of the store's state now.
Request(c, f, more, again) ==
    /\ pc[c] = "idle" /\ actions < MaxActions
    /\ actions' = actions + 1
    /\ pc' = [pc EXCEPT ![c] = "lookup"]
    /\ call' = [call EXCEPT ![c] = [folder |-> f, token |-> IF more THEN token ELSE NoToken,
                                    refresh |-> again, append |-> more]]
    /\ loading' = TRUE
    /\ LET overlaps == {d \in Calls : Running(d) /\ call[d].folder = f} IN
       alone' = [d \in Calls |-> IF d = c THEN overlaps = {} ELSE alone[d] /\ d \notin overlaps]
    /\ gone' = [gone EXCEPT ![c] = Keys \ bucket[f]]
    /\ UNCHANGED <<bucket, changes, cache, page, result, gap>>

\* selectBucket, navigateToPrefix, gotoHistoryIndex.
Navigate(c, f) ==
    /\ Request(c, f, FALSE, FALSE)
    /\ at' = f /\ entries' = <<>> /\ token' = NoToken /\ truncated' = FALSE

\* setSort asks for the first page again, which the cache serves.
Resort(c) == Request(c, at, FALSE, FALSE) /\ UNCHANGED <<at, entries, token, truncated>>

\* The toolbar's refresh, and the one that an object:change event causes.
Refresh(c) == Request(c, at, FALSE, TRUE) /\ UNCHANGED <<at, entries, token, truncated>>

LoadMore(c) ==
    /\ truncated /\ ~loading
    /\ Request(c, at, TRUE, FALSE) /\ UNCHANGED <<at, entries, token, truncated>>

\* The answer arrives: the store takes it whatever it shows by now.
Receive(c) ==
    /\ pc[c] \in {"answer", "failed"}
    /\ pc' = [pc EXCEPT ![c] = "idle"]
    /\ IF pc[c] = "answer"
       THEN /\ entries' = IF call[c].append THEN entries \o result[c].entries ELSE result[c].entries
            /\ token' = result[c].token /\ truncated' = result[c].truncated
       ELSE UNCHANGED <<entries, token, truncated>>
    /\ loading' = FALSE
    /\ call' = [call EXCEPT ![c] = NoCall]
    /\ page' = [page EXCEPT ![c] = NoEntry] /\ result' = [result EXCEPT ![c] = NoEntry]
    /\ alone' = [alone EXCEPT ![c] = FALSE] /\ gone' = [gone EXCEPT ![c] = {}]
    /\ UNCHANGED <<bucket, changes, cache, at, actions, gap>>

-----------------------------------------------------------------------------
(* ListObjects. *)

CallUnchanged == UNCHANGED <<bucket, changes, store, call, actions, alone, gone>>

\* invalidate, then get: the first page of a cached listing needs no request.
Lookup(c) ==
    LET f == call[c].folder
        kept == IF call[c].refresh THEN NoEntry ELSE cache[f]
    IN  /\ pc[c] = "lookup"
        /\ cache' = [cache EXCEPT ![f] = kept]
        /\ \/ /\ call[c].token = NoToken /\ kept # NoEntry
              /\ result' = [result EXCEPT ![c] = kept]
              /\ pc' = [pc EXCEPT ![c] = "answer"]
           \/ /\ call[c].token # NoToken \/ kept = NoEntry
              /\ pc' = [pc EXCEPT ![c] = "list"] /\ UNCHANGED result
        /\ UNCHANGED <<page, gap>> /\ CallUnchanged

\* The page of a folder after a token (entriesFromPage).
FetchedPage(f, t) ==
    LET listed == InOrder(PageAfter(bucket[f], t, PageSize))
        more == MoreAfter(bucket[f], t, PageSize)
    IN  [entries |-> [i \in DOMAIN listed |-> Object(f, listed[i])],
         token |-> IF more THEN NextToken(bucket[f], t, PageSize) ELSE NoToken,
         truncated |-> more]

List(c) ==
    /\ pc[c] = "list"
    /\ \/ /\ page' = [page EXCEPT ![c] = FetchedPage(call[c].folder, call[c].token)]
          /\ pc' = [pc EXCEPT ![c] = "merge"]
       \/ /\ MayFail
          /\ pc' = [pc EXCEPT ![c] = "failed"] /\ UNCHANGED page
    /\ UNCHANGED <<cache, result, gap>> /\ CallUnchanged

\* An entry continued by a page.
appendPage(entry, p) ==
    [entries |-> entry.entries \o p.entries, token |-> p.token, truncated |-> p.truncated]

\* A fault: a first page extends the entry too.
MergeAppending(c) ==
    LET f == call[c].folder IN
    /\ pc[c] = "merge"
    /\ cache' = [cache EXCEPT ![f] = appendPage(@, page[c])]
    /\ pc' = [pc EXCEPT ![c] = "read"]
    /\ UNCHANGED <<page, result, gap>> /\ CallUnchanged

\* appendPage for a follow-up page, even to no entry at all; set for a first page.
Merge(c) ==
    LET f == call[c].folder IN
    /\ pc[c] = "merge"
    /\ IF call[c].token # NoToken
       THEN /\ cache' = [cache EXCEPT ![f] = appendPage(@, page[c])]
            /\ gap' = IF cache[f].token = call[c].token THEN gap ELSE gap \cup {f}
       ELSE /\ cache' = [cache EXCEPT ![f] = page[c]]
            /\ gap' = gap \ {f}
    /\ pc' = [pc EXCEPT ![c] = "read"]
    /\ UNCHANGED <<page, result>> /\ CallUnchanged

\* The answer has the accumulated entries, read from the cache once more, and the page's own
\* token.
ReadBack(c) ==
    /\ pc[c] = "read"
    /\ result' = [result EXCEPT ![c] = [page[c] EXCEPT !.entries = cache[call[c].folder].entries]]
    /\ pc' = [pc EXCEPT ![c] = "answer"]
    /\ UNCHANGED <<cache, page, gap>> /\ CallUnchanged

-----------------------------------------------------------------------------
(* Others put and delete objects. *)

ChangeBucket(f) ==
    /\ changes < MaxChanges /\ changes' = changes + 1
    /\ \E k \in Volatile :
          bucket' = [bucket EXCEPT ![f] = IF k \in @ THEN @ \ {k} ELSE @ \cup {k}]
    /\ gone' = [c \in Calls |-> IF Running(c) /\ call[c].folder = f
                                THEN gone[c] \ bucket'[f] ELSE gone[c]]
    /\ UNCHANGED <<cache, store, pc, call, page, result, actions, alone, gap>>

Work(c) == Lookup(c) \/ List(c) \/ Merge(c) \/ ReadBack(c) \/ Receive(c)
User ==
    \E c \in Calls :
        (\E f \in Folders : Navigate(c, f)) \/ Resort(c) \/ Refresh(c) \/ LoadMore(c)

Next == (\E c \in Calls : Work(c)) \/ User \/ \E f \in Folders : ChangeBucket(f)

Spec == Init /\ [][Next]_vars

-----------------------------------------------------------------------------
(* Properties. *)

Entry == [entries : Seq(Folders \X Keys), token : {-1, NoToken} \cup Keys, truncated : BOOLEAN]
TypeOK ==
    /\ bucket \in [Folders -> SUBSET Keys] /\ changes \in 0..MaxChanges
    /\ \A f \in Folders : cache[f].entries \in Seq({f} \X Keys)
    /\ cache \in [Folders -> Entry] /\ page \in [Calls -> Entry] /\ result \in [Calls -> Entry]
    /\ at \in Folders /\ entries \in Seq(Folders \X Keys) /\ token \in {NoToken} \cup Keys
    /\ truncated \in BOOLEAN /\ loading \in BOOLEAN
    /\ pc \in [Calls -> {"idle", "lookup", "list", "merge", "read", "answer", "failed"}]
    /\ call \in [Calls -> [folder : Folders, token : {NoToken} \cup Keys, refresh : BOOLEAN,
                           append : BOOLEAN]]
    /\ actions \in 0..MaxActions /\ gap \subseteq Folders

\* The entry of a folder holds every object up to its token that was there all the time,
\* once.
Covers(f) ==
    cache[f] # NoEntry =>
        \A k \in Steady :
            LET places == {i \in DOMAIN cache[f].entries : cache[f].entries[i] = Object(f, k)} IN
            /\ (cache[f].truncated /\ k > cache[f].token) \/ places # {}
            /\ Cardinality(places) <= 1

\* "Entries is the raw, unsorted accumulation of every page fetched so far for this key"
\* (list_cache.go): what the cache serves as a listing misses nothing and repeats nothing.
CacheCovers == \A f \in Folders : Covers(f)

\* The same as long as no page was appended that does not follow the entry: whatever
\* overlaps, fails or changes in the bucket.
CacheCoversUnlessGap == \A f \in Folders \ gap : Covers(f)

\* A refresh that no other call of its folder overlaps shows no object that was deleted
\* before it began: it "discards any cached listing ... forcing a fresh fetch" (list.go).
RefreshIsFresh ==
    \A c \in Calls : pc[c] = "answer" /\ call[c].refresh /\ alone[c] =>
        \A k \in gone[c] : Object(call[c].folder, k) \notin ToSet(result[c].entries)

\* The page that LoadMore fetches is appended to what is shown: nothing is shown twice
\* (useFileManagerStore.ts: "Fetches the next page via nextContinuationToken, appending to
\* entries").
NothingShownTwice ==
    \A k \in Steady : Cardinality({i \in DOMAIN entries : entries[i] = Object(at, k)}) <= 1

\* What is shown is of the folder that is open (useFileManagerStore.ts: going to a history
\* entry applies it "as the current location and reloads").
ShownIsOpen == \A i \in DOMAIN entries : entries[i][1] = at

=============================================================================
