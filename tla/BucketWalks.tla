----------------------------- MODULE BucketWalks -----------------------------
(***************************************************************************)
(* The three walks over everything under a prefix (internal/filemanager):  *)
(* SearchObjects (search.go), GetBucketSize (bucketsize.go) and            *)
(* ListAllKeysUnderPrefix (listallkeys.go), page by page under one         *)
(* deadline, while others put and delete objects.                          *)
(*                                                                         *)
(* Keys are numbered in S3's order.  What a walk gathers is the sequence   *)
(* of the keys it counted: a search answers with their entries, a size is  *)
(* their number and the sum of their sizes, a list is the sequence.        *)
(***************************************************************************)
EXTENDS BucketPages, SequencesExt

CONSTANTS
    Steady, Volatile,         \* objects that stay, and objects that come and go
    Matching,                 \* the keys whose last segment contains the query
    PageSize, maxSearchResults,
    MaxChanges                \* bound on the changes others make

\* What an instance gives.
WalkAssumption ==
    /\ Steady \cup Volatile \subseteq Nat \ {0} /\ Steady \cap Volatile = {}
    /\ IsFiniteSet(Steady \cup Volatile)
    /\ PageSize \in Nat \ {0} /\ maxSearchResults \in Nat \ {0} /\ MaxChanges \in Nat

Keys == Steady \cup Volatile
Walks == {"search", "size", "list"}

VARIABLES
    walk,                     \* which of the three it is
    pc, token,                \* its step, and the last key of the page before
    found, truncated,         \* what it answers
    expired,                  \* listAllKeysTimeout is over
    bucket, changes,
    absent                    \* history: the keys that were never there while it ran

answer == <<found, truncated>>
world == <<bucket, changes, absent>>
vars == <<walk, pc, token, answer, expired, world>>

Init ==
    /\ walk \in Walks /\ pc = "walk" /\ token = 0
    /\ found = <<>> /\ truncated = FALSE /\ expired = FALSE
    /\ bucket \in {Steady \cup v : v \in SUBSET Volatile} /\ changes = 0
    /\ absent = Keys \ bucket

-----------------------------------------------------------------------------
(* A page, of ListObjectsV2 without a delimiter, and what a walk makes of it. *)

\* A fault: the answer does not say that it was cut at the cap.
SearchSilently(page, more) ==
    LET all == found \o InOrder(page \cap Matching)
        full == Len(all) >= maxSearchResults
    IN  /\ walk = "search"
        /\ found' = SubSeq(all, 1, Min({maxSearchResults, Len(all)})) /\ UNCHANGED truncated
        /\ pc' = IF more /\ ~full THEN "walk" ELSE "done"

\* SearchObjects: the matches of the page, up to the cap.
SearchObjects(page, more) ==
    LET all == found \o InOrder(page \cap Matching)
        full == Len(all) >= maxSearchResults
    IN  /\ walk = "search"
        /\ found' = SubSeq(all, 1, Min({maxSearchResults, Len(all)})) /\ truncated' = full
        /\ pc' = IF more /\ ~full THEN "walk" ELSE "done"

GetBucketSize(page, more) ==
    /\ walk = "size"
    /\ found' = found \o InOrder(page) /\ UNCHANGED truncated
    /\ pc' = IF more THEN "walk" ELSE "done"

ListAllKeysUnderPrefix(page, more) ==
    /\ walk = "list"
    /\ found' = found \o InOrder(page) /\ UNCHANGED truncated
    /\ pc' = IF more THEN "walk" ELSE "done"

\* One page.  After the deadline no request succeeds.
NextPage ==
    LET page == PageAfter(bucket, token, PageSize)
        more == MoreAfter(bucket, token, PageSize)
    IN  /\ pc = "walk" /\ ~expired
        /\ \/ SearchObjects(page, more)
           \/ GetBucketSize(page, more)
           \/ ListAllKeysUnderPrefix(page, more)
        /\ token' = IF more THEN NextToken(bucket, token, PageSize) ELSE token
        /\ UNCHANGED <<walk, expired, world>>

\* A request fails: by the deadline, a search and a size answer with what they have, and a
\* list never does.
RequestFails ==
    /\ pc = "walk"
    /\ IF expired /\ walk # "list"
       THEN pc' = "done" /\ truncated' = TRUE /\ UNCHANGED found
       ELSE pc' = "failed" /\ found' = <<>> /\ truncated' = FALSE
    /\ UNCHANGED <<walk, token, expired, world>>

Expire ==
    /\ pc = "walk" /\ ~expired
    /\ expired' = TRUE
    /\ UNCHANGED <<walk, pc, token, answer, world>>

\* Others put and delete objects.
ChangeBucket ==
    /\ pc = "walk" /\ changes < MaxChanges
    /\ \E k \in Volatile : bucket' = IF k \in bucket THEN bucket \ {k} ELSE bucket \cup {k}
    /\ changes' = changes + 1 /\ absent' = absent \ bucket'
    /\ UNCHANGED <<walk, pc, token, answer, expired>>

Next == NextPage \/ RequestFails \/ Expire \/ ChangeBucket

Spec == Init /\ [][Next]_vars

-----------------------------------------------------------------------------
(* Properties. *)

TypeOK ==
    /\ walk \in Walks /\ pc \in {"walk", "done", "failed"} /\ token \in {0} \cup Keys
    /\ found \in Seq(Keys) /\ truncated \in BOOLEAN /\ expired \in BOOLEAN
    /\ bucket \subseteq Keys /\ changes \in 0..MaxChanges /\ absent \subseteq Keys

Sought == IF walk = "search" THEN Matching ELSE Keys

\* An answer that is not marked truncated is the whole of the prefix: every object that was
\* there all along, and once each; a list that succeeds is always that, whatever the deadline
\* did, for it is what a folder is deleted by.
UnmarkedIsWhole ==
    pc = "done" /\ ~truncated => Steady \cap Sought \subseteq ToSet(found)

\* No object is counted twice, or counted that was never there, however the bucket changes
\* between pages.
CountedOnce == IsInjective(found) /\ ToSet(found) \subseteq (Sought \ absent)

\* A search never answers with more than maxSearchResults.
CapHolds == walk = "search" => Len(found) <= maxSearchResults

\* A truncated answer is "a partial, not authoritative, result set" (domain/filemanager.go):
\* something was left out.
TruncatedIsPartial ==
    [][pc = "walk" /\ truncated' /\ ~expired => (bucket \cap Matching) \ ToSet(found') # {}]_vars

=============================================================================
