----------------------------- MODULE BucketPages -----------------------------
(***************************************************************************)
(* What S3's ListObjectsV2 answers, for the listing and the walks of       *)
(* internal/filemanager: keys are numbers in S3's order, a continuation    *)
(* token is the last key of the page before, 0 before the first page.      *)
(***************************************************************************)
EXTENDS Integers, FiniteSets, FiniteSetsExt

\* The keys of a page: the first n of those after the token.
PageAfter(keys, t, n) ==
    {k \in keys : t < k /\ Cardinality({j \in keys : t < j /\ j < k}) < n}

\* IsTruncated: some keys after the token are not on its page.
MoreAfter(keys, t, n) == \E k \in keys \ PageAfter(keys, t, n) : t < k

\* The token of the page that follows.
NextToken(keys, t, n) == Max(PageAfter(keys, t, n))

\* A set of keys in S3's order.
InOrder(S) ==
    CHOOSE s \in [1 .. Cardinality(S) -> S] : \A i, j \in DOMAIN s : i < j => s[i] < s[j]

=============================================================================
