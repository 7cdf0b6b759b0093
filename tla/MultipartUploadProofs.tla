------------------------ MODULE MultipartUploadProofs ------------------------
(***************************************************************************)
(* What is stored after an upload is the file, and stored parts are kept,  *)
(* for any file, part sizes, number of workers, uploads, lost answers,     *)
(* calls and crashes.                                                      *)
(*                                                                         *)
(* The layout of the parts (CeilDivBounds, ExtentsTile) is arithmetic.  On *)
(* top of it the invariant says that everything an upload holds, and       *)
(* everything an attempt believes it to hold, was cut with the part size   *)
(* last used with that upload.                                             *)
(***************************************************************************)
EXTENDS MultipartUpload, FiniteSetTheorems, TLAPS

-----------------------------------------------------------------------------
(* Part sizes *)

LEMMA CeilDivBounds ==
    ASSUME NEW a \in Positive, NEW b \in Positive
    PROVE  /\ ceilDiv(a, b) \in Positive
           /\ (ceilDiv(a, b) - 1) * b < a
           /\ a <= ceilDiv(a, b) * b
<1>1. a \in Nat /\ a > 0 /\ b \in Nat /\ b > 0
    BY DEF Positive
<1>. DEFINE q == (a + b - 1) \div b
            r == (a + b - 1) % b
<1>2. q \in Int /\ r \in 0 .. b - 1 /\ a + b - 1 = b * q + r
    BY <1>1
<1>3. q > 0
    BY <1>1, <1>2
<1>. QED  BY <1>1, <1>2, <1>3 DEF ceilDiv, Positive

\* An attempt always has a part size, whatever the file and the user's setting.
LEMMA EffectivePositive ==
    ASSUME NEW size \in Positive,
           NEW override \in {0} \cup partSizeOverrideMin .. partSizeOverrideMax
    PROVE  EffectivePartSize(size, override) \in Positive
<1>1. CASE override > 0
    BY <1>1, SizesAssumption DEF EffectivePartSize, Positive, SizesAssumption
<1>2. CASE ~(override > 0)
    <2>1. TableSize(size) \in Positive
        BY SizesAssumption DEF TableSize, SizesAssumption
    <2>2. ceilDiv(size, maxPartsPerUpload) \in Positive
        BY CeilDivBounds, SizesAssumption DEF SizesAssumption
    <2>3. ceilDiv(ceilDiv(size, maxPartsPerUpload), clampRoundingUnit) \in Positive
        BY <2>2, CeilDivBounds, SizesAssumption DEF SizesAssumption
    <2>4. \A m, n \in Positive : m * n \in Positive
        BY DEF Positive
    <2>5. PartSize(size) \in Positive
        BY <2>1, <2>3, <2>4, SizesAssumption DEF PartSize, SizesAssumption
    <2>. QED  BY <1>2, <2>5 DEF EffectivePartSize
<1>. QED  BY <1>1, <1>2

\* The parts follow each other from the file's first unit to its last.
LEMMA ExtentsTile ==
    ASSUME NEW total \in Positive, NEW size \in Positive
    PROVE  LET c == PartCount(total, size) IN
           /\ c \in 1 .. total
           /\ Extent(1, total, size).from = 1
           /\ Extent(c, total, size).to = total
           /\ \A n \in 1 .. c - 1 :
                Extent(n + 1, total, size).from = Extent(n, total, size).to + 1
<1>. DEFINE c == ceilDiv(total, size)
<1>1. PartCount(total, size) = c
    BY DEF PartCount, Positive
<1>2. c \in Positive /\ (c - 1) * size < total /\ total <= c * size
    BY CeilDivBounds
<1>. HIDE DEF c
<1>3. c <= total
    <2>1. c - 1 \in Nat /\ size \in Nat /\ size >= 1 /\ total \in Nat
        BY <1>2 DEF Positive
    <2>2. c - 1 <= (c - 1) * size
        BY <2>1
    <2>. QED  BY <1>2, <2>1, <2>2
<1>4. ASSUME NEW n \in 1 .. c - 1
      PROVE  n * size < total
    <2>1. n \in Nat /\ c \in Nat /\ size \in Nat /\ total \in Nat /\ n <= c - 1
        BY <1>2 DEF Positive
    <2>2. n * size <= (c - 1) * size
        BY <2>1
    <2>. QED  BY <1>2, <2>1, <2>2
<1>5. Extent(1, total, size).from = 1
    BY DEF Extent, Positive
<1>6. Extent(c, total, size).to = total
    BY <1>2 DEF Extent, Positive
<1>7. ASSUME NEW n \in 1 .. c - 1
      PROVE  Extent(n + 1, total, size).from = Extent(n, total, size).to + 1
    BY <1>2, <1>4 DEF Extent, Positive
<1>. QED  BY <1>1, <1>2, <1>3, <1>5, <1>6, <1>7 DEF Positive

-----------------------------------------------------------------------------
(* The invariant *)

Follows(f, size) ==
    /\ DOMAIN f \subseteq 1 .. PartCount(totalBytes, size)
    /\ \A n \in DOMAIN f : f[n] = Extent(n, totalBytes, size)

\* TypeOK in parts, with the types of the variables that TypeOK leaves out.
FileType ==
    /\ totalBytes \in Positive
    /\ partSizeOverride \in {0} \cup partSizeOverrideMin .. partSizeOverrideMax

RowType ==
    /\ status \in {"pending", "running", "paused", "failed", "completed", "cancelled"}
    /\ multipartUploadID \in Uploads \cup {NoUpload}
    /\ listed \subseteq Uploads \cup {NoUpload}

StoreType ==
    /\ state \in [Uploads -> {"none", "open", "completed", "aborted"}]
    /\ parts = [u \in Uploads |-> parts[u]]
    /\ sizeOf \in [Uploads -> Nat]

AttemptType ==
    /\ pc \in {"idle", "put", "create", "persist", "list", "parts", "complete", "result",
               "abort", "archive"}
    /\ uploadID \in Uploads \cup {NoUpload}
    /\ partSize \in Nat
    /\ err \in {"none", "failed", "canceled"}

SignalType == intent \in {"none", "pause", "cancel"} /\ canceled \in BOOLEAN

WorkerType ==
    /\ inflight \subseteq 1 .. Count /\ Cardinality(inflight) <= Concurrency
    /\ inflight \cap DOMAIN partETags = {}

CancelType == cpc \in {"idle", "abort", "archive"} /\ cuploadID \in Uploads \cup {NoUpload}

BoundType == lost \in 0 .. MaxLost /\ calls \in 0 .. MaxCalls /\ crashes \in 0 .. MaxCrashes

\* What each step of the attempt may take for granted.
AttemptInv ==
    /\ pc # "idle" => partSize \in Positive
    /\ pc # "parts" => inflight = {}
    /\ pc \in {"persist", "list", "parts", "complete"} => uploadID \in Uploads
    /\ pc \in {"idle", "put", "create", "persist", "list", "complete"} => err = "none"
    /\ pc \in {"idle", "put", "create", "persist", "list"} => partETags = NoParts
    /\ pc = "complete" => 1 .. Count \subseteq DOMAIN partETags
    /\ pc = "result" /\ err = "none" => object # NoParts

\* Only an open upload holds parts, and only one whose part size is known.
StoreInv ==
    /\ \A u \in Uploads : state[u] # "open" \/ sizeOf[u] = 0 => parts[u] = NoParts
    /\ pc = "persist" => parts[uploadID] = NoParts
    /\ pc \in {"parts", "complete"} => sizeOf[uploadID] = partSize

\* What is held, and what the attempt believes to be held, has the layout of one part size.
LayoutInv ==
    ~mixed =>
      /\ \A u \in Uploads : Follows(parts[u], sizeOf[u])
      /\ pc \in {"parts", "complete"} => Follows(partETags, partSize)

\* Until an error, the attempt knows of every part that the upload holds.
KnownInv ==
    pc = "parts" /\ err = "none" => DOMAIN parts[uploadID] \subseteq DOMAIN partETags \cup inflight

\* Whoever is about to abort an upload was asked to.
CancelInv ==
    /\ intent = "cancel" => cancelAsked
    /\ pc \in {"abort", "archive"} => cancelAsked
    /\ cpc # "idle" => cancelAsked

TypeInv ==
    /\ totalBytes \in FileSizes /\ FileType /\ RowType /\ StoreType /\ AttemptType
    /\ SignalType /\ WorkerType /\ CancelType /\ BoundType

UploadInv ==
    /\ TypeInv /\ AttemptInv /\ StoreInv /\ LayoutInv /\ KnownInv /\ CancelInv
    /\ ObjectIsFile /\ CompletedIsStored

USE DEF store, row, attempt, cancelling, history, bounds, AttemptUnchanged, ResultUnchanged

LEMMA NoPartsFollow ==
    /\ DOMAIN NoParts = {}
    /\ \A size : Follows(NoParts, size)
<1>1. DOMAIN NoParts = {}
    BY DEF NoParts
<1>. QED  BY <1>1 DEF Follows

\* TypeOK is the type part of the invariant.
LEMMA TypeInvIsTypeOK == TypeInv => TypeOK
<1>. SUFFICES ASSUME TypeInv  PROVE TypeOK
    OBVIOUS
<1>1. RowType /\ CancelType /\ BoundType /\ SignalType
    BY DEF TypeInv
<1>2. StoreType /\ AttemptType /\ WorkerType /\ FileType /\ totalBytes \in FileSizes
    BY DEF TypeInv
<1>. QED
    BY <1>1, <1>2, Zenon
    DEF TypeOK, RowType, CancelType, BoundType, SignalType, StoreType, AttemptType, WorkerType,
        FileType

LEMMA InitHolds == Init => UploadInv
<1>. SUFFICES ASSUME Init  PROVE UploadInv
    OBVIOUS
<1>0. /\ FileSizes \subseteq Positive /\ Concurrency \in Nat
      /\ MaxLost \in Nat /\ MaxCalls \in Nat /\ MaxCrashes \in Nat
    BY UploadAssumption DEF UploadAssumption, Positive
<1>1. FileType /\ RowType /\ CancelType /\ SignalType /\ totalBytes \in FileSizes
    BY <1>0 DEF Init, FileType, RowType, CancelType, SignalType, NoUpload
<1>7. BoundType
    BY <1>0 DEF Init, BoundType
<1>2. StoreType
    BY DEF Init, StoreType
<1>3. AttemptType
    BY DEF Init, AttemptType, NoUpload
<1>4. WorkerType
    <2>1. inflight = {}
        BY DEF Init
    <2>2. Cardinality(inflight) = 0
        BY <2>1, FS_EmptySet
    <2>. QED  BY <1>0, <2>1, <2>2 DEF WorkerType
<1>5. AttemptInv /\ StoreInv /\ KnownInv /\ CancelInv
    BY DEF Init, AttemptInv, StoreInv, KnownInv, CancelInv
<1>6. LayoutInv
    BY NoPartsFollow DEF Init, LayoutInv
<1>. QED
    BY <1>1, <1>2, <1>3, <1>4, <1>5, <1>6, <1>7
    DEF Init, UploadInv, TypeInv, ObjectIsFile, CompletedIsStored
-----------------------------------------------------------------------------
(* Every step keeps every part of the invariant *)

LEMMA RowTypeStays ==
    ASSUME UploadInv, [Next]_vars
    PROVE  (RowType /\ CancelType)'
<1>0. RowType /\ CancelType /\ AttemptType
    BY DEF UploadInv, TypeInv
<1>1. CASE Transfer
    BY <1>0, <1>1
    DEF Transfer, RequestFails, PutObject, CreateMultipartUpload, PersistUploadID, ListParts,
        Launch, UploadPart, PartFails, Wait, CompleteMultipartUpload, Answered, RowType,
        AttemptType, CancelType, NoUpload, InQueue
<1>2. CASE ~Transfer
    BY <1>0, <1>2
    DEF Next, List, Start, HandleResult, ArchiveCompleted, MarkFailed, MarkPaused,
        CancelledResult, AbortUpload, ArchiveCancelled, Abort, NoAttempt, User, Signal,
        PauseTask, ResumeTask, RetryTask, Rewrite, CancelRead, CancelAbort, CancelArchive,
        SetPartSizeOverrideMB, Crash, vars, RowType, AttemptType, CancelType, NoUpload, InQueue
<1>. QED  BY <1>1, <1>2

LEMMA StoreTypeStays ==
    ASSUME UploadInv, [Next]_vars
    PROVE  (StoreType /\ SignalType)'
<1>0. StoreType /\ SignalType /\ AttemptType /\ AttemptInv
    BY DEF UploadInv, TypeInv
<1>1. CASE Transfer
    BY <1>0, <1>1
    DEF Transfer, RequestFails, PutObject, CreateMultipartUpload, PersistUploadID, ListParts,
        Launch, UploadPart, PartFails, Wait, CompleteMultipartUpload, Answered, StoreType,
        AttemptType, SignalType, AttemptInv, NoUpload
<1>2. CASE ~Transfer
    BY <1>0, <1>2
    DEF Next, List, Start, HandleResult, ArchiveCompleted, MarkFailed, MarkPaused,
        CancelledResult, AbortUpload, ArchiveCancelled, Abort, NoAttempt, User, Signal,
        PauseTask, ResumeTask, RetryTask, Rewrite, CancelRead, CancelAbort, CancelArchive,
        SetPartSizeOverrideMB, Crash, vars, StoreType, AttemptType, SignalType, AttemptInv,
        NoUpload
<1>. QED  BY <1>1, <1>2

LEMMA BoundTypeStays ==
    ASSUME UploadInv, [Next]_vars
    PROVE  BoundType'
<1>0. BoundType
    BY DEF UploadInv, TypeInv
<1>1. CASE Transfer
    BY <1>0, <1>1, UploadAssumption
    DEF Transfer, RequestFails, PutObject, CreateMultipartUpload, PersistUploadID, ListParts,
        Launch, UploadPart, PartFails, Wait, CompleteMultipartUpload, Answered, BoundType,
        UploadAssumption
<1>2. CASE ~Transfer
    BY <1>0, <1>2, UploadAssumption
    DEF Next, List, Start, HandleResult, ArchiveCompleted, MarkFailed, MarkPaused,
        CancelledResult, AbortUpload, ArchiveCancelled, Abort, NoAttempt, User, Signal,
        PauseTask, ResumeTask, RetryTask, Rewrite, CancelRead, CancelAbort, CancelArchive,
        SetPartSizeOverrideMB, Crash, vars, BoundType, UploadAssumption
<1>. QED  BY <1>1, <1>2

LEMMA AttemptTypeStays ==
    ASSUME UploadInv, [Next]_vars
    PROVE  AttemptType'
<1>0. AttemptType /\ RowType /\ FileType
    BY DEF UploadInv, TypeInv
<1>1. CASE Transfer
    BY <1>0, <1>1, EffectivePositive
    DEF Transfer, RequestFails, PutObject, CreateMultipartUpload, PersistUploadID, ListParts,
        Launch, UploadPart, PartFails, Wait, CompleteMultipartUpload, Answered, AttemptType,
        RowType, FileType, NoUpload, Positive
<1>2. CASE ~Transfer
    BY <1>0, <1>2, EffectivePositive
    DEF Next, List, Start, HandleResult, ArchiveCompleted, MarkFailed, MarkPaused,
        CancelledResult, AbortUpload, ArchiveCancelled, Abort, NoAttempt, User, Signal,
        PauseTask, ResumeTask, RetryTask, Rewrite, CancelRead, CancelAbort, CancelArchive,
        SetPartSizeOverrideMB, Crash, vars, AttemptType, RowType, FileType, NoUpload, Positive
<1>. QED  BY <1>1, <1>2

LEMMA CancelInvStays ==
    ASSUME UploadInv, [Next]_vars
    PROVE  CancelInv'
<1>0. CancelInv /\ AttemptType /\ CancelType /\ RowType
    BY DEF UploadInv, TypeInv
<1>1. CASE Transfer
    BY <1>0, <1>1
    DEF Transfer, RequestFails, PutObject, CreateMultipartUpload, PersistUploadID, ListParts,
        Launch, UploadPart, PartFails, Wait, CompleteMultipartUpload, Answered, CancelInv
<1>2. CASE ~Transfer
    BY <1>0, <1>2
    DEF Next, List, Start, HandleResult, ArchiveCompleted, MarkFailed, MarkPaused,
        CancelledResult, AbortUpload, ArchiveCancelled, Abort, NoAttempt, User, Signal,
        PauseTask, ResumeTask, RetryTask, Rewrite, CancelRead, CancelAbort, CancelArchive,
        SetPartSizeOverrideMB, Crash, vars, CancelInv
<1>. QED  BY <1>1, <1>2

LEMMA FileTypeStays ==
    ASSUME UploadInv, [Next]_vars
    PROVE  totalBytes' \in FileSizes /\ FileType'
<1>0. totalBytes \in FileSizes /\ FileType
    BY DEF UploadInv, TypeInv
<1>1. CASE UNCHANGED vars
    BY <1>0, <1>1 DEF vars, FileType
<1>2. CASE List \/ Start
    BY <1>0, <1>2 DEF List, Start, FileType
<1>3. CASE Transfer
    BY <1>0, <1>3
    DEF Transfer, RequestFails, PutObject, CreateMultipartUpload, PersistUploadID, ListParts,
        Launch, UploadPart, PartFails, Wait, CompleteMultipartUpload, Answered, FileType
<1>4. CASE HandleResult
    BY <1>0, <1>4
    DEF HandleResult, ArchiveCompleted, MarkFailed, MarkPaused, CancelledResult, AbortUpload,
        ArchiveCancelled, Abort, NoAttempt, FileType
<1>5. CASE User
    <2>1. ASSUME NEW mb \in Overrides, SetPartSizeOverrideMB(mb)
          PROVE  totalBytes' \in FileSizes /\ FileType'
        <3>1. mb \in Int /\ SizesAssumption
            BY UploadAssumption, SizesAssumption DEF UploadAssumption
        <3>. QED
            BY <1>0, <2>1, <3>1
            DEF SetPartSizeOverrideMB, ClampOverride, FileType, SizesAssumption, Positive
    <2>2. CASE ~\E mb \in Overrides : SetPartSizeOverrideMB(mb)
        BY <1>0, <1>5, <2>2
        DEF User, Signal, PauseTask, ResumeTask, RetryTask, Rewrite, CancelRead, CancelAbort,
            CancelArchive, Abort, FileType
    <2>. QED  BY <2>1, <2>2
<1>6. CASE Crash
    BY <1>0, <1>6 DEF Crash, NoAttempt, FileType
<1>. QED  BY <1>1, <1>2, <1>3, <1>4, <1>5, <1>6 DEF Next

\* An attempt gets to its requests with a part size and an upload, and completes only with
\* every part.
LEMMA AttemptInvStays ==
    ASSUME UploadInv, [Next]_vars
    PROVE  AttemptInv'
<1>0. AttemptInv /\ AttemptType /\ FileType /\ RowType
    BY DEF UploadInv, TypeInv
<1>1. CASE UNCHANGED vars
    BY <1>0, <1>1
    DEF vars, AttemptInv, AttemptType, Count, NoUpload
<1>2. CASE List \/ Start
    <2>1. EffectivePartSize(totalBytes, partSizeOverride) \in Positive
        BY <1>0, EffectivePositive DEF FileType
    <2>2. CASE List
        BY <1>0, <2>2 DEF List, AttemptInv, AttemptType, Count
    <2>3. CASE Start
        <3>1. /\ pc = "idle" /\ pc' \in {"put", "create", "list"} /\ err' = err
              /\ inflight' = inflight /\ partETags' = partETags
              /\ partSize' \in Positive
              /\ pc' = "list" => uploadID' \in Uploads
            BY <1>0, <2>1, <2>3 DEF Start, RowType
        <3>. QED  BY <1>0, <3>1 DEF AttemptInv
    <2>. QED  BY <1>2, <2>2, <2>3
<1>3. CASE Transfer
    <2>1. CASE RequestFails
        BY <1>0, <2>1
        DEF RequestFails, AttemptInv, AttemptType, Count, NoUpload
    <2>2. CASE PutObject
        <3>1. object' # NoParts
            <4>1. 1 \in DOMAIN object'
                BY <2>2 DEF PutObject
            <4>. QED  BY <4>1, NoPartsFollow
        <3>. QED
            BY <1>0, <2>2, <3>1
            DEF PutObject, Answered, AttemptInv, AttemptType, Count, NoUpload
    <2>3. CASE CreateMultipartUpload
        BY <1>0, <2>3
        DEF CreateMultipartUpload, Answered, AttemptInv, AttemptType, Count, NoUpload
    <2>4. CASE PersistUploadID
        BY <1>0, <2>4
        DEF PersistUploadID, AttemptInv, AttemptType, Count, NoUpload
    <2>5. CASE ListParts
        BY <1>0, <2>5
        DEF ListParts, AttemptInv, AttemptType, Count, NoUpload
    <2>6. CASE Launch
        BY <1>0, <2>6
        DEF Launch, AttemptInv, AttemptType, Count, NoUpload
    <2>7. ASSUME NEW n \in inflight, UploadPart(n)
          PROVE  AttemptInv'
        BY <1>0, <2>7
        DEF UploadPart, AttemptInv, AttemptType, Count, NoUpload
    <2>8. ASSUME NEW n \in inflight, PartFails(n)
          PROVE  AttemptInv'
        BY <1>0, <2>8
        DEF PartFails, AttemptInv, AttemptType, Count, NoUpload
    <2>9. CASE Wait
        BY <1>0, <2>9
        DEF Wait, AttemptInv, AttemptType, Count, NoUpload
    <2>10. CASE CompleteMultipartUpload
        <3>1. Count \in Nat /\ Count >= 1
            BY <1>0, <2>10, ExtentsTile DEF AttemptInv, FileType, Count, CompleteMultipartUpload
        <3>2. partETags # NoParts
            <4>1. 1 \in DOMAIN partETags
                BY <1>0, <2>10, <3>1 DEF AttemptInv, CompleteMultipartUpload
            <4>. QED  BY <4>1, NoPartsFollow
        <3>. QED
            BY <1>0, <2>10, <3>2
            DEF CompleteMultipartUpload, Answered, AttemptInv, AttemptType, Count
    <2>. QED  BY <1>3, <2>1, <2>2, <2>3, <2>4, <2>5, <2>6, <2>7, <2>8, <2>9, <2>10 DEF Transfer
<1>4. CASE HandleResult
    BY <1>0, <1>4
    DEF HandleResult, ArchiveCompleted, MarkFailed, MarkPaused, CancelledResult, AbortUpload,
        ArchiveCancelled, Abort, NoAttempt, AttemptInv, AttemptType, Count, NoUpload
<1>5. CASE User
    BY <1>0, <1>5
    DEF User, Signal, PauseTask, ResumeTask, RetryTask, Rewrite, CancelRead, CancelAbort,
        CancelArchive, SetPartSizeOverrideMB, Abort, AttemptInv, AttemptType, Count, NoUpload
<1>6. CASE Crash
    BY <1>0, <1>6 DEF Crash, NoAttempt, AttemptInv, AttemptType, Count, NoUpload
<1>. QED  BY <1>1, <1>2, <1>3, <1>4, <1>5, <1>6 DEF Next

\* Parts go to open uploads, after their part size is known.
LEMMA StoreInvStays ==
    ASSUME UploadInv, [Next]_vars
    PROVE  StoreInv'
<1>0. StoreInv /\ AttemptInv /\ AttemptType /\ StoreType /\ FileType
    BY DEF UploadInv, TypeInv
<1>1. CASE Transfer
    BY <1>0, <1>1
    DEF Transfer, RequestFails, PutObject, CreateMultipartUpload, PersistUploadID, ListParts,
        Launch, UploadPart, PartFails, Wait, CompleteMultipartUpload, Answered, StoreInv,
        AttemptInv, AttemptType, StoreType, Open, NoUpload, Positive
<1>2. CASE ~Transfer
    BY <1>0, <1>2
    DEF Next, List, Start, HandleResult, ArchiveCompleted, MarkFailed, MarkPaused,
        CancelledResult, AbortUpload, ArchiveCancelled, Abort, NoAttempt, User, Signal,
        PauseTask, ResumeTask, RetryTask, Rewrite, CancelRead, CancelAbort, CancelArchive,
        SetPartSizeOverrideMB, Crash, vars, StoreInv, AttemptInv, AttemptType, StoreType, Open,
        NoUpload, Positive
<1>. QED  BY <1>1, <1>2

\* Parts are cut alike, unless an upload was resumed with another part size.
LEMMA LayoutInvStays ==
    ASSUME UploadInv, [Next]_vars
    PROVE  LayoutInv'
<1>0. LayoutInv /\ StoreInv /\ AttemptInv /\ AttemptType /\ StoreType /\ WorkerType
    BY DEF UploadInv, TypeInv
<1>1. CASE Transfer
    <2>1. CASE RequestFails
        BY <1>0, <2>1, NoPartsFollow
        DEF RequestFails, LayoutInv, Follows, StoreInv, AttemptInv, AttemptType, StoreType,
            Open, NoUpload, WorkerType, Put, Content, Count
    <2>2. CASE PutObject
        BY <1>0, <2>2, NoPartsFollow
        DEF PutObject, Answered, LayoutInv, Follows, StoreInv, AttemptInv, AttemptType,
            StoreType, Open, NoUpload, WorkerType, Put, Content, Count
    <2>3. CASE CreateMultipartUpload
        BY <1>0, <2>3, NoPartsFollow
        DEF CreateMultipartUpload, Answered, LayoutInv, Follows, StoreInv, AttemptInv,
            AttemptType, StoreType, Open, NoUpload, WorkerType, Put, Content, Count
    <2>4. CASE PersistUploadID
        BY <1>0, <2>4, NoPartsFollow
        DEF PersistUploadID, LayoutInv, Follows, StoreInv, AttemptInv, AttemptType, StoreType,
            Open, NoUpload, WorkerType, Put, Content, Count
    <2>5. CASE ListParts
        <3>. SUFFICES ASSUME ~mixed'
                      PROVE  /\ (\A u \in Uploads : Follows(parts[u], sizeOf[u]))'
                             /\ Follows(partETags, partSize)'
            BY DEF LayoutInv
        <3>1. /\ ~mixed /\ uploadID \in Uploads
              /\ parts' = parts /\ totalBytes' = totalBytes /\ partSize' = partSize
              /\ partETags' = parts[uploadID]
              /\ sizeOf' = [sizeOf EXCEPT ![uploadID] = partSize]
              /\ sizeOf[uploadID] = partSize \/ parts[uploadID] = NoParts
            BY <1>0, <2>5 DEF ListParts, AttemptType, Open
        <3>2. \A u \in Uploads : Follows(parts[u], sizeOf[u])
            BY <1>0, <3>1 DEF LayoutInv
        <3>3. Follows(parts[uploadID], partSize)
            BY <3>1, <3>2, NoPartsFollow
        <3>4. \A u \in Uploads : Follows(parts[u], sizeOf'[u])
            BY <1>0, <3>1, <3>2, <3>3 DEF StoreType
        <3>. QED  BY <3>1, <3>3, <3>4 DEF Follows
    <2>6. CASE Launch
        BY <1>0, <2>6, NoPartsFollow
        DEF Launch, LayoutInv, Follows, StoreInv, AttemptInv, AttemptType, StoreType, Open,
            NoUpload, WorkerType, Put, Content, Count
    <2>7. ASSUME NEW n \in inflight, UploadPart(n)
          PROVE  LayoutInv'
        BY <1>0, <2>7, NoPartsFollow
        DEF UploadPart, LayoutInv, Follows, StoreInv, AttemptInv, AttemptType, StoreType, Open,
            NoUpload, WorkerType, Put, Content, Count
    <2>8. ASSUME NEW n \in inflight, PartFails(n)
          PROVE  LayoutInv'
        BY <1>0, <2>8, NoPartsFollow
        DEF PartFails, LayoutInv, Follows, StoreInv, AttemptInv, AttemptType, StoreType, Open,
            NoUpload, WorkerType, Put, Content, Count
    <2>9. CASE Wait
        BY <1>0, <2>9, NoPartsFollow
        DEF Wait, LayoutInv, Follows, StoreInv, AttemptInv, AttemptType, StoreType, Open,
            NoUpload, WorkerType, Put, Content, Count
    <2>10. CASE CompleteMultipartUpload
        BY <1>0, <2>10, NoPartsFollow
        DEF CompleteMultipartUpload, Answered, LayoutInv, Follows, StoreInv, AttemptInv,
            AttemptType, StoreType, Open, NoUpload, WorkerType, Put, Content, Count
    <2>. QED  BY <1>1, <2>1, <2>2, <2>3, <2>4, <2>5, <2>6, <2>7, <2>8, <2>9, <2>10 DEF Transfer
<1>2. CASE ~Transfer
    BY <1>0, <1>2, NoPartsFollow
    DEF Next, List, Start, HandleResult, ArchiveCompleted, MarkFailed, MarkPaused,
        CancelledResult, AbortUpload, ArchiveCancelled, Abort, NoAttempt, User, Signal,
        PauseTask, ResumeTask, RetryTask, Rewrite, CancelRead, CancelAbort, CancelArchive,
        SetPartSizeOverrideMB, Crash, vars, LayoutInv, Follows, StoreInv, AttemptInv,
        AttemptType, StoreType, Open, NoUpload, WorkerType, Put, Content, Count
<1>. QED  BY <1>1, <1>2

\* What ListParts answered, and what the workers stored since, is all the upload holds.
LEMMA KnownInvStays ==
    ASSUME UploadInv, [Next]_vars
    PROVE  KnownInv'
<1>0. KnownInv /\ StoreInv /\ AttemptInv /\ AttemptType /\ StoreType /\ WorkerType
    BY DEF UploadInv, TypeInv
<1>1. CASE Transfer
    <2>1. CASE RequestFails
        BY <1>0, <2>1, NoPartsFollow
        DEF RequestFails, KnownInv, StoreInv, AttemptInv, AttemptType, StoreType, Open,
            NoUpload, WorkerType, Put
    <2>2. CASE PutObject
        BY <1>0, <2>2, NoPartsFollow
        DEF PutObject, Answered, KnownInv, StoreInv, AttemptInv, AttemptType, StoreType, Open,
            NoUpload, WorkerType, Put
    <2>3. CASE CreateMultipartUpload
        BY <1>0, <2>3, NoPartsFollow
        DEF CreateMultipartUpload, Answered, KnownInv, StoreInv, AttemptInv, AttemptType,
            StoreType, Open, NoUpload, WorkerType, Put
    <2>4. CASE PersistUploadID
        BY <1>0, <2>4, NoPartsFollow
        DEF PersistUploadID, KnownInv, StoreInv, AttemptInv, AttemptType, StoreType, Open,
            NoUpload, WorkerType, Put
    <2>5. CASE ListParts
        BY <1>0, <2>5, NoPartsFollow
        DEF ListParts, KnownInv, StoreInv, AttemptInv, AttemptType, StoreType, Open, NoUpload,
            WorkerType, Put
    <2>6. CASE Launch
        BY <1>0, <2>6, NoPartsFollow
        DEF Launch, KnownInv, StoreInv, AttemptInv, AttemptType, StoreType, Open, NoUpload,
            WorkerType, Put
    <2>7. ASSUME NEW n \in inflight, UploadPart(n)
          PROVE  KnownInv'
        BY <1>0, <2>7, NoPartsFollow
        DEF UploadPart, KnownInv, StoreInv, AttemptInv, AttemptType, StoreType, Open, NoUpload,
            WorkerType, Put
    <2>8. ASSUME NEW n \in inflight, PartFails(n)
          PROVE  KnownInv'
        BY <1>0, <2>8, NoPartsFollow
        DEF PartFails, KnownInv, StoreInv, AttemptInv, AttemptType, StoreType, Open, NoUpload,
            WorkerType, Put
    <2>9. CASE Wait
        BY <1>0, <2>9, NoPartsFollow
        DEF Wait, KnownInv, StoreInv, AttemptInv, AttemptType, StoreType, Open, NoUpload,
            WorkerType, Put
    <2>10. CASE CompleteMultipartUpload
        BY <1>0, <2>10, NoPartsFollow
        DEF CompleteMultipartUpload, Answered, KnownInv, StoreInv, AttemptInv, AttemptType,
            StoreType, Open, NoUpload, WorkerType, Put
    <2>. QED  BY <1>1, <2>1, <2>2, <2>3, <2>4, <2>5, <2>6, <2>7, <2>8, <2>9, <2>10 DEF Transfer
<1>2. CASE ~Transfer
    BY <1>0, <1>2, NoPartsFollow
    DEF Next, List, Start, HandleResult, ArchiveCompleted, MarkFailed, MarkPaused,
        CancelledResult, AbortUpload, ArchiveCancelled, Abort, NoAttempt, User, Signal,
        PauseTask, ResumeTask, RetryTask, Rewrite, CancelRead, CancelAbort, CancelArchive,
        SetPartSizeOverrideMB, Crash, vars, KnownInv, StoreInv, AttemptInv, AttemptType,
        StoreType, Open, NoUpload, WorkerType, Put
<1>. QED  BY <1>1, <1>2

\* A row is completed after an attempt without an error, which has stored the object.
LEMMA CompletedStays ==
    ASSUME UploadInv, [Next]_vars
    PROVE  CompletedIsStored'
<1>0. CompletedIsStored /\ AttemptInv /\ AttemptType /\ FileType
    BY DEF UploadInv, TypeInv
<1>1. CASE Transfer
    <2>1. CASE RequestFails
        BY <1>0, <2>1, NoPartsFollow
        DEF RequestFails, CompletedIsStored, AttemptInv, AttemptType, FileType, InQueue
    <2>2. CASE PutObject
        BY <1>0, <2>2, NoPartsFollow
        DEF PutObject, Answered, CompletedIsStored, AttemptInv, AttemptType, FileType, InQueue
    <2>3. CASE CreateMultipartUpload
        BY <1>0, <2>3, NoPartsFollow
        DEF CreateMultipartUpload, Answered, CompletedIsStored, AttemptInv, AttemptType,
            FileType, InQueue
    <2>4. CASE PersistUploadID
        BY <1>0, <2>4, NoPartsFollow
        DEF PersistUploadID, CompletedIsStored, AttemptInv, AttemptType, FileType, InQueue
    <2>5. CASE ListParts
        BY <1>0, <2>5, NoPartsFollow
        DEF ListParts, CompletedIsStored, AttemptInv, AttemptType, FileType, InQueue
    <2>6. CASE Launch
        BY <1>0, <2>6, NoPartsFollow
        DEF Launch, CompletedIsStored, AttemptInv, AttemptType, FileType, InQueue
    <2>7. ASSUME NEW n \in inflight, UploadPart(n)
          PROVE  CompletedIsStored'
        BY <1>0, <2>7, NoPartsFollow
        DEF UploadPart, CompletedIsStored, AttemptInv, AttemptType, FileType, InQueue
    <2>8. ASSUME NEW n \in inflight, PartFails(n)
          PROVE  CompletedIsStored'
        BY <1>0, <2>8, NoPartsFollow
        DEF PartFails, CompletedIsStored, AttemptInv, AttemptType, FileType, InQueue
    <2>9. CASE Wait
        BY <1>0, <2>9, NoPartsFollow
        DEF Wait, CompletedIsStored, AttemptInv, AttemptType, FileType, InQueue
    <2>10. CASE CompleteMultipartUpload
        <3>1. Count \in Nat /\ Count >= 1
            BY <1>0, <2>10, ExtentsTile DEF AttemptInv, FileType, Count, CompleteMultipartUpload
        <3>2. partETags # NoParts
            <4>1. 1 \in DOMAIN partETags
                BY <1>0, <2>10, <3>1 DEF AttemptInv, CompleteMultipartUpload
            <4>. QED  BY <4>1, NoPartsFollow
        <3>. QED  BY <1>0, <2>10, <3>2 DEF CompleteMultipartUpload, CompletedIsStored
    <2>. QED  BY <1>1, <2>1, <2>2, <2>3, <2>4, <2>5, <2>6, <2>7, <2>8, <2>9, <2>10 DEF Transfer
<1>2. CASE ~Transfer
    BY <1>0, <1>2
    DEF Next, List, Start, HandleResult, ArchiveCompleted, MarkFailed, MarkPaused,
        CancelledResult, AbortUpload, ArchiveCancelled, Abort, NoAttempt, User, Signal,
        PauseTask, ResumeTask, RetryTask, Rewrite, CancelRead, CancelAbort, CancelArchive,
        SetPartSizeOverrideMB, Crash, vars, CompletedIsStored, AttemptInv, AttemptType,
        FileType, InQueue
<1>. QED  BY <1>1, <1>2

\* The file of a task never changes.
LEMMA FileStays ==
    ASSUME [Next]_vars
    PROVE  totalBytes' = totalBytes /\ (mixed => mixed')
<1>1. CASE UNCHANGED vars
    BY <1>1 DEF vars
<1>2. CASE List \/ Start
    BY <1>2 DEF List, Start
<1>3. CASE Transfer
    <2>1. CASE ListParts
        BY <2>1 DEF ListParts
    <2>2. CASE ~ListParts
        BY <1>3, <2>2
        DEF Transfer, RequestFails, PutObject, CreateMultipartUpload, PersistUploadID, Launch,
            UploadPart, PartFails, Wait, CompleteMultipartUpload
    <2>. QED  BY <2>1, <2>2
<1>4. CASE HandleResult
    BY <1>4
    DEF HandleResult, ArchiveCompleted, MarkFailed, MarkPaused, CancelledResult, AbortUpload,
        ArchiveCancelled, Abort, NoAttempt
<1>5. CASE User
    BY <1>5
    DEF User, Signal, PauseTask, ResumeTask, RetryTask, Rewrite, CancelRead, CancelAbort,
        CancelArchive, SetPartSizeOverrideMB, Abort
<1>6. CASE Crash
    BY <1>6 DEF Crash, NoAttempt
<1>. QED  BY <1>1, <1>2, <1>3, <1>4, <1>5, <1>6 DEF Next

LEMMA PartCountInt ==
    ASSUME NEW total \in Nat, NEW size \in Nat
    PROVE  PartCount(total, size) \in Int
BY DEF PartCount, ceilDiv

\* The object becomes the file by the one request, or by completing an upload whose parts tile it.
LEMMA ObjectStays ==
    ASSUME UploadInv, [Next]_vars
    PROVE  ObjectIsFile'
<1>0. ObjectIsFile /\ AttemptInv /\ AttemptType /\ FileType /\ LayoutInv
    BY DEF UploadInv, TypeInv
<1>1. totalBytes' = totalBytes /\ (mixed => mixed')
    BY FileStays
<1>2. CASE object' = object
    BY <1>0, <1>1, <1>2 DEF ObjectIsFile, IsFile
<1>3. CASE PutObject
    <2>1. totalBytes \in Nat /\ totalBytes >= 1
        BY <1>0 DEF FileType, Positive
    <2>2. object' = [n \in {1} |-> [from |-> 1, to |-> totalBytes]]
        BY <1>3 DEF PutObject
    <2>3. 1 \in 1 .. totalBytes /\ DOMAIN object' = 1 .. 1
        BY <2>1, <2>2
    <2>4. object'[1].from = 1 /\ object'[1].to = totalBytes
        BY <2>2
    <2>. QED  BY <1>1, <2>3, <2>4 DEF ObjectIsFile, IsFile
<1>4. CASE CompleteMultipartUpload
    <2>. SUFFICES ASSUME ~mixed'  PROVE IsFile(object)'
        BY DEF ObjectIsFile
    <2>1. /\ pc = "complete" /\ object' = partETags /\ partSize \in Positive
          /\ totalBytes \in Positive /\ 1 .. Count \subseteq DOMAIN partETags
        BY <1>0, <1>4 DEF CompleteMultipartUpload, AttemptInv, FileType
    <2>2. Follows(partETags, partSize)
        BY <1>0, <1>1, <2>1 DEF LayoutInv
    <2>3. DOMAIN object' = 1 .. Count
        BY <2>1, <2>2 DEF Follows, Count
    <2>4. /\ Count \in 1 .. totalBytes
          /\ Extent(1, totalBytes, partSize).from = 1
          /\ Extent(Count, totalBytes, partSize).to = totalBytes
          /\ \A n \in 1 .. Count - 1 :
               Extent(n + 1, totalBytes, partSize).from = Extent(n, totalBytes, partSize).to + 1
        BY <2>1, ExtentsTile DEF Count
    <2>5. \A n \in 1 .. Count : object'[n] = Extent(n, totalBytes, partSize)
        BY <2>1, <2>2 DEF Follows
    <2>6. Count \in Nat /\ Count >= 1
        BY <2>1, <2>4 DEF Positive
    <2>7. object'[1].from = 1 /\ object'[Count].to = totalBytes
        BY <2>4, <2>5, <2>6
    <2>8. ASSUME NEW n \in 1 .. Count - 1
          PROVE  object'[n + 1].from = object'[n].to + 1
        <3>1. n \in 1 .. Count /\ n + 1 \in 1 .. Count
            BY <2>6
        <3>. QED  BY <2>4, <2>5, <3>1
    <2>. QED  BY <1>1, <2>3, <2>4, <2>7, <2>8 DEF IsFile
<1>5. CASE Transfer
    BY <1>2, <1>3, <1>4, <1>5
    DEF Transfer, RequestFails, CreateMultipartUpload, PersistUploadID, ListParts, Launch,
        UploadPart, PartFails, Wait
<1>6. CASE HandleResult \/ User \/ Crash \/ List \/ Start \/ UNCHANGED vars
    BY <1>2, <1>6
    DEF vars, List, Start, HandleResult, ArchiveCompleted, MarkFailed, MarkPaused,
        CancelledResult, AbortUpload, ArchiveCancelled, Abort, NoAttempt, User, Signal,
        PauseTask, ResumeTask, RetryTask, Rewrite, CancelRead, CancelAbort, CancelArchive,
        SetPartSizeOverrideMB, Abort, Crash, NoAttempt
<1>. QED  BY <1>5, <1>6 DEF Next


\* Workers upload different parts, none of which is known to be stored.
LEMMA WorkerTypeStays ==
    ASSUME UploadInv, [Next]_vars
    PROVE  WorkerType'
<1>0. WorkerType /\ AttemptInv /\ AttemptType /\ FileType
    BY DEF UploadInv, TypeInv
<1>1. Concurrency \in Nat /\ totalBytes' = totalBytes
    BY UploadAssumption, FileStays DEF UploadAssumption, Positive
<1>2. IsFiniteSet(inflight) /\ Cardinality(inflight) \in Nat
    <2>1. Count \in Int
        BY <1>0, PartCountInt DEF Count, AttemptType, FileType, Positive
    <2>2. IsFiniteSet(1 .. Count)
        BY <2>1, FS_Interval
    <2>. QED  BY <1>0, <2>2, FS_Subset, FS_CardinalityType DEF WorkerType
<1>3. CASE inflight' = {}
    BY <1>1, <1>3, FS_EmptySet DEF WorkerType
<1>4. CASE UNCHANGED <<inflight, partETags, partSize>>
    BY <1>0, <1>1, <1>4 DEF WorkerType, Count
<1>5. CASE Launch
    <2>1. PICK n \in (1 .. Count) \ (DOMAIN partETags \cup inflight) : inflight' = inflight \cup {n}
        BY <1>5 DEF Launch
    <2>2. Cardinality(inflight') = Cardinality(inflight) + 1
        BY <1>2, <2>1, FS_AddElement
    <2>3. Cardinality(inflight) < Concurrency /\ partETags' = partETags /\ partSize' = partSize
        BY <1>5 DEF Launch
    <2>. QED  BY <1>0, <1>1, <1>2, <2>1, <2>2, <2>3 DEF WorkerType, Count
<1>6. ASSUME NEW n \in inflight, UploadPart(n) \/ PartFails(n)
      PROVE  WorkerType'
    <2>1. CASE UNCHANGED <<inflight, partETags>>
        BY <1>4, <1>6, <2>1 DEF UploadPart, PartFails
    <2>2. CASE inflight' = inflight \ {n}
        <3>1. Cardinality(inflight') = Cardinality(inflight) - 1
            BY <1>2, <2>2, FS_RemoveElement
        <3>2. partSize' = partSize /\ DOMAIN partETags' \subseteq DOMAIN partETags \cup {n}
            BY <1>6 DEF UploadPart, PartFails, Put
        <3>. QED  BY <1>0, <1>1, <1>2, <2>2, <3>1, <3>2 DEF WorkerType, Count
    <2>. QED  BY <1>6, <2>1, <2>2 DEF UploadPart, PartFails
<1>7. CASE Transfer
    <2>1. CASE RequestFails \/ PutObject \/ CreateMultipartUpload \/ PersistUploadID \/ Wait \/ CompleteMultipartUpload
        BY <1>4, <2>1
        DEF RequestFails, PutObject, CreateMultipartUpload, PersistUploadID, Wait,
            CompleteMultipartUpload
    <2>2. CASE ListParts
        BY <1>0, <1>3, <2>2 DEF ListParts, AttemptInv
    <2>. QED  BY <1>5, <1>6, <1>7, <2>1, <2>2 DEF Transfer
<1>8. CASE List \/ User \/ UNCHANGED vars
    BY <1>4, <1>8
    DEF List, User, Signal, PauseTask, ResumeTask, RetryTask, Rewrite, CancelRead, CancelAbort,
        CancelArchive, SetPartSizeOverrideMB, vars
<1>9. CASE Start
    BY <1>0, <1>3, <1>9 DEF Start, AttemptInv
<1>10. CASE HandleResult \/ Crash
    BY <1>3, <1>4, <1>10
    DEF HandleResult, ArchiveCompleted, MarkFailed, MarkPaused, CancelledResult, AbortUpload,
        ArchiveCancelled, Crash, NoAttempt
<1>. QED  BY <1>7, <1>8, <1>9, <1>10 DEF Next

-----------------------------------------------------------------------------
(* The theorems *)

LEMMA NextKeepsUpload == UploadInv /\ [Next]_vars => UploadInv'
BY FileTypeStays, RowTypeStays, StoreTypeStays, BoundTypeStays, AttemptTypeStays,
   WorkerTypeStays, AttemptInvStays, StoreInvStays, LayoutInvStays,
   KnownInvStays, CancelInvStays, ObjectStays, CompletedStays
   DEF UploadInv, TypeInv

LEMMA UploadAlways == Spec => []UploadInv
BY InitHolds, NextKeepsUpload, PTL DEF Spec

\* What the store serves after a completed upload is the whole file and a completed task has
\* an object, through lost answers, failed parts, resumed and abandoned uploads and crashes
\* (uploadMultipart, handleTaskResult, CancelTask).
THEOREM StoredIsFileAlways == Spec => []StoredIsFile
<1>1. UploadInv => StoredIsFile
    BY TypeInvIsTypeOK DEF UploadInv, StoredIsFile
<1>. QED  BY <1>1, UploadAlways, PTL

\* Only the two aborts close an open upload without completing it.
LEMMA AbortIsAsked ==
    ASSUME UploadInv, [Next]_vars, NEW u \in Uploads, state[u] = "open", state'[u] = "aborted"
    PROVE  cancelAsked
<1>0. StoreType /\ CancelInv
    BY DEF UploadInv, TypeInv
<1>1. CASE AbortUpload \/ CancelAbort
    BY <1>0, <1>1 DEF AbortUpload, CancelAbort, CancelInv
<1>2. CASE CompleteMultipartUpload \/ CreateMultipartUpload
    BY <1>0, <1>2 DEF CompleteMultipartUpload, CreateMultipartUpload, StoreType
<1>3. CASE state' = state
    BY <1>3
<1>. QED
    BY <1>1, <1>2, <1>3
    DEF Next, List, Start, Transfer, RequestFails, PutObject, PersistUploadID, ListParts,
        Launch, UploadPart, PartFails, Wait, HandleResult, ArchiveCompleted, MarkFailed,
        MarkPaused, CancelledResult, ArchiveCancelled, User, Signal, PauseTask, ResumeTask,
        RetryTask, Rewrite, CancelRead, CancelArchive, SetPartSizeOverrideMB, Crash, vars

\* A worker is only started for a part that the upload does not hold.
LEMMA LaunchIsNeeded ==
    ASSUME UploadInv, [Next]_vars, NEW n \in inflight' \ inflight
    PROVE  n \notin DOMAIN parts[uploadID]
<1>0. KnownInv
    BY DEF UploadInv
<1>1. CASE Launch
    BY <1>0, <1>1 DEF Launch, KnownInv
<1>2. CASE inflight' \subseteq inflight
    BY <1>2
<1>. QED
    BY <1>1, <1>2
    DEF Next, List, Start, Transfer, RequestFails, PutObject, CreateMultipartUpload,
        PersistUploadID, ListParts, UploadPart, PartFails, Wait, CompleteMultipartUpload,
        HandleResult, ArchiveCompleted, MarkFailed, MarkPaused, CancelledResult, AbortUpload,
        ArchiveCancelled, NoAttempt, User, Signal, PauseTask, ResumeTask, RetryTask, Rewrite,
        CancelRead, CancelAbort, CancelArchive, SetPartSizeOverrideMB, Crash, vars

\* An upload's parts are lost only after a call of CancelTask, and a resumed attempt sends
\* none of them again (uploadMultipart, abortOrphanedMultipartUpload).
THEOREM PartsAreKeptAlways == Spec => PartsAreKept
<1>1. UploadInv /\ [Next]_vars =>
          /\ [\A u \in Uploads : state[u] = "open" /\ state'[u] = "aborted" => cancelAsked]_vars
          /\ [\A n \in inflight' \ inflight : n \notin DOMAIN parts[uploadID]]_vars
    BY AbortIsAsked, LaunchIsNeeded
<1>. QED  BY <1>1, UploadAlways, PTL DEF Spec, PartsAreKept, AbortOnlyOnCancel, NoPartSentTwice

-----------------------------------------------------------------------------
(* The number of parts *)

LEMMA ProductIsMonotone ==
    ASSUME NEW m \in Nat, NEW a \in Nat, NEW b \in Nat, a <= b
    PROVE  m * a <= m * b /\ m * a \in Nat /\ m * b \in Nat /\ m * a = a * m
OBVIOUS

\* A size of which n hold the file cuts it into no more than n parts.
LEMMA CeilDivFits ==
    ASSUME NEW a \in Positive, NEW b \in Positive, NEW n \in Nat, a <= n * b
    PROVE  ceilDiv(a, b) <= n
<1>. DEFINE c == ceilDiv(a, b)
<1>1. c \in Nat /\ c > 0 /\ (c - 1) * b < a /\ a \in Nat /\ b \in Nat
    BY CeilDivBounds DEF Positive
<1>. HIDE DEF c
<1>2. SUFFICES ASSUME n <= c - 1 PROVE FALSE
    BY <1>1 DEF c
<1>3. n * b <= (c - 1) * b
    <2>1. c - 1 \in Nat
        BY <1>1
    <2>2. b * n <= b * (c - 1) /\ b * n = n * b /\ b * (c - 1) = (c - 1) * b
        BY <1>1, <1>2, <2>1, ProductIsMonotone
    <2>. QED  BY <2>2
<1>4. n * b \in Int /\ (c - 1) * b \in Int
    BY <1>1
<1>. QED  BY <1>1, <1>3, <1>4

\* The size that PartSize gives, clamped or not, keeps the limit for a file of any size.
LEMMA PartSizeFits ==
    ASSUME NEW size \in Positive
    PROVE  PartCount(size, PartSize(size)) <= maxPartsPerUpload
<1>. DEFINE m == maxPartsPerUpload
            u == clampRoundingUnit
            share == ceilDiv(size, m)
            units == ceilDiv(share, u)
<1>1. m \in Positive /\ u \in Positive /\ m \in Nat /\ u \in Nat /\ size \in Nat
    BY SizesAssumption DEF SizesAssumption, Positive
<1>2. CASE ~(PartCount(size, TableSize(size)) > m)
    <2>1. TableSize(size) \in Nat
        BY SizesAssumption DEF SizesAssumption, TableSize, Positive
    <2>2. PartCount(size, TableSize(size)) \in Int
        BY <1>1, <2>1, PartCountInt
    <2>. QED  BY <1>1, <1>2, <2>2 DEF PartSize
<1>3. CASE PartCount(size, TableSize(size)) > m
    <2>1. share \in Positive /\ size <= share * m
        BY <1>1, CeilDivBounds
    <2>2. units \in Positive /\ share <= units * u
        BY <1>1, <2>1, CeilDivBounds
    <2>3. PartSize(size) = units * u
        BY <1>3 DEF PartSize
    <2>. HIDE DEF share, units
    <2>4. share \in Nat /\ units * u \in Positive /\ units * u \in Nat
        <3>1. \A i, j \in Positive : i * j \in Positive
            BY DEF Positive
        <3>. QED  BY <1>1, <2>1, <2>2, <3>1 DEF Positive
    <2>5. size <= m * (units * u)
        <3>1. m * share <= m * (units * u) /\ m * share = share * m
            BY <1>1, <2>2, <2>4, ProductIsMonotone
        <3>2. m * share \in Int /\ m * (units * u) \in Int
            BY <1>1, <2>4
        <3>. QED  BY <1>1, <2>1, <3>1, <3>2
    <2>6. ceilDiv(size, units * u) <= m
        BY <1>1, <2>4, <2>5, CeilDivFits
    <2>. QED  BY <2>3, <2>4, <2>6 DEF PartCount, Positive
<1>. QED  BY <1>2, <1>3

\* The part sizes the user asks for are large enough for every file.
OverridesFit ==
    \A size \in FileSizes, mb \in Overrides :
       PartCount(size, ClampOverride(mb)) <= maxPartsPerUpload

LimitInv ==
    /\ PartCount(totalBytes, partSizeOverride) <= maxPartsPerUpload
    /\ Count <= maxPartsPerUpload

LEMMA NoSizeNoParts == \A total : PartCount(total, 0) <= maxPartsPerUpload
BY SizesAssumption DEF SizesAssumption, PartCount, Positive

LEMMA NextKeepsLimit ==
    ASSUME OverridesFit, UploadInv, LimitInv, [Next]_vars PROVE LimitInv'
<1>0. totalBytes' = totalBytes /\ totalBytes \in FileSizes
    <2>1. totalBytes \in FileSizes
        BY DEF UploadInv, TypeInv
    <2>2. totalBytes' = totalBytes
        BY DEF Next, List, Start, Transfer, RequestFails, PutObject, CreateMultipartUpload,
               PersistUploadID, ListParts, Launch, UploadPart, PartFails, Wait,
               CompleteMultipartUpload, HandleResult, ArchiveCompleted, MarkFailed, MarkPaused,
               CancelledResult, AbortUpload, ArchiveCancelled, User, Signal, PauseTask,
               ResumeTask, RetryTask, Rewrite, CancelRead, CancelAbort, CancelArchive,
               SetPartSizeOverrideMB, Crash, vars, AttemptUnchanged, ResultUnchanged
    <2>. QED  BY <2>1, <2>2
<1>1. CASE Start
    <2>1. partSizeOverride' = partSizeOverride
          /\ partSize' = EffectivePartSize(totalBytes, partSizeOverride)
        BY <1>1 DEF Start
    <2>2. PartCount(totalBytes, partSize') <= maxPartsPerUpload
        BY <1>0, <2>1, PartSizeFits, UploadAssumption
        DEF UploadAssumption, EffectivePartSize, LimitInv
    <2>. QED  BY <1>0, <2>1, <2>2 DEF LimitInv, Count
<1>2. ASSUME NEW mb \in Overrides, SetPartSizeOverrideMB(mb) PROVE LimitInv'
    BY <1>0, <1>2 DEF SetPartSizeOverrideMB, attempt, OverridesFit, LimitInv, Count
<1>3. CASE partSizeOverride' = partSizeOverride /\ partSize' \in {partSize, 0}
    BY <1>0, <1>3, NoSizeNoParts DEF LimitInv, Count
<1>. QED
    BY <1>1, <1>2, <1>3
    DEF Next, List, Transfer, RequestFails, PutObject, CreateMultipartUpload, PersistUploadID,
        ListParts, Launch, UploadPart, PartFails, Wait, CompleteMultipartUpload, HandleResult,
        ArchiveCompleted, MarkFailed, MarkPaused, CancelledResult, AbortUpload,
        ArchiveCancelled, NoAttempt, User, Signal, PauseTask, ResumeTask, RetryTask, Rewrite,
        CancelRead, CancelAbort, CancelArchive, Crash, vars, attempt, AttemptUnchanged,
        ResultUnchanged

\* PartSize's clamp keeps every attempt within the store's limit of parts; only the user's
\* own part size, which is not clamped, has to be large enough.
THEOREM UploadsFitTheLimit ==
    ASSUME OverridesFit PROVE Spec => [](Count <= maxPartsPerUpload)
<1>1. Init => LimitInv
    BY NoSizeNoParts DEF Init, LimitInv, Count
<1>2. UploadInv /\ LimitInv /\ [Next]_vars => LimitInv'
    BY NextKeepsLimit
<1>3. LimitInv => Count <= maxPartsPerUpload
    BY DEF LimitInv
<1>. QED  BY <1>1, <1>2, <1>3, UploadAlways, PTL DEF Spec

=============================================================================
