--------------------------- MODULE DownloadsProofs ---------------------------
(***************************************************************************)
(* What downloads keep, for every number and size of segments, every base  *)
(* of the sidecar's numbers, every set of keys and every page size.        *)
(*                                                                         *)
(* First RangeDownload: the segments that the workers hold, the lines of   *)
(* the sidecar and the bytes of the temporary file tell the same story     *)
(* (DownloadInv).  Then PrefixDownload: what nobody touched since the      *)
(* listing began is listed, then fetched, then in the archive (PrefixInv). *)
(***************************************************************************)
EXTENDS MCDownloads, Sequences, FiniteSetTheorems, WellFoundedInduction, TLAPS

\* The units of the file that the segment at offset o holds.
SegmentUnits(o, size) == {u \in Units : o < u /\ u <= o + size}

Held(o) == SegmentUnits(o, segmentSize) \subseteq written

\* What a sidecar that is not spoiled records is in the file.
RecordedInv ==
    ~spoiled => \A o \in Completed : SegmentUnits(o, recordedSize) \subseteq written

\* A running attempt knows of every segment of its layout that the file does not hold.
AttemptInv ==
    /\ pc \in {"idle", "head", "plan"} =>
         segments = {} /\ Workers = {} /\ err = "none"
    /\ pc \in {"close", "result"} => Workers = {}
    /\ pc = "close" => err = "none"
    /\ \A o \in fetched : Held(o)
    /\ Workers # {} \/ pc \in {"run", "close"} => recordedSize = segmentSize
    /\ ~spoiled => segments \cap lines = {}
    /\ pc \in {"run", "close", "result"} /\ err = "none" =>
         /\ pc # "run" => segments = {}
         /\ segmentSize \in Positive
         /\ ~spoiled => \A o \in Layout(segmentSize) : o \in segments \cup fetching \/ Held(o)

DownloadInv == TypeOK /\ RecordedInv /\ AttemptInv
-----------------------------------------------------------------------------
(* A behaviour is one of each component. *)

LEMMA SpecIsDownload == MCSpec => Spec
<1>1. MCInit => Init
  BY DEF MCInit
<1>2. [MCNext]_all => [Next]_vars
  BY DEF MCNext, OfObject, OfPrefix, all
<1> QED
  BY <1>1, <1>2, PTL DEF MCSpec, Spec

LEMMA SpecIsPrefix == MCSpec => P!Spec
<1>1. MCInit => P!Init
  BY DEF MCInit
<1>2. [MCNext]_all => [P!Next]_(P!vars)
  BY DEF MCNext, OfObject, OfPrefix, all, prefix, P!vars, P!bucket, P!row, P!archive, P!listing,
     P!reading, P!result, P!bounds
<1> QED
  BY <1>1, <1>2, PTL DEF MCSpec, P!Spec

-----------------------------------------------------------------------------
(* The segments of a download *)

LEMMA CeilDivBounds ==
    ASSUME NEW a \in Positive, NEW b \in Positive
    PROVE  /\ ceilDiv(a, b) \in Positive
           /\ (ceilDiv(a, b) - 1) * b < a
           /\ a <= ceilDiv(a, b) * b
<1>1. a \in Nat /\ a > 0 /\ b \in Nat /\ b > 0
  BY DEF Positive
<1>. DEFINE q == (a + b - 1) \div b
            r == (a + b - 1) % b
<1>2. q \in Int /\ r \in 0 .. b - 1 /\ a + b - 1 = b * q + r
  BY <1>1
<1>3. q > 0
  BY <1>1, <1>2
<1> QED
  BY <1>1, <1>2, <1>3 DEF ceilDiv, Positive

\* An attempt always has a segment size, whatever the object and the user's setting.
LEMMA EffectivePositive ==
    ASSUME NEW size \in Positive,
           NEW override \in {0} \cup partSizeOverrideMin .. partSizeOverrideMax
    PROVE  EffectivePartSize(size, override) \in Positive
<1>1. CASE override > 0
  BY <1>1, SizesAssumption DEF EffectivePartSize, Positive
<1>2. CASE ~(override > 0)
  <2>1. TableSize(size) \in Positive
    BY SizesAssumption DEF TableSize
  <2>2. ceilDiv(ceilDiv(size, maxPartsPerUpload), clampRoundingUnit) \in Positive
    BY CeilDivBounds, SizesAssumption
  <2>3. \A m, n \in Positive : m * n \in Positive
    BY DEF Positive
  <2>4. PartSize(size) \in Positive
    BY <2>1, <2>2, <2>3, SizesAssumption DEF PartSize
  <2> QED
    BY <1>2, <2>4 DEF EffectivePartSize
<1> QED
  BY <1>1, <1>2

\* The segments of a layout begin in the file ...
LEMMA LayoutInFile ==
    ASSUME totalBytes \in Positive, NEW size \in Positive
    PROVE  Layout(size) \subseteq Offsets
<1>. DEFINE c == ceilDiv(totalBytes, size)
<1>1. PartCount(totalBytes, size) = c
  BY DEF PartCount, Positive
<1>2. c \in Positive /\ (c - 1) * size < totalBytes
  BY CeilDivBounds
<1>. HIDE DEF c
<1>3. ASSUME NEW n \in 1 .. c
      PROVE  (n - 1) * size \in Offsets
  <2>1. n - 1 \in Nat /\ c - 1 \in Nat /\ n - 1 <= c - 1 /\ size \in Nat /\ totalBytes \in Nat
    BY <1>2 DEF Positive
  <2>2. (n - 1) * size <= (c - 1) * size /\ (n - 1) * size \in Nat
    BY <2>1
  <2> QED
    BY <1>2, <2>1, <2>2 DEF Offsets
<1> QED
  BY <1>1, <1>3 DEF Layout

\* ... and hold all of it.
LEMMA LayoutCovers ==
    ASSUME totalBytes \in Positive, NEW size \in Positive, NEW u \in Units
    PROVE  \E o \in Layout(size) : u \in SegmentUnits(o, size)
<1>. DEFINE c == ceilDiv(totalBytes, size)
            q == (u - 1) \div size
            r == (u - 1) % size
<1>1. PartCount(totalBytes, size) = c
  BY DEF PartCount, Positive
<1>2. c \in Positive /\ totalBytes <= c * size
  BY CeilDivBounds
<1>3. u \in Nat /\ u > 0 /\ u <= totalBytes /\ size \in Nat /\ size > 0
  BY DEF Units, Positive
<1>4. q \in Nat /\ r \in 0 .. size - 1 /\ u - 1 = size * q + r
  BY <1>3
<1>. HIDE DEF c, q, r
<1>5. q < c
  <2>1. c \in Nat /\ totalBytes \in Nat
    BY <1>2 DEF Positive
  <2> SUFFICES ASSUME c <= q PROVE FALSE
    BY <1>4, <2>1
  <2>2. c * size <= q * size
    BY <1>3, <1>4, <2>1
  <2>3. q * size = size * q /\ q * size \in Nat /\ c * size \in Nat
    BY <1>3, <1>4, <2>1
  <2> QED
    BY <1>2, <1>3, <1>4, <2>1, <2>2, <2>3
<1>6. q + 1 \in 1 .. c /\ (q + 1) - 1 = q
  BY <1>2, <1>4, <1>5 DEF Positive
<1>7. q * size \in Layout(size)
  BY <1>1, <1>6 DEF Layout
<1>8. q * size = size * q /\ q * size \in Nat
  BY <1>3, <1>4
<1>9. u \in SegmentUnits(q * size, size)
  BY <1>3, <1>4, <1>8 DEF SegmentUnits
<1> QED
  BY <1>7, <1>9

-----------------------------------------------------------------------------
(* The steps of a download *)

LEMMA WorkersFinite ==
    ASSUME TypeOK
    PROVE  IsFiniteSet(Workers) /\ Cardinality(Workers) \in Nat
<1>1. totalBytes \in Int
  BY DownloadAssumption DEF TypeOK, Positive
<1>2. IsFiniteSet(Offsets)
  BY <1>1, FS_Interval DEF Offsets
<1>3. Workers \subseteq Offsets
  BY DEF TypeOK, Workers
<1> QED
  BY <1>2, <1>3, FS_Subset, FS_CardinalityType

LEMMA WorkersStep ==
    ASSUME TypeOK, [Next]_vars
    PROVE  Cardinality(Workers') <= Concurrency
<1>. DEFINE Fewer == Workers' \subseteq Workers
<1>0. ASSUME Fewer PROVE Cardinality(Workers') <= Concurrency
  <2>1. Cardinality(Workers') <= Cardinality(Workers) /\ Cardinality(Workers') \in Nat
    BY <1>0, WorkersFinite, FS_Subset, FS_CardinalityType
  <2> QED
    BY <2>1, WorkersFinite, DownloadAssumption DEF TypeOK, Positive
<1>1. CASE Start
  BY <1>0, <1>1 DEF Start, Workers
<1>2. CASE HeadObject
  BY <1>0, <1>2 DEF HeadObject, Workers
<1>3. CASE Plan
  BY <1>0, <1>3 DEF Plan, Workers
<1>4. CASE Launch
  <2>1. PICK o \in segments : fetching' = fetching \cup {o}
    BY <1>4 DEF Launch
  <2>2. Workers' = Workers \cup {o} /\ Cardinality(Workers) < Concurrency
    BY <1>4, <2>1 DEF Launch, Workers
  <2>3. Cardinality(Workers \cup {o}) \in {Cardinality(Workers), Cardinality(Workers) + 1}
    BY WorkersFinite, FS_AddElement
  <2> QED
    BY <2>2, <2>3, WorkersFinite, DownloadAssumption DEF Positive
<1>5. ASSUME NEW o \in Offsets, FetchPartly(o)
      PROVE  Cardinality(Workers') <= Concurrency
  BY <1>0, <1>5 DEF FetchPartly, Workers
<1>6. ASSUME NEW o \in Offsets, Fetch(o)
      PROVE  Cardinality(Workers') <= Concurrency
  BY <1>0, <1>6 DEF Fetch, Workers
<1>7. ASSUME NEW o \in Offsets, SegmentFails(o)
      PROVE  Cardinality(Workers') <= Concurrency
  BY <1>0, <1>7 DEF SegmentFails, Workers
<1>8. ASSUME NEW o \in Offsets, Record(o)
      PROVE  Cardinality(Workers') <= Concurrency
  BY <1>0, <1>8 DEF Record, Workers
<1>9. ASSUME NEW o \in Offsets, RecordTorn(o)
      PROVE  Cardinality(Workers') <= Concurrency
  BY <1>0, <1>9 DEF RecordTorn, Workers
<1>10. CASE Wait
  BY <1>0, <1>10 DEF Wait, Workers
<1>11. CASE CloseSidecar
  BY <1>0, <1>11 DEF CloseSidecar, Workers
<1>12. CASE HandleResult
  BY <1>0, <1>12 DEF HandleResult, NoAttempt, Workers
<1>13. ASSUME NEW from \in SUBSET {"paused", "failed", "completed", "cancelled"},
              Call(from, "pending")
       PROVE  Cardinality(Workers') <= Concurrency
  BY <1>0, <1>13 DEF Call, attempt, Workers
<1>14. CASE Stop
  BY <1>0, <1>14 DEF Stop, Workers
<1>15. ASSUME NEW mb \in Overrides, SetPartSizeOverrideMB(mb)
       PROVE  Cardinality(Workers') <= Concurrency
  BY <1>0, <1>15 DEF SetPartSizeOverrideMB, attempt, Workers
<1>16. CASE DeleteLocalFile
  BY <1>0, <1>16 DEF DeleteLocalFile, attempt, Workers
<1>17. CASE Crash
  BY <1>0, <1>17 DEF Crash, NoAttempt, Workers
<1>18. CASE UNCHANGED vars
  BY <1>0, <1>18 DEF vars, AttemptUnchanged, sidecar, attempt, bounds, NoAttempt, Workers
<1>19. ASSUME Attempt PROVE Cardinality(Workers') <= Concurrency
  BY <1>19, <1>2, <1>3, <1>4, <1>5, <1>6, <1>7, <1>8, <1>9, <1>10, <1>11, <1>12 DEF Attempt
<1>20. ASSUME User PROVE Cardinality(Workers') <= Concurrency
  BY <1>20, <1>13, <1>14, <1>15, <1>16 DEF User, ResumeTask, RetryTask, QueueDownload
<1> QED
  BY <1>1, <1>18, <1>19, <1>20, <1>17 DEF Next

LEMMA JoinedInFile == ASSUME TypeOK, NEW o \in Offsets PROVE Joined(o) \subseteq Offsets
<1>1. totalBytes \in Nat
  BY DownloadAssumption DEF TypeOK, Positive
<1>2. ASSUME tail > 0, tail * Radix < totalBytes PROVE tail * Radix \in Offsets
  <2>1. tail \in Nat /\ Radix \in Nat
    BY <1>2, DownloadAssumption DEF TypeOK, Offsets, NoLine, Junk
  <2>2. tail * Radix \in Nat
    BY <2>1
  <2> QED
    BY <1>1, <1>2, <2>2 DEF Offsets
<1> QED
  BY <1>2 DEF Joined

LEMMA TypeStep ==
    ASSUME TypeOK, AttemptInv, [Next]_vars
    PROVE  TypeOK'
<1>0. /\ totalBytes \in Positive /\ totalBytes \in Nat
      /\ EffectivePartSize(totalBytes, partSizeOverride) \in Positive
      /\ Cardinality(Workers') <= Concurrency
  BY WorkersStep, EffectivePositive, DownloadAssumption DEF TypeOK, Positive
<1>. USE <1>0 DEF TypeOK
<1>1. CASE Start
  BY <1>1 DEF Start, bounds, sidecar, Workers, Units, Offsets
<1>2. CASE HeadObject
  BY <1>2 DEF HeadObject, Errors, AttemptUnchanged, sidecar, Workers, Units, Offsets
<1>3. CASE Plan
  <2>1. segmentSize' \in Positive /\ segments' \subseteq Offsets
    BY <1>3, LayoutInFile DEF Plan
  <2>2. segmentSize' \in Nat /\ segments' \cap Workers' = {}
    BY <1>3, <2>1 DEF Plan, Positive, Workers, AttemptInv
  <2> QED
    BY <1>3, <2>1, <2>2 DEF Plan, RemoveSidecar, AttemptUnchanged, sidecar, Units, Offsets
<1>4. CASE Launch
  BY <1>4 DEF Launch, AttemptUnchanged, sidecar, Workers, Units, Offsets
<1>5. ASSUME NEW o \in Offsets, FetchPartly(o)
      PROVE  TypeOK'
  BY <1>5 DEF FetchPartly, End, AttemptUnchanged, sidecar, Workers, Units, Offsets
<1>6. ASSUME NEW o \in Offsets, Fetch(o)
      PROVE  TypeOK'
  BY <1>6 DEF Fetch, End, AttemptUnchanged, sidecar, Workers, Units, Offsets
<1>7. ASSUME NEW o \in Offsets, SegmentFails(o)
      PROVE  TypeOK'
  BY <1>7 DEF SegmentFails, Fail, Errors, AttemptUnchanged, sidecar, Workers, Units, Offsets
<1>8. ASSUME NEW o \in Offsets, Record(o)
      PROVE  TypeOK'
  BY <1>8, JoinedInFile DEF Record, AttemptUnchanged, sidecar, Workers, Units, Offsets
<1>9. ASSUME NEW o \in Offsets, RecordTorn(o)
      PROVE  TypeOK'
  <2>1. torn' \in 0 .. MaxTorn
    BY <1>9, DownloadAssumption DEF RecordTorn
  <2>2. \A p \in Remains(o) : Joined(p) \subseteq Offsets
    BY JoinedInFile DEF Remains
  <2>3. tail' \in Offsets \cup {NoLine, Junk}
    BY <1>9, <2>2 DEF RecordTorn
  <2>4. err' \in {"none", "failed", "canceled"}
    BY <1>9 DEF RecordTorn, Fail
  <2> QED
    BY <1>9, <2>1, <2>3, <2>4 DEF RecordTorn, AttemptUnchanged, Workers, Units, Offsets
<1>10. CASE Wait
  BY <1>10 DEF Wait, AttemptUnchanged, sidecar, Workers, Units, Offsets
<1>11. CASE CloseSidecar
  BY <1>11 DEF CloseSidecar, RemoveSidecar, AttemptUnchanged, sidecar, Workers, Units, Offsets
<1>12. CASE HandleResult
  BY <1>12 DEF HandleResult, NoAttempt, sidecar, bounds, Workers, Units, Offsets
<1>13. ASSUME NEW from \in SUBSET {"paused", "failed", "completed", "cancelled"},
              Call(from, "pending")
       PROVE  TypeOK'
  BY <1>13, DownloadAssumption DEF Call, attempt, sidecar, Workers, Units, Offsets
<1>14. CASE Stop
  BY <1>14, DownloadAssumption DEF Stop, sidecar, Workers, Units, Offsets
<1>15. ASSUME NEW mb \in Overrides, SetPartSizeOverrideMB(mb)
       PROVE  TypeOK'
  BY <1>15, SizesAssumption, DownloadAssumption
  DEF SetPartSizeOverrideMB, attempt, sidecar, ClampOverride, Workers, Units, Offsets
<1>16. CASE DeleteLocalFile
  BY <1>16 DEF DeleteLocalFile, attempt, sidecar, bounds, Workers, Units, Offsets
<1>17. CASE Crash
  <2>1. crashes' \in 0 .. MaxCrashes
    BY <1>17, DownloadAssumption DEF Crash
  <2> QED
    BY <1>17, <2>1 DEF Crash, NoAttempt, sidecar, Workers, Units, Offsets
<1>18. CASE UNCHANGED vars
  BY <1>18
  DEF vars, AttemptUnchanged, sidecar, attempt, bounds, NoAttempt, Workers, Units, Offsets
<1>19. ASSUME Attempt PROVE TypeOK'
  BY <1>19, <1>2, <1>3, <1>4, <1>5, <1>6, <1>7, <1>8, <1>9, <1>10, <1>11, <1>12 DEF Attempt
<1>20. ASSUME User PROVE TypeOK'
  BY <1>20, <1>13, <1>14, <1>15, <1>16 DEF User, ResumeTask, RetryTask, QueueDownload
<1> QED
  BY <1>1, <1>18, <1>19, <1>20, <1>17 DEF Next

LEMMA SameFile == ASSUME [Next]_vars PROVE totalBytes' = totalBytes
BY DEF Next, Attempt, User, vars, Start, HeadObject, Plan, Launch, FetchPartly, Fetch,
   SegmentFails,
  Record, RecordTorn, Wait, CloseSidecar, HandleResult, ResumeTask, RetryTask, QueueDownload,
  Call,
  Stop, SetPartSizeOverrideMB, DeleteLocalFile, Crash, AttemptUnchanged

\* The sidecar names no more, and the file holds no less.
LEMMA RecordedFrame ==
    ASSUME RecordedInv, totalBytes' = totalBytes, Completed' \subseteq Completed,
           written \subseteq written', recordedSize' = recordedSize, spoiled => spoiled'
    PROVE  RecordedInv'
BY DEF RecordedInv, SegmentUnits, Units

LEMMA RecordedStep ==
    ASSUME TypeOK, RecordedInv, AttemptInv, [Next]_vars
    PROVE  RecordedInv'
<1>0. totalBytes' = totalBytes
  BY SameFile
<1>1. CASE Start
  <2>1. /\ Completed' \subseteq Completed /\ written \subseteq written'
        /\ recordedSize' = recordedSize /\ spoiled' = spoiled
    BY <1>1 DEF Start, sidecar, Completed, NoLine
  <2> QED
    BY <1>0, <2>1, RecordedFrame
<1>2. CASE HeadObject
  <2>1. /\ Completed' \subseteq Completed /\ written \subseteq written'
        /\ recordedSize' = recordedSize /\ spoiled' = spoiled
    BY <1>2 DEF HeadObject, sidecar, Completed, NoLine
  <2> QED
    BY <1>0, <2>1, RecordedFrame
<1>3. CASE Plan
  <2>1. Completed' \subseteq Completed /\ written' = written
    BY <1>3 DEF Plan, RemoveSidecar, sidecar, Completed, NoLine
  <2>2. CASE Completed = {}
    BY <2>1, <2>2 DEF RecordedInv
  <2>3. CASE Completed # {} /\ recordedSize = segmentSize'
    <3>1. recordedSize' = recordedSize /\ (spoiled => spoiled')
      BY <1>3, <2>3 DEF Plan
    <3> QED
      BY <1>0, <2>1, <3>1, RecordedFrame
  <2>4. CASE Completed # {} /\ recordedSize # segmentSize'
    BY <1>3, <2>4 DEF Plan, RecordedInv
  <2> QED
    BY <2>2, <2>3, <2>4
<1>4. CASE Launch
  <2>1. /\ Completed' \subseteq Completed /\ written \subseteq written'
        /\ recordedSize' = recordedSize /\ spoiled' = spoiled
    BY <1>4 DEF Launch, sidecar, Completed, NoLine
  <2> QED
    BY <1>0, <2>1, RecordedFrame
<1>5. ASSUME NEW o \in Offsets, FetchPartly(o)
      PROVE  RecordedInv'
  <2>1. /\ Completed' \subseteq Completed /\ written \subseteq written'
        /\ recordedSize' = recordedSize /\ spoiled' = spoiled
    BY <1>5 DEF FetchPartly, sidecar, Completed, NoLine
  <2> QED
    BY <1>0, <2>1, RecordedFrame
<1>6. ASSUME NEW o \in Offsets, Fetch(o)
      PROVE  RecordedInv'
  <2>1. /\ Completed' \subseteq Completed /\ written \subseteq written'
        /\ recordedSize' = recordedSize /\ spoiled' = spoiled
    BY <1>6 DEF Fetch, sidecar, Completed, NoLine
  <2> QED
    BY <1>0, <2>1, RecordedFrame
<1>7. ASSUME NEW o \in Offsets, SegmentFails(o)
      PROVE  RecordedInv'
  <2>1. /\ Completed' \subseteq Completed /\ written \subseteq written'
        /\ recordedSize' = recordedSize /\ spoiled' = spoiled
    BY <1>7 DEF SegmentFails, sidecar, Completed, NoLine
  <2> QED
    BY <1>0, <2>1, RecordedFrame
<1>8. ASSUME NEW o \in Offsets, Record(o)
      PROVE  RecordedInv'
  <2>1. /\ written' = written /\ recordedSize' = recordedSize /\ recordedSize = segmentSize
        /\ SegmentUnits(o, segmentSize) \subseteq written
    BY <1>8 DEF Record, AttemptInv, Held, Workers
  <2>2. Completed' \subseteq Completed \cup Joined(o)
    <3>. HIDE DEF Joined
    <3> QED
      BY <1>8 DEF Record, Completed, NoLine
  <2>3. ~spoiled' => ~spoiled /\ Joined(o) \subseteq {o}
    <3>. HIDE DEF Joined
    <3> QED
      BY <1>8 DEF Record
  <2> QED
    BY <1>0, <2>1, <2>2, <2>3 DEF RecordedInv, SegmentUnits, Units
<1>9. ASSUME NEW o \in Offsets, RecordTorn(o)
      PROVE  RecordedInv'
  <2>1. /\ written' = written /\ recordedSize' = recordedSize /\ recordedSize = segmentSize
        /\ ~spoiled' => ~spoiled /\ tail' \in {Junk, o}
        /\ SegmentUnits(o, segmentSize) \subseteq written
    BY <1>9 DEF RecordTorn, AttemptInv, Held, Workers, AttemptUnchanged
  <2>2. ~spoiled' => Completed' \subseteq Completed \cup {o}
    BY <1>9, <2>1 DEF RecordTorn, Completed, Junk
  <2> QED
    BY <1>0, <2>1, <2>2 DEF RecordedInv, SegmentUnits, Units
<1>10. CASE Wait
  <2>1. /\ Completed' \subseteq Completed /\ written \subseteq written'
        /\ recordedSize' = recordedSize /\ spoiled' = spoiled
    BY <1>10 DEF Wait, sidecar, Completed, NoLine
  <2> QED
    BY <1>0, <2>1, RecordedFrame
<1>11. CASE CloseSidecar
  <2>1. /\ Completed' \subseteq Completed /\ written \subseteq written'
        /\ recordedSize' = recordedSize /\ spoiled' = spoiled
    BY <1>11 DEF CloseSidecar, RemoveSidecar, sidecar, Completed, NoLine
  <2> QED
    BY <1>0, <2>1, RecordedFrame
<1>12. CASE HandleResult
  <2>1. /\ Completed' \subseteq Completed /\ written \subseteq written'
        /\ recordedSize' = recordedSize /\ spoiled' = spoiled
    BY <1>12 DEF HandleResult, sidecar, Completed, NoLine
  <2> QED
    BY <1>0, <2>1, RecordedFrame
<1>13. ASSUME NEW from \in SUBSET {"paused", "failed", "completed", "cancelled"},
              Call(from, "pending")
       PROVE  RecordedInv'
  <2>1. /\ Completed' \subseteq Completed /\ written \subseteq written'
        /\ recordedSize' = recordedSize /\ spoiled' = spoiled
    BY <1>13 DEF Call, sidecar, Completed, NoLine
  <2> QED
    BY <1>0, <2>1, RecordedFrame
<1>14. CASE Stop
  <2>1. /\ Completed' \subseteq Completed /\ written \subseteq written'
        /\ recordedSize' = recordedSize /\ spoiled' = spoiled
    BY <1>14 DEF Stop, sidecar, Completed, NoLine
  <2> QED
    BY <1>0, <2>1, RecordedFrame
<1>15. ASSUME NEW mb \in Overrides, SetPartSizeOverrideMB(mb)
       PROVE  RecordedInv'
  <2>1. /\ Completed' \subseteq Completed /\ written \subseteq written'
        /\ recordedSize' = recordedSize /\ spoiled' = spoiled
    BY <1>15 DEF SetPartSizeOverrideMB, sidecar, Completed, NoLine
  <2> QED
    BY <1>0, <2>1, RecordedFrame
<1>16. CASE DeleteLocalFile
  <2>1. Completed' = Completed /\ (~spoiled' => ~spoiled /\ Completed = {})
    BY <1>16 DEF DeleteLocalFile, sidecar, Completed
  <2> QED
    BY <2>1 DEF RecordedInv
<1>17. CASE Crash
  <2>1. /\ Completed' \subseteq Completed /\ written \subseteq written'
        /\ recordedSize' = recordedSize /\ spoiled' = spoiled
    BY <1>17 DEF Crash, sidecar, Completed, NoLine
  <2> QED
    BY <1>0, <2>1, RecordedFrame
<1>18. CASE UNCHANGED vars
  <2>1. /\ Completed' \subseteq Completed /\ written \subseteq written'
        /\ recordedSize' = recordedSize /\ spoiled' = spoiled
    BY <1>18 DEF vars, bounds, sidecar, Completed, NoLine
  <2> QED
    BY <1>0, <2>1, RecordedFrame
<1>19. ASSUME Attempt PROVE RecordedInv'
  BY <1>19, <1>2, <1>3, <1>4, <1>5, <1>6, <1>7, <1>8, <1>9, <1>10, <1>11, <1>12 DEF Attempt
<1>20. ASSUME User PROVE RecordedInv'
  BY <1>20, <1>13, <1>14, <1>15, <1>16 DEF User, ResumeTask, RetryTask, QueueDownload
<1> QED
  BY <1>1, <1>18, <1>19, <1>20, <1>17 DEF Next

\* What the file and the layout are does not change, and the file holds no less.
LEMMA HeldStays ==
    ASSUME totalBytes' = totalBytes, segmentSize' = segmentSize, written \subseteq written'
    PROVE  /\ \A o : Held(o) => Held(o)'
           /\ Layout(segmentSize)' = Layout(segmentSize)
BY DEF Held, SegmentUnits, Units, Layout, PartCount

LEMMA AttemptStep ==
    ASSUME TypeOK, RecordedInv, AttemptInv, [Next]_vars
    PROVE  AttemptInv'
<1>0. totalBytes' = totalBytes
  BY SameFile
<1>1. CASE Start
  <2>1. /\ \A p : Held(p) => Held(p)'
        /\ Layout(segmentSize)' = Layout(segmentSize)
    BY <1>0, <1>1, HeldStays DEF Start, sidecar
  <2> QED
    BY <1>1, <2>1 DEF Start, sidecar, AttemptInv, Workers, TypeOK
<1>2. CASE HeadObject
  <2>1. /\ \A p : Held(p) => Held(p)'
        /\ Layout(segmentSize)' = Layout(segmentSize)
    BY <1>0, <1>2, HeldStays DEF HeadObject, Errors, sidecar
  <2> QED
    BY <1>2, <2>1 DEF HeadObject, Errors, sidecar, AttemptInv, Workers, TypeOK
<1>3. CASE Plan
  <2>1. segmentSize' \in Positive /\ Layout(segmentSize') \subseteq Offsets
    BY <1>3, EffectivePositive, LayoutInFile, DownloadAssumption DEF Plan, TypeOK
  <2>2. Layout(segmentSize)' = Layout(segmentSize')
    BY <1>0 DEF Layout, PartCount
  <2>3. /\ segments' = Layout(segmentSize') \ Completed
        /\ Workers' = {} /\ recordedSize' = segmentSize'
        /\ fetched' = {} /\ lines' \subseteq Completed /\ written' = written
        /\ ~spoiled' => ~spoiled /\ (Completed = {} \/ recordedSize = segmentSize')
        /\ pc' \in {"run", "result"} /\ (pc' # "run" => segments' = {})
    BY <1>3 DEF Plan, RemoveSidecar, sidecar, Completed, AttemptInv, Workers
  <2>4. ASSUME ~spoiled', NEW o \in Layout(segmentSize'), o \notin segments' PROVE Held(o)'
    <3>1. o \in Completed /\ ~spoiled /\ recordedSize = segmentSize'
      BY <2>3, <2>4
    <3> QED
      BY <1>0, <2>3, <3>1 DEF RecordedInv, Held, SegmentUnits, Units
  <2> QED
    BY <2>1, <2>2, <2>3, <2>4 DEF AttemptInv
<1>4. CASE Launch
  <2>1. /\ \A p : Held(p) => Held(p)'
        /\ Layout(segmentSize)' = Layout(segmentSize)
    BY <1>0, <1>4, HeldStays DEF Launch, sidecar
  <2> QED
    BY <1>4, <2>1 DEF Launch, sidecar, AttemptInv, Workers, TypeOK
<1>5. ASSUME NEW o \in Offsets, FetchPartly(o)
      PROVE  AttemptInv'
  <2>1. /\ \A p : Held(p) => Held(p)'
        /\ Layout(segmentSize)' = Layout(segmentSize)
    BY <1>0, <1>5, HeldStays DEF FetchPartly, sidecar
  <2> QED
    BY <1>5, <2>1 DEF FetchPartly, sidecar, AttemptInv, Workers, TypeOK
<1>6. ASSUME NEW o \in Offsets, Fetch(o)
      PROVE  AttemptInv'
  <2>1. segmentSize' = segmentSize /\ written' = written \cup (o + 1 .. End(o))
    BY <1>6 DEF Fetch
  <2>2. Held(o)'
    BY <1>0, <2>1, DownloadAssumption
    DEF Held, SegmentUnits, Units, End, TypeOK, Positive, Offsets
  <2>3. /\ \A p : Held(p) => Held(p)'
        /\ Layout(segmentSize)' = Layout(segmentSize)
    BY <1>0, <2>1, HeldStays
  <2> QED
    BY <1>6, <2>2, <2>3 DEF Fetch, sidecar, AttemptInv, Workers, TypeOK
<1>7. ASSUME NEW o \in Offsets, SegmentFails(o)
      PROVE  AttemptInv'
  <2>1. /\ \A p : Held(p) => Held(p)'
        /\ Layout(segmentSize)' = Layout(segmentSize)
    BY <1>0, <1>7, HeldStays DEF SegmentFails, Fail, Errors, sidecar
  <2> QED
    BY <1>7, <2>1 DEF SegmentFails, Fail, Errors, sidecar, AttemptInv, Workers, TypeOK
<1>8. ASSUME NEW o \in Offsets, Record(o)
      PROVE  AttemptInv'
  <2>1. /\ \A p : Held(p) => Held(p)'
        /\ Layout(segmentSize)' = Layout(segmentSize)
    BY <1>0, <1>8, HeldStays DEF Record
  <2>2. ~spoiled' => Joined(o) \subseteq {o}
    BY <1>8 DEF Record
  <2> QED
    BY <1>8, <2>1, <2>2 DEF Record, AttemptInv, Workers, TypeOK
<1>9. ASSUME NEW o \in Offsets, RecordTorn(o)
      PROVE  AttemptInv'
  <2>1. /\ \A p : Held(p) => Held(p)'
        /\ Layout(segmentSize)' = Layout(segmentSize)
    BY <1>0, <1>9, HeldStays DEF RecordTorn, Fail
  <2> QED
    BY <1>9, <2>1 DEF RecordTorn, Fail, AttemptInv, Workers, TypeOK
<1>10. CASE Wait
  <2>1. /\ \A p : Held(p) => Held(p)'
        /\ Layout(segmentSize)' = Layout(segmentSize)
    BY <1>0, <1>10, HeldStays DEF Wait, sidecar
  <2> QED
    BY <1>10, <2>1 DEF Wait, sidecar, AttemptInv, Workers, TypeOK
<1>11. CASE CloseSidecar
  <2>1. /\ \A p : Held(p) => Held(p)'
        /\ Layout(segmentSize)' = Layout(segmentSize)
    BY <1>0, <1>11, HeldStays DEF CloseSidecar, RemoveSidecar, sidecar
  <2> QED
    BY <1>11, <2>1 DEF CloseSidecar, RemoveSidecar, sidecar, AttemptInv, Workers, TypeOK
<1>12. CASE HandleResult
  BY <1>0, <1>12 DEF HandleResult, NoAttempt, AttemptInv, Workers
<1>13. ASSUME NEW from \in SUBSET {"paused", "failed", "completed", "cancelled"},
              Call(from, "pending")
       PROVE  AttemptInv'
  <2>1. /\ \A p : Held(p) => Held(p)'
        /\ Layout(segmentSize)' = Layout(segmentSize)
    BY <1>0, <1>13, HeldStays DEF Call, attempt, sidecar
  <2> QED
    BY <1>13, <2>1 DEF Call, attempt, sidecar, AttemptInv, Workers, TypeOK
<1>14. CASE Stop
  <2>1. /\ \A p : Held(p) => Held(p)'
        /\ Layout(segmentSize)' = Layout(segmentSize)
    BY <1>0, <1>14, HeldStays DEF Stop, sidecar
  <2> QED
    BY <1>14, <2>1 DEF Stop, sidecar, AttemptInv, Workers, TypeOK
<1>15. ASSUME NEW mb \in Overrides, SetPartSizeOverrideMB(mb)
       PROVE  AttemptInv'
  <2>1. /\ \A p : Held(p) => Held(p)'
        /\ Layout(segmentSize)' = Layout(segmentSize)
    BY <1>0, <1>15, HeldStays DEF SetPartSizeOverrideMB, attempt, sidecar
  <2> QED
    BY <1>15, <2>1 DEF SetPartSizeOverrideMB, attempt, sidecar, AttemptInv, Workers, TypeOK
<1>16. CASE DeleteLocalFile
  BY <1>0, <1>16 DEF DeleteLocalFile, attempt, sidecar, TypeOK, AttemptInv, Workers
<1>17. CASE Crash
  BY <1>0, <1>17 DEF Crash, NoAttempt, AttemptInv, Workers
<1>18. CASE UNCHANGED vars
  <2>1. /\ \A p : Held(p) => Held(p)'
        /\ Layout(segmentSize)' = Layout(segmentSize)
    BY <1>0, <1>18, HeldStays DEF vars, attempt, sidecar, bounds
  <2> QED
    BY <1>18, <2>1 DEF vars, attempt, sidecar, bounds, AttemptInv, Workers, TypeOK
<1>19. ASSUME Attempt PROVE AttemptInv'
  BY <1>19, <1>2, <1>3, <1>4, <1>5, <1>6, <1>7, <1>8, <1>9, <1>10, <1>11, <1>12 DEF Attempt
<1>20. ASSUME User PROVE AttemptInv'
  BY <1>20, <1>13, <1>14, <1>15, <1>16 DEF User, ResumeTask, RetryTask, QueueDownload
<1> QED
  BY <1>1, <1>18, <1>19, <1>20, <1>17 DEF Next

LEMMA InitDownload == Init => DownloadInv
<1> SUFFICES ASSUME Init PROVE DownloadInv
  OBVIOUS
<1>1. Cardinality(Workers) <= Concurrency
  <2>1. Cardinality({}) = 0
    BY FS_EmptySet
  <2> QED
    BY <2>1, DownloadAssumption DEF Init, Workers, Positive
<1>2. 0 \in 0 .. MaxTorn /\ 0 \in 0 .. MaxCalls /\ 0 \in 0 .. MaxCrashes
  BY DownloadAssumption
<1>3. TypeOK
  BY <1>1, <1>2 DEF Init, TypeOK, Workers, Units, Offsets
<1> QED
  BY <1>3 DEF Init, DownloadInv, RecordedInv, AttemptInv, Completed, NoLine, Workers

LEMMA NextDownload == DownloadInv /\ [Next]_vars => DownloadInv'
BY TypeStep, RecordedStep, AttemptStep DEF DownloadInv

\* An attempt that knows of no more segments to fetch has a whole file.
LEMMA NothingMissing ==
    ASSUME DownloadInv, ~spoiled, pc \in {"close", "result"}, err = "none"
    PROVE  written = Units
<1>1. segmentSize \in Positive /\ totalBytes \in Positive /\ written \subseteq Units
  BY DownloadAssumption DEF DownloadInv, AttemptInv, TypeOK
<1>2. \A o \in Layout(segmentSize) : Held(o)
  BY DEF DownloadInv, AttemptInv, Workers
<1>3. Units \subseteq written
  BY <1>1, <1>2, LayoutCovers DEF Held
<1> QED
  BY <1>1, <1>3

\* A download that succeeds leaves the whole object in the file, through retries, torn lines of
\* the sidecar, pauses, crashes and downloads to the same path again, as long as the sidecar was
\* not spoiled (downloadRange, planDownloadSegments, recordCompleted).
THEOREM FileArrivesAlways == MCSpec => []FileArrives
<1>1. DownloadInv => FileArrives
  BY NothingMissing DEF FileArrives, FileIsObject, Succeeded, DownloadInv
<1> QED
  BY <1>1, InitDownload, NextDownload, SpecIsDownload, PTL DEF Spec

\* The sidecar forgets a segment only when the file is complete or the record is spoiled ...
LEMMA KeptStep ==
    ASSUME DownloadInv, [Next]_vars
    PROVE  lines \subseteq lines' \/ spoiled' \/ written = Units
<1> SUFFICES ASSUME ~ (lines \subseteq lines'), ~spoiled' PROVE written = Units
  OBVIOUS
<1>1. CASE Plan
  <2>1. /\ segments' = {} /\ ~spoiled
        /\ segments' = Layout(segmentSize') \ Completed
        /\ Completed = {} \/ recordedSize = segmentSize'
        /\ segmentSize' = EffectivePartSize(totalBytes, partSizeOverride)
    BY <1>1 DEF Plan, sidecar
  <2>2. segmentSize' \in Positive /\ totalBytes \in Positive /\ written \subseteq Units
    BY <2>1, EffectivePositive, DownloadAssumption DEF DownloadInv, TypeOK
  <2>3. \A o \in Layout(segmentSize') : SegmentUnits(o, segmentSize') \subseteq written
    BY <2>1 DEF DownloadInv, RecordedInv
  <2>4. Units \subseteq written
    BY <2>2, <2>3, LayoutCovers
  <2> QED
    BY <2>2, <2>4
<1>2. CASE CloseSidecar
  BY <1>2, NothingMissing DEF CloseSidecar, DownloadInv, AttemptInv
<1>3. CASE ~Plan /\ ~CloseSidecar
  BY <1>3 DEF Next, Attempt, User, vars, Start, HeadObject, Launch, FetchPartly, Fetch,
     SegmentFails, Record, RecordTorn, Wait, HandleResult, ResumeTask, RetryTask, QueueDownload,
     Call, Stop, SetPartSizeOverrideMB, DeleteLocalFile, Crash, AttemptUnchanged, sidecar
<1> QED
  BY <1>1, <1>2, <1>3

\* ... and no segment that it names is fetched.
LEMMA NotTwiceStep ==
    ASSUME DownloadInv, [Next]_vars
    PROVE  (fetching' \ fetching) \cap lines = {} \/ spoiled
<1>1. CASE Launch
  BY <1>1 DEF Launch, DownloadInv, AttemptInv
<1>2. CASE ~Launch
  BY <1>2 DEF Next, Attempt, User, vars, attempt, Start, HeadObject, Plan, FetchPartly, Fetch,
     SegmentFails, Record, RecordTorn, Wait, CloseSidecar, HandleResult, ResumeTask, RetryTask,
     QueueDownload, Call, Stop, SetPartSizeOverrideMB, DeleteLocalFile, Crash, NoAttempt,
     AttemptUnchanged
<1> QED
  BY <1>1, <1>2

\* What was transferred and recorded is kept until the file is complete, and not transferred
\* again by the download that resumes (planDownloadSegments, removeProgressSidecar).
THEOREM ProgressIsUsedAlways == MCSpec => ProgressIsUsed
<1>1. DownloadInv /\ [Next]_vars =>
        /\ [lines \subseteq lines' \/ spoiled' \/ written = Units]_vars
        /\ [(fetching' \ fetching) \cap lines = {} \/ spoiled]_vars
  BY KeptStep, NotTwiceStep
<1> QED
  BY <1>1, InitDownload, NextDownload, SpecIsDownload, PTL
  DEF Spec, ProgressIsUsed, ProgressKept, NoSegmentTwice

-----------------------------------------------------------------------------
(* Pages of a listing *)

\* The library's well-founded induction, for sets that name what is wrong: a set of natural
\* numbers that is not empty has a least member.
LEMMA LeastNatural ==
    ASSUME NEW S \in SUBSET Nat, S # {}
    PROVE  \E x \in S : \A y \in S : x <= y
<1>. DEFINE R == OpToRel(<, Nat)
<1>1. PICK x \in S : \A y \in S : ~ (<<y, x>> \in R)
  <2>. HIDE DEF R
  <2>1. IsWellFoundedOn(R, Nat)
    BY NatLessThanWellFounded DEF R
  <2> QED
    BY <2>1, WFMin
<1>2. R = {p \in Nat \X Nat : p[1] < p[2]}
  BY DEF OpToRel
<1>. HIDE DEF R
<1>3. \A y \in S : y < x => <<y, x>> \in R
  BY <1>2
<1>4. \A y \in S : ~ (y < x) /\ y \in Nat /\ x \in Nat
  BY <1>1, <1>3
<1> QED
  BY <1>4

\* The first n members of a finite set of natural numbers.
First(S, n) ==
    {page \in SUBSET S : Cardinality(page) = n /\ \A k \in S \ page : \A i \in page : i < k}

LEMMA FirstExist ==
    ASSUME NEW S \in SUBSET Nat, IsFiniteSet(S), NEW n \in 0 .. Cardinality(S)
    PROVE  First(S, n) # {}
<1>. DEFINE Wrong == {m \in 0 .. Cardinality(S) : First(S, m) = {}}
<1>0. Cardinality(S) \in Nat
  BY FS_CardinalityType
<1> SUFFICES ASSUME Wrong # {} PROVE FALSE
  OBVIOUS
<1>1. PICK m \in Wrong : \A y \in Wrong : m <= y
  <2>1. Wrong \subseteq Nat
    BY <1>0
  <2> QED
    BY <2>1, LeastNatural
<1>2. {} \in First(S, 0)
  BY FS_EmptySet DEF First
<1>3. m \in 1 .. Cardinality(S) /\ m - 1 \in 0 .. Cardinality(S) /\ m - 1 \notin Wrong
  BY <1>0, <1>1, <1>2
<1>4. PICK page \in First(S, m - 1) : TRUE
  BY <1>3
<1>5. /\ page \subseteq S /\ Cardinality(page) = m - 1 /\ IsFiniteSet(page)
      /\ \A k \in S \ page : \A i \in page : i < k
  BY FS_Subset DEF First
<1>6. S \ page # {}
  <2>1. Cardinality(page) # Cardinality(S)
    BY <1>0, <1>3, <1>5
  <2>2. page # S
    BY <2>1
  <2> QED
    BY <1>5, <2>2
<1>7. PICK x \in S \ page : \A y \in S \ page : x <= y
  <2>1. S \ page \in SUBSET Nat
    OBVIOUS
  <2> QED
    BY <1>6, <2>1, LeastNatural
<1>8. Cardinality(page \cup {x}) = m
  <2>1. Cardinality(page \cup {x}) = Cardinality(page) + 1
    BY <1>5, <1>7, FS_AddElement
  <2> QED
    BY <1>3, <1>5, <2>1
<1>9. ASSUME NEW k \in S \ (page \cup {x}), NEW i \in page \cup {x}
      PROVE  i < k
  <2>1. k \in S \ page /\ k # x /\ x <= k /\ k \in Nat /\ x \in Nat
    BY <1>7, <1>9
  <2> QED
    BY <1>5, <1>9, <2>1
<1>10. page \cup {x} \in First(S, m)
  <2>1. page \cup {x} \in SUBSET S
    BY <1>5, <1>7
  <2> QED
    BY <1>8, <1>9, <2>1 DEF First
<1> QED
  BY <1>1, <1>10

LEMMA MinIsLeast ==
    ASSUME NEW S \in SUBSET Nat, S # {}
    PROVE  P!Min(S) \in S /\ \A k \in S : P!Min(S) <= k
BY LeastNatural DEF P!Min

LEMMA MaxIsGreatest ==
    ASSUME NEW S \in SUBSET Nat, IsFiniteSet(S), S # {}
    PROVE  P!Max(S) \in S /\ \A k \in S : k <= P!Max(S)
<1>1. Cardinality(S) \in Nat /\ Cardinality(S) # 0
  BY FS_CardinalityType, FS_EmptySet
<1>2. PICK page \in First(S, Cardinality(S) - 1) : TRUE
  <2>1. Cardinality(S) - 1 \in 0 .. Cardinality(S)
    BY <1>1
  <2> QED
    BY <2>1, FirstExist
<1>3. /\ page \in SUBSET S /\ Cardinality(page) = Cardinality(S) - 1 /\ IsFiniteSet(page)
      /\ \A k \in S \ page : \A i \in page : i < k
  BY FS_Subset DEF First
<1>4. PICK x \in S \ page : TRUE
  <2>1. Cardinality(page) # Cardinality(S)
    BY <1>1, <1>3
  <2>2. page # S
    BY <2>1
  <2> QED
    BY <1>3, <2>2
<1>5. page \cup {x} = S
  <2>1. Cardinality(page \cup {x}) = Cardinality(S)
    <3>1. Cardinality(page \cup {x}) = Cardinality(page) + 1
      BY <1>3, <1>4, FS_AddElement
    <3> QED
      BY <1>1, <1>3, <3>1
  <2>2. page \cup {x} \in SUBSET S
    BY <1>3, <1>4
  <2> QED
    BY <2>1, <2>2, FS_Subset
<1>6. \A k \in S : k <= x /\ x >= k
  <2> SUFFICES ASSUME NEW k \in S PROVE k <= x /\ x >= k
    OBVIOUS
  <2>1. k \in page \/ k = x
    BY <1>5
  <2>2. k \in Nat /\ x \in Nat /\ (k \in page => k < x)
    BY <1>3, <1>4
  <2> QED
    BY <2>1, <2>2
<1>7. P!Max(S) \in S /\ \A k \in S : P!Max(S) >= k
  BY <1>4, <1>6 DEF P!Max
<1> QED
  BY <1>7

-----------------------------------------------------------------------------
(* The invariant of a download of a prefix *)

\* The archive is being written; it was written.
Writing == zipPc \in {"get", "read", "write"}
Written == zipPc = "result" /\ zipErr = "none"

\* An entry is the data of one object, and of the one that is there when it was not touched.
EntriesAreObjects ==
    \A k \in DOMAIN entries :
        /\ \E v \in 1 .. MaxChanges + 1 : entries[k] = P!Whole(v)
        /\ k \in stable => entries[k] = P!Whole(object[k])

\* The rows, the caller and its steps agree.
StepInv ==
    /\ op = "none" <=> zipPc = "idle"
    /\ op = "run" <=> zipStatus = "running"
    /\ op \in {"prefix", "zip"} => zipPc = "list" /\ zipStatus = "none" /\ downloads = {}
    /\ downloads # {} => zipPc = "idle" /\ zipStatus = "none"
    /\ zipPc \notin {"remove", "result"} => zipErr = "none"
    /\ zipPc = "remove" => zipErr # "none"
    /\ zipPc \in {"read", "write"} => todo # {}
    /\ zipPc \in {"idle", "list"} => todo = {}
    /\ zipPc \in {"idle", "list", "create"} => getting = P!Absent /\ buf = <<>>
    /\ stable \cap Placeholders = {}

\* What was not touched since the listing began is listed up to the token.
ListingInv ==
    /\ zipPc = "list" => \A k \in stable : k <= token => k \in keys
    /\ zipPc = "create" => stable \subseteq keys /\ todo = keys
    /\ Writing \/ Written => stable \subseteq todo \cup DOMAIN entries
    /\ downloads # {} /\ ~partial => stable \subseteq downloads

\* The buffer holds data of one object.
BufferInv ==
    /\ buf \in Seq({getting})
    /\ zipPc \in {"read", "write"} =>
         /\ getting \in 1 .. MaxChanges + 1
         /\ P!Current \in stable => object[P!Current] = getting
    /\ zipPc = "write" => Len(buf) = Chunks

ArchiveInv ==
    /\ Writing => file = "partial" /\ EntriesAreObjects
    /\ Written => todo = {} /\ file = "complete" /\ EntriesAreObjects
    /\ zipStatus = "completed" =>
         file = "complete" /\ EntriesAreObjects /\ stable \subseteq DOMAIN entries
    /\ file = "partial" =>
         Writing \/ zipPc = "remove" \/ left \/ zipCrashes > 0

PrefixInv ==
    P!TypeOK /\ StepInv /\ ListingInv /\ BufferInv /\ ArchiveInv

-----------------------------------------------------------------------------
(* The steps of a download of a prefix *)

\* The instance's finite sets are the library's.
LEMMA SameFinite == \A S : P!IsFiniteSet(S) <=> IsFiniteSet(S)
BY DEF P!IsFiniteSet, IsFiniteSet

LEMMA SameCardinality == \A S : P!Cardinality(S) = Cardinality(S)
BY DEF P!Cardinality, Cardinality

LEMMA KeysAreNumbers == Keys \subseteq Nat \ {0} /\ IsFiniteSet(Keys)
BY DownloadsAssumption, SameFinite DEF P!PrefixAssumption

LEMMA PrefixConstants ==
    /\ Placeholders \subseteq Keys
    /\ PageSize \in Nat \ {0} /\ Chunks \in Nat \ {0}
    /\ MaxChanges \in Nat /\ MaxFaults \in Nat /\ MaxPrefixCalls \in Nat /\ MaxCrashes \in Nat
BY DownloadsAssumption DEF P!PrefixAssumption

LEMMA NothingYet == Len(<<>>) = 0 /\ DOMAIN P!NoEntries = {}
BY DEF P!NoEntries

\* The current object is one that is still to be written.
LEMMA CurrentIsNext == ASSUME P!TypeOK, todo # {} PROVE P!Current \in todo /\ P!Current \in Keys
<1>1. todo \subseteq Keys /\ todo \in SUBSET Nat
  BY KeysAreNumbers DEF P!TypeOK
<1> QED
  BY <1>1, MinIsLeast DEF P!Current

\* A page holds the first of the keys that are left.
LEMMA PageIsFirst ==
    /\ P!Rest \subseteq Keys /\ P!Page \subseteq P!Rest
    /\ \A k \in P!Rest \ P!Page : \A i \in P!Page : i < k
    /\ P!Page # P!Rest => P!Max(P!Page) \in P!Page /\ \A k \in P!Page : k <= P!Max(P!Page)
<1>. DEFINE n == P!Min({PageSize, Cardinality(P!Rest)})
<1>1. P!Rest \subseteq Keys /\ P!Rest \in SUBSET Nat
  BY KeysAreNumbers DEF P!Rest, P!Present
<1>2. IsFiniteSet(P!Rest) /\ Cardinality(P!Rest) \in Nat
  BY <1>1, KeysAreNumbers, FS_Subset, FS_CardinalityType
<1>3. PageSize \in Nat /\ PageSize > 0
  BY PrefixConstants
<1>4. /\ n \in {PageSize, Cardinality(P!Rest)}
      /\ n <= PageSize /\ n <= Cardinality(P!Rest)
  <2>1. {PageSize, Cardinality(P!Rest)} \in SUBSET Nat
    BY <1>2, <1>3
  <2> QED
    BY <2>1, MinIsLeast
<1>. HIDE DEF n
<1>5. n \in 0 .. Cardinality(P!Rest)
  BY <1>2, <1>3, <1>4
<1>6. First(P!Rest, n) # {}
  BY <1>1, <1>2, <1>5, FirstExist
<1>7. P!Page \in First(P!Rest, n)
  <2>1. \E page \in SUBSET P!Rest :
            /\ Cardinality(page) = n
            /\ \A k \in P!Rest \ page : \A i \in page : i < k
    BY <1>6 DEF First
  <2>2. P!Page = CHOOSE page \in SUBSET P!Rest :
            /\ Cardinality(page) = n
            /\ \A k \in P!Rest \ page : \A i \in page : i < k
    BY SameCardinality DEF P!Page, n
  <2> QED
    BY <2>1, <2>2 DEF First
<1>8. /\ P!Page \in SUBSET P!Rest /\ Cardinality(P!Page) = n
      /\ \A k \in P!Rest \ P!Page : \A i \in P!Page : i < k
  BY <1>7 DEF First
<1>9. ASSUME P!Page # P!Rest
      PROVE  P!Max(P!Page) \in P!Page /\ \A k \in P!Page : k <= P!Max(P!Page)
  <2>1. n # Cardinality(P!Rest)
    BY <1>2, <1>8, <1>9, FS_Subset
  <2>2. Cardinality(P!Page) > 0
    BY <1>3, <1>4, <1>8, <2>1
  <2>3. P!Page # {}
    BY <2>2, FS_EmptySet
  <2>4. P!Page \in SUBSET Nat /\ IsFiniteSet(P!Page)
    BY <1>1, <1>2, <1>8, FS_Subset
  <2> QED
    BY <2>3, <2>4, MaxIsGreatest
<1> QED
  BY <1>1, <1>8, <1>9

LEMMA PrefixTypeStep ==
    ASSUME P!TypeOK, StepInv, BufferInv, [P!Next]_(P!vars)
    PROVE  P!TypeOK'
<1>0. /\ faults \in 0 .. MaxFaults /\ zipCrashes \in 0 .. MaxCrashes /\ Len(buf) <= Chunks
      /\ getting \in 0 .. MaxChanges + 1 /\ DOMAIN entries \subseteq Keys
      /\ file \in {"none", "partial", "complete"} /\ left \in BOOLEAN
      /\ todo \subseteq keys /\ keys \subseteq Keys \ Placeholders /\ token \in Keys \cup {0}
      /\ object \in [Keys -> 0 .. MaxChanges + 1]
  BY DEF P!TypeOK, P!NoFile
<1>. USE KeysAreNumbers
<1>1. CASE P!QueueDownloadPrefix
  BY <1>1, PrefixConstants, NothingYet
  DEF P!QueueDownloadPrefix, P!BeginListing, P!QueueUnchanged, P!row, P!archive, P!reading,
      P!result, P!bounds, P!Present, StepInv, P!Absent, P!NoFile, P!TypeOK
<1>2. ASSUME NEW root \in BOOLEAN, P!QueueDownloadPrefixZip(root) PROVE P!TypeOK'
  BY <1>2, PrefixConstants, NothingYet
  DEF P!QueueDownloadPrefixZip, P!BeginListing, P!archive, P!reading, P!result, P!bounds,
      P!Present, StepInv, P!Absent, P!NoFile, P!TypeOK
<1>3. CASE P!Start
  BY <1>3, PrefixConstants, NothingYet
  DEF P!Start, P!BeginListing, P!archive, P!reading, P!listing, P!bounds, P!Present, StepInv,
      P!Absent, P!NoFile, P!TypeOK
<1>4. CASE P!ListPage
  BY <1>4, PrefixConstants, NothingYet, PageIsFirst
  DEF P!ListPage, P!Listed, P!Idle, P!bucket, P!archive, P!bounds, P!reading, P!result,
      P!Present, StepInv, P!Absent, P!NoFile, P!TypeOK, P!Found
<1>5. CASE P!ListFails
  <2>1. faults' \in 0 .. MaxFaults
    BY <1>0, <1>5, PrefixConstants DEF P!ListFails, P!Fault
  <2>2. /\ UNCHANGED <<object, changes, stable, zipCalls, zipCrashes>>
        /\ UNCHANGED <<rooted, file, entries, left>>
        /\ P!Listed(keys, FALSE)
    BY <1>5 DEF P!ListFails, P!bucket, P!archive
  <2>3. Len(buf') <= Chunks
    BY <1>0, <2>2, PrefixConstants, NothingYet DEF P!Listed, P!Idle
  <2>4. /\ getting' \in {0, getting} /\ token' \in {0, token}
        /\ todo' \subseteq keys' /\ keys' \in {{}, keys}
    BY <2>2 DEF P!Listed, P!Idle, P!Absent
  <2>8. getting' \in 0 .. MaxChanges + 1
    BY <1>0, <2>4, PrefixConstants
  <2>9. P!Present' = P!Present
    BY <2>2 DEF P!Present
  <2>5. /\ zipStatus' \in {"none", zipStatus} /\ downloads' \in {keys, downloads}
        /\ partial' \in BOOLEAN
    BY <2>2 DEF P!Listed, P!Idle, P!TypeOK
  <2>6. /\ zipPc' \in {"idle", "result"} /\ op' \in {"none", op}
        /\ zipErr' \in {"none", "failed"} /\ intent' \in {"none", intent}
    BY <2>2 DEF P!Listed, P!Idle
  <2>7. zipCanceled' \in BOOLEAN
    BY <2>2 DEF P!Listed, P!Idle, P!TypeOK
  <2>10. /\ object' \in [Keys -> 0 .. MaxChanges + 1] /\ changes' \in 0 .. MaxChanges
         /\ stable' \subseteq P!Present'
         /\ rooted' \in BOOLEAN /\ left' \in BOOLEAN
         /\ file' \in {P!NoFile, "partial", "complete"}
         /\ DOMAIN entries' \subseteq Keys
         /\ zipCalls' \in 0 .. MaxPrefixCalls /\ zipCrashes' \in 0 .. MaxCrashes
    BY <2>2, <2>9 DEF P!TypeOK
  <2>11. /\ downloads' \subseteq Keys
         /\ keys' \subseteq Keys \ Placeholders /\ token' \in Keys \cup {0}
    BY <1>0, <2>4, <2>5 DEF P!TypeOK
  <2>12. /\ zipStatus' \in {"none", "pending", "running", "paused", "failed",
                            "completed", "cancelled"}
         /\ zipPc' \in {"idle", "result"} /\ op' \in {"none", "prefix", "zip", "run"}
         /\ zipErr' \in {"none", "failed"} /\ intent' \in {"none", "cancel"}
    BY <2>5, <2>6 DEF P!TypeOK
  <2> QED
    BY <2>1, <2>3, <2>4, <2>5, <2>7, <2>8, <2>10, <2>11, <2>12 DEF P!TypeOK
<1>6. CASE P!CreateArchive
  <2>1. Len(buf') <= Chunks
    BY <1>0, <1>6, PrefixConstants, NothingYet
    DEF P!CreateArchive, P!Fault, P!archive, P!reading, P!RunUnchanged, P!bucket, P!row,
        P!listing
  <2> QED
    BY <1>6, <2>1, PrefixConstants, NothingYet
    DEF P!CreateArchive, P!Fault, P!archive, P!reading, P!RunUnchanged, P!bucket, P!row,
        P!listing, P!Present, StepInv, P!Absent, P!NoFile, P!TypeOK
<1>7. CASE P!GetObject
  <2>1. Len(buf') <= Chunks
    BY <1>0, <1>7, PrefixConstants, NothingYet DEF P!GetObject
  <2>2. getting' \in 0 .. MaxChanges + 1 /\ zipPc' = "read"
        /\ UNCHANGED <<todo, file, entries, zipErr, left, faults, P!RunUnchanged>>
    BY <1>0, <1>7, CurrentIsNext DEF P!GetObject, P!archive
  <2> QED
    BY <2>1, <2>2 DEF P!RunUnchanged, P!bucket, P!row, P!listing, P!Present, P!TypeOK
<1>8. CASE P!ReadChunk
  <2>1. Len(buf') = Len(buf) + 1 /\ Len(buf) \in Nat
    BY <1>8 DEF P!ReadChunk, BufferInv
  <2>2. Len(buf') <= Chunks
    BY <1>8, <2>1, PrefixConstants DEF P!ReadChunk
  <2> QED
    BY <1>8, <2>2
    DEF P!ReadChunk, P!archive, P!RunUnchanged, P!bucket, P!row, P!listing, P!Present, P!TypeOK
<1>9. CASE P!BreakOff
  BY <1>9, PrefixConstants, NothingYet
  DEF P!BreakOff, P!Fault, P!reading, P!archive, P!RunUnchanged, P!bucket, P!row, P!listing,
      P!Present, StepInv, P!Absent, P!NoFile, P!TypeOK
<1>10. CASE P!Fetched
  BY <1>10, PrefixConstants, NothingYet
  DEF P!Fetched, P!reading, P!archive, P!RunUnchanged, P!bucket, P!row, P!listing, P!Present,
      StepInv, P!Absent, P!NoFile, P!TypeOK
<1>11. CASE P!GetFails
  BY <1>11, PrefixConstants, NothingYet
  DEF P!GetFails, P!Fault, P!reading, P!archive, P!RunUnchanged, P!bucket, P!row, P!listing,
      P!Present, StepInv, P!Absent, P!NoFile, P!TypeOK
<1>12. CASE P!WriteEntry
  <2>1. CASE /\ entries' = [i \in DOMAIN entries \cup {P!Current} |->
                           IF i = P!Current THEN buf ELSE entries[i]]
             /\ todo' = todo \ {P!Current} /\ getting' = P!Absent /\ buf' = <<>>
             /\ zipPc' = "get" /\ UNCHANGED <<zipErr, faults>>
    <3>1. DOMAIN entries' \subseteq Keys
      BY <1>0, <1>12, <2>1, CurrentIsNext DEF P!WriteEntry, StepInv
    <3>3. Len(buf') <= Chunks
      BY <1>0, <2>1, PrefixConstants, NothingYet 
    <3>4. getting' \in 0 .. MaxChanges + 1
      BY <1>0, <2>1, PrefixConstants DEF P!Absent
    <3>2. todo' \subseteq keys
      BY <1>0, <2>1
    <3> QED
      BY <1>12, <2>1, <3>1, <3>2, <3>3, <3>4
      DEF P!WriteEntry, P!RunUnchanged, P!bucket, P!row, P!listing, P!Present, P!TypeOK
  <2>2. CASE /\ P!Fault /\ zipErr' = "failed" /\ zipPc' = "remove"
             /\ UNCHANGED <<entries, todo, getting, buf>>
    <3>1. faults' \in 0 .. MaxFaults
      BY <1>0, <2>2, PrefixConstants DEF P!Fault
    <3> QED
      BY <1>12, <2>2, <3>1
      DEF P!WriteEntry, P!RunUnchanged, P!bucket, P!row, P!listing, P!Present, P!TypeOK
  <2> QED
    BY <1>12, <2>1, <2>2 DEF P!WriteEntry, P!reading
<1>13. CASE P!CloseArchive
  <2>1. faults' \in 0 .. MaxFaults
    BY <1>0, <1>13, PrefixConstants DEF P!CloseArchive, P!Fault
  <2>2. file' \in {"none", "partial", "complete"} /\ zipErr' \in {zipErr, "failed"}
    BY <1>0, <1>13 DEF P!CloseArchive
  <2> QED
    BY <1>13, <2>1, <2>2
    DEF P!CloseArchive, P!reading, P!RunUnchanged, P!bucket, P!row, P!listing,
       P!NoFile, P!Present, P!TypeOK
<1>14. CASE P!RemoveArchive
  <2>3. faults' \in 0 .. MaxFaults
    BY <1>0, <1>14, PrefixConstants DEF P!RemoveArchive, P!Fault
  <2>4. left' \in BOOLEAN
    BY <1>0, <1>14 DEF P!RemoveArchive
  <2>5. UNCHANGED <<todo, getting, buf, zipErr, P!RunUnchanged>> /\ zipPc' = "result"
    BY <1>14 DEF P!RemoveArchive, P!reading
  <2>2. file' \in {"none", "partial", "complete"} /\ DOMAIN entries' \subseteq Keys
    BY <1>0, <1>14, NothingYet DEF P!RemoveArchive, P!archive, P!NoFile
  <2> QED
    BY <2>2, <2>3, <2>4, <2>5
    DEF P!RunUnchanged, P!bucket, P!row, P!listing, P!NoFile, P!Present, P!TypeOK
<1>15. CASE P!HandleResult
  <2>1. Len(buf') <= Chunks
    BY <1>0, <1>15, PrefixConstants, NothingYet
    DEF P!HandleResult, P!Idle, P!bucket, P!archive, P!bounds
  <2>2. /\ getting' \in 0 .. MaxChanges + 1 /\ token' \in Keys \cup {0}
        /\ todo' \subseteq keys' /\ keys' \subseteq Keys \ Placeholders
    BY <1>0, <1>15, PrefixConstants
    DEF P!HandleResult, P!Idle, P!bucket, P!archive, P!bounds, P!Absent
  <2>3. faults' \in 0 .. MaxFaults /\ zipCrashes' \in 0 .. MaxCrashes
    BY <1>0, <1>15, PrefixConstants DEF P!HandleResult, P!Idle, P!bucket, P!archive, P!bounds
  <2> QED
    BY <1>15, <2>1, <2>2, <2>3
    DEF P!HandleResult, P!Idle, P!bucket, P!archive, P!bounds, P!NoFile, P!Present, P!TypeOK
<1>16. CASE P!CancelRunning
  BY <1>16, PrefixConstants, NothingYet
  DEF P!CancelRunning, P!CallUnchanged, P!bucket, P!archive, P!listing, P!reading, P!Present,
      StepInv, P!Absent, P!NoFile, P!TypeOK
<1>17. CASE P!CancelAtRest
  BY <1>17, PrefixConstants, NothingYet
  DEF P!CancelAtRest, P!CallUnchanged, P!bucket, P!archive, P!listing, P!reading, P!result,
      P!Present, StepInv, P!Absent, P!NoFile, P!TypeOK
<1>18. CASE P!MakePending
  BY <1>18, PrefixConstants, NothingYet
  DEF P!MakePending, P!CallUnchanged, P!bucket, P!archive, P!listing, P!reading, P!result,
      P!Present, StepInv, P!Absent, P!NoFile, P!TypeOK
<1>19. ASSUME NEW k \in Keys, P!Change(k) PROVE P!TypeOK'
  BY <1>19, PrefixConstants, NothingYet
  DEF P!Change, P!row, P!archive, P!listing, P!reading, P!result, P!bounds, P!Present, StepInv,
      P!Absent, P!NoFile, P!TypeOK
<1>20. CASE P!Crash
  <2>1. Len(buf') <= Chunks
    BY <1>0, <1>20, PrefixConstants, NothingYet DEF P!Crash, P!Idle, P!bucket, P!archive
  <2>2. /\ getting' \in 0 .. MaxChanges + 1 /\ token' \in Keys \cup {0}
        /\ todo' \subseteq keys' /\ keys' \subseteq Keys \ Placeholders
    BY <1>0, <1>20, PrefixConstants DEF P!Crash, P!Idle, P!bucket, P!archive, P!Absent
  <2>3. faults' \in 0 .. MaxFaults /\ zipCrashes' \in 0 .. MaxCrashes
    BY <1>0, <1>20, PrefixConstants DEF P!Crash, P!Idle, P!bucket, P!archive
  <2> QED
    BY <1>20, <2>1, <2>2, <2>3
    DEF P!Crash, P!Idle, P!bucket, P!archive, P!NoFile, P!Present, P!TypeOK
<1>21. CASE UNCHANGED P!vars
  BY <1>21, PrefixConstants, NothingYet
  DEF P!vars, P!bucket, P!row, P!archive, P!listing, P!reading, P!result, P!bounds, P!Present,
      StepInv, P!Absent, P!NoFile, P!TypeOK
<1> QED
  BY <1>1, <1>2, <1>3, <1>4, <1>5, <1>6, <1>7, <1>8, <1>9, <1>10, <1>11, <1>12, <1>13, <1>14,
     <1>15, <1>16, <1>17, <1>18, <1>19, <1>20, <1>21 DEF P!Next, P!Work

LEMMA StepInvStep ==
    ASSUME P!TypeOK, StepInv, [P!Next]_(P!vars)
    PROVE  StepInv'
<1>0. /\ op \in {"none", "prefix", "zip", "run"} /\ intent \in {"none", "cancel"}
      /\ zipErr \in {"none", "failed", "canceled"}
  BY DEF P!TypeOK
<1>1. CASE P!QueueDownloadPrefix
  BY <1>0, <1>1
  DEF P!QueueDownloadPrefix, P!BeginListing, P!QueueUnchanged, P!row, P!archive, P!reading,
      P!result, P!bounds, StepInv
<1>2. ASSUME NEW root \in BOOLEAN, P!QueueDownloadPrefixZip(root) PROVE StepInv'
  BY <1>0, <1>2
  DEF P!QueueDownloadPrefixZip, P!BeginListing, P!archive, P!reading, P!result, P!bounds,
      StepInv
<1>3. CASE P!Start
  BY <1>0, <1>3 DEF P!Start, P!BeginListing, P!archive, P!reading, P!listing, P!bounds, StepInv
<1>4. CASE P!ListPage
  BY <1>0, <1>4
  DEF P!ListPage, P!Listed, P!Idle, P!bucket, P!archive, P!bounds, P!reading, P!result, StepInv
<1>5. CASE P!ListFails
  BY <1>0, <1>5 DEF P!ListFails, P!Listed, P!Idle, P!Fault, P!bucket, P!archive, StepInv
<1>6. CASE P!CreateArchive
  BY <1>0, <1>6
  DEF P!CreateArchive, P!Fault, P!archive, P!reading, P!RunUnchanged, P!bucket, P!row,
      P!listing, StepInv
<1>7. CASE P!GetObject
  BY <1>0, <1>7 DEF P!GetObject, P!archive, P!RunUnchanged, P!bucket, P!row, P!listing, StepInv
<1>8. CASE P!ReadChunk
  BY <1>0, <1>8 DEF P!ReadChunk, P!archive, P!RunUnchanged, P!bucket, P!row, P!listing, StepInv
<1>9. CASE P!BreakOff
  BY <1>0, <1>9
  DEF P!BreakOff, P!Fault, P!reading, P!archive, P!RunUnchanged, P!bucket, P!row, P!listing,
      StepInv
<1>10. CASE P!Fetched
  BY <1>0, <1>10
  DEF P!Fetched, P!reading, P!archive, P!RunUnchanged, P!bucket, P!row, P!listing, StepInv
<1>11. CASE P!GetFails
  BY <1>0, <1>11
  DEF P!GetFails, P!Fault, P!reading, P!archive, P!RunUnchanged, P!bucket, P!row, P!listing,
      StepInv
<1>12. CASE P!WriteEntry
  BY <1>0, <1>12
  DEF P!WriteEntry, P!Fault, P!reading, P!RunUnchanged, P!bucket, P!row, P!listing, StepInv
<1>13. CASE P!CloseArchive
  BY <1>0, <1>13
  DEF P!CloseArchive, P!Fault, P!reading, P!RunUnchanged, P!bucket, P!row, P!listing, StepInv
<1>14. CASE P!RemoveArchive
  BY <1>0, <1>14
  DEF P!RemoveArchive, P!Fault, P!archive, P!reading, P!RunUnchanged, P!bucket, P!row,
      P!listing, StepInv
<1>15. CASE P!HandleResult
  BY <1>0, <1>15 DEF P!HandleResult, P!Idle, P!bucket, P!archive, P!bounds, StepInv
<1>16. CASE P!CancelRunning
  BY <1>0, <1>16
  DEF P!CancelRunning, P!CallUnchanged, P!bucket, P!archive, P!listing, P!reading, StepInv
<1>17. CASE P!CancelAtRest
  BY <1>0, <1>17
  DEF P!CancelAtRest, P!CallUnchanged, P!bucket, P!archive, P!listing, P!reading, P!result,
      StepInv
<1>18. CASE P!MakePending
  BY <1>0, <1>18
  DEF P!MakePending, P!CallUnchanged, P!bucket, P!archive, P!listing, P!reading, P!result,
      StepInv
<1>19. ASSUME NEW k \in Keys, P!Change(k) PROVE StepInv'
  BY <1>0, <1>19
  DEF P!Change, P!row, P!archive, P!listing, P!reading, P!result, P!bounds, StepInv
<1>20. CASE P!Crash
  BY <1>0, <1>20 DEF P!Crash, P!Idle, P!bucket, P!archive, StepInv
<1>21. CASE UNCHANGED P!vars
  BY <1>0, <1>21
  DEF P!vars, P!bucket, P!row, P!archive, P!listing, P!reading, P!result, P!bounds, StepInv
<1> QED
  BY <1>1, <1>2, <1>3, <1>4, <1>5, <1>6, <1>7, <1>8, <1>9, <1>10, <1>11, <1>12, <1>13, <1>14,
     <1>15, <1>16, <1>17, <1>18, <1>19, <1>20, <1>21 DEF P!Next, P!Work

LEMMA BufferStep ==
    ASSUME P!TypeOK, StepInv, BufferInv, [P!Next]_(P!vars)
    PROVE  BufferInv'
<1>. USE PrefixConstants, NothingYet
<1>1. CASE P!QueueDownloadPrefix
  BY <1>1
  DEF P!QueueDownloadPrefix, P!BeginListing, P!QueueUnchanged, P!row, P!archive, P!reading,
      P!result, P!bounds, StepInv, BufferInv, P!Current, P!TypeOK, P!Absent
<1>2. ASSUME NEW root \in BOOLEAN, P!QueueDownloadPrefixZip(root) PROVE BufferInv'
  BY <1>2
  DEF P!QueueDownloadPrefixZip, P!BeginListing, P!archive, P!reading, P!result, P!bounds,
      StepInv, BufferInv, P!Current, P!TypeOK, P!Absent
<1>3. CASE P!Start
  BY <1>3
  DEF P!Start, P!BeginListing, P!archive, P!reading, P!listing, P!bounds, StepInv, BufferInv,
      P!Current, P!TypeOK, P!Absent
<1>4. CASE P!ListPage
  BY <1>4
  DEF P!ListPage, P!Listed, P!Idle, P!bucket, P!archive, P!bounds, P!reading, P!result,
      StepInv, BufferInv, P!Current, P!TypeOK, P!Absent
<1>5. CASE P!ListFails
  BY <1>5
  DEF P!ListFails, P!Listed, P!Idle, P!Fault, P!bucket, P!archive, StepInv, BufferInv,
      P!Current, P!TypeOK, P!Absent
<1>6. CASE P!CreateArchive
  BY <1>6
  DEF P!CreateArchive, P!Fault, P!archive, P!reading, P!RunUnchanged, P!bucket, P!row,
      P!listing, StepInv, BufferInv, P!Current, P!TypeOK, P!Absent
<1>7. CASE P!GetObject
  BY <1>7, CurrentIsNext
  DEF P!GetObject, P!archive, P!RunUnchanged, P!bucket, P!row, P!listing, StepInv, BufferInv,
      P!Current, P!TypeOK, P!Absent
<1>8. CASE P!ReadChunk
  BY <1>8
  DEF P!ReadChunk, P!archive, P!RunUnchanged, P!bucket, P!row, P!listing, StepInv, BufferInv,
      P!Current, P!TypeOK, P!Absent
<1>9. CASE P!BreakOff
  BY <1>9
  DEF P!BreakOff, P!Fault, P!reading, P!archive, P!RunUnchanged, P!bucket, P!row, P!listing,
      StepInv, BufferInv, P!Current, P!TypeOK, P!Absent
<1>10. CASE P!Fetched
  BY <1>10
  DEF P!Fetched, P!reading, P!archive, P!RunUnchanged, P!bucket, P!row, P!listing, StepInv,
      BufferInv, P!Current, P!TypeOK, P!Absent
<1>11. CASE P!GetFails
  BY <1>11
  DEF P!GetFails, P!Fault, P!reading, P!archive, P!RunUnchanged, P!bucket, P!row, P!listing,
      StepInv, BufferInv, P!Current, P!TypeOK, P!Absent
<1>12. CASE P!WriteEntry
  <2>1. CASE zipPc' = "remove"
    BY <1>12, <2>1 DEF P!WriteEntry, P!reading, BufferInv
  <2>2. CASE zipPc' = "get"
    <3>1. buf' = <<>> /\ buf' \in Seq({getting'})
      BY <1>12, <2>2 DEF P!WriteEntry
    <3> QED
      BY <2>2, <3>1 DEF BufferInv
  <2> QED
    BY <1>12, <2>1, <2>2 DEF P!WriteEntry
<1>13. CASE P!CloseArchive
  BY <1>13
  DEF P!CloseArchive, P!Fault, P!reading, P!RunUnchanged, P!bucket, P!row, P!listing, StepInv,
      BufferInv, P!Current, P!TypeOK, P!Absent
<1>14. CASE P!RemoveArchive
  BY <1>14
  DEF P!RemoveArchive, P!Fault, P!archive, P!reading, P!RunUnchanged, P!bucket, P!row,
      P!listing, StepInv, BufferInv, P!Current, P!TypeOK, P!Absent
<1>15. CASE P!HandleResult
  BY <1>15
  DEF P!HandleResult, P!Idle, P!bucket, P!archive, P!bounds, StepInv, BufferInv, P!Current,
      P!TypeOK, P!Absent
<1>16. CASE P!CancelRunning
  BY <1>16
  DEF P!CancelRunning, P!CallUnchanged, P!bucket, P!archive, P!listing, P!reading, StepInv,
      BufferInv, P!Current, P!TypeOK, P!Absent
<1>17. CASE P!CancelAtRest
  BY <1>17
  DEF P!CancelAtRest, P!CallUnchanged, P!bucket, P!archive, P!listing, P!reading, P!result,
      StepInv, BufferInv, P!Current, P!TypeOK, P!Absent
<1>18. CASE P!MakePending
  BY <1>18
  DEF P!MakePending, P!CallUnchanged, P!bucket, P!archive, P!listing, P!reading, P!result,
      StepInv, BufferInv, P!Current, P!TypeOK, P!Absent
<1>19. ASSUME NEW k \in Keys, P!Change(k) PROVE BufferInv'
  BY <1>19, CurrentIsNext
  DEF P!Change, P!row, P!archive, P!listing, P!reading, P!result, P!bounds, StepInv, BufferInv,
      P!Current, P!TypeOK, P!Absent
<1>20. CASE P!Crash
  BY <1>20
  DEF P!Crash, P!Idle, P!bucket, P!archive, StepInv, BufferInv, P!Current, P!TypeOK, P!Absent
<1>21. CASE UNCHANGED P!vars
  BY <1>21
  DEF P!vars, P!bucket, P!row, P!archive, P!listing, P!reading, P!result, P!bounds, StepInv,
      BufferInv, P!Current, P!TypeOK, P!Absent
<1> QED
  BY <1>1, <1>2, <1>3, <1>4, <1>5, <1>6, <1>7, <1>8, <1>9, <1>10, <1>11, <1>12, <1>13, <1>14,
     <1>15, <1>16, <1>17, <1>18, <1>19, <1>20, <1>21 DEF P!Next, P!Work

LEMMA ListingStep ==
    ASSUME P!TypeOK, StepInv, ListingInv, [P!Next]_(P!vars)
    PROVE  ListingInv'
<1>. USE KeysAreNumbers, PrefixConstants, NothingYet DEF Writing, Written
<1>0. \A k \in Keys : ~ (k <= 0)
  OBVIOUS
<1>b. ASSUME NEW what, P!BeginListing(what) PROVE \A k \in stable' : ~ (k <= token')
  <2>1. token' = 0 /\ stable' \subseteq Keys
    BY <1>b DEF P!BeginListing, P!Present
  <2> QED
    BY <1>0, <2>1
<1>1. CASE P!QueueDownloadPrefix
  <2>1. P!BeginListing("prefix") /\ UNCHANGED <<downloads, entries>>
    BY <1>1
    DEF P!QueueDownloadPrefix, P!BeginListing, P!QueueUnchanged, P!row, P!archive, P!reading,
        P!result, P!bounds
  <2>2. zipPc' = "list" /\ downloads' = {}
    BY <1>1, <2>1
    DEF P!BeginListing, P!QueueDownloadPrefix, P!BeginListing, P!QueueUnchanged, P!row,
        P!archive, P!reading, P!result, P!bounds
  <2> QED
    BY <1>b, <2>1, <2>2 DEF ListingInv
<1>2. ASSUME NEW root \in BOOLEAN, P!QueueDownloadPrefixZip(root) PROVE ListingInv'
  <2>1. P!BeginListing("zip") /\ UNCHANGED <<downloads, entries>>
    BY <1>2
    DEF P!QueueDownloadPrefixZip, P!BeginListing, P!archive, P!reading, P!result, P!bounds
  <2>2. zipPc' = "list" /\ downloads' = {}
    BY <1>2, <2>1
    DEF P!BeginListing, P!QueueDownloadPrefixZip, P!BeginListing, P!archive, P!reading,
        P!result, P!bounds
  <2> QED
    BY <1>b, <2>1, <2>2 DEF ListingInv
<1>3. CASE P!Start
  <2>1. CASE rooted
    <3>1. /\ zipPc' = "result" /\ zipErr' = "failed" /\ UNCHANGED <<stable, downloads, partial>>
      BY <1>3, <2>1 DEF P!Start
    <3> QED
      BY <3>1 DEF ListingInv
  <2>2. CASE ~rooted
    <3>1. P!BeginListing("run") /\ downloads' = downloads /\ zipStatus = "pending"
      BY <1>3, <2>2 DEF P!Start
    <3>2. zipPc' = "list" /\ downloads' = {}
      BY <3>1 DEF P!BeginListing, StepInv
    <3> QED
      BY <1>b, <3>1, <3>2 DEF ListingInv
  <2> QED
    BY <2>1, <2>2
<1>4. CASE P!ListPage
  <2>0. zipPc = "list" /\ UNCHANGED <<object, changes, stable>> /\ downloads = {}
    BY <1>4 DEF P!ListPage, P!bucket, StepInv
  <2>1. stable \subseteq P!Present /\ P!Present \subseteq Keys /\ stable \cap Placeholders = {}
        /\ token \in Nat
    BY DEF P!TypeOK, P!Present, StepInv
  <2>2. \A k \in stable : k <= token \/ k \in P!Rest
    BY <2>1 DEF P!Rest
  <2>3. \A k \in stable : k <= token => k \in keys
    BY <2>0 DEF ListingInv
  <2>4. CASE P!Page = P!Rest /\ P!Listed(P!Found, TRUE)
    <3>1. stable \subseteq P!Found
      BY <2>1, <2>2, <2>3, <2>4 DEF P!Found
    <3>2. CASE op = "run"
      <4>1. keys' = P!Found /\ todo' = P!Found /\ zipPc' = "create" /\ downloads' = downloads
        BY <2>4, <3>2 DEF P!Listed
      <4> QED
        BY <2>0, <3>1, <4>1 DEF ListingInv
    <3>3. CASE op = "zip"
      <4>1. zipPc' = "idle" /\ downloads' = downloads
        BY <2>4, <3>3 DEF P!Listed, P!Idle
      <4> QED
        BY <2>0, <4>1 DEF ListingInv
    <3>4. CASE op = "prefix"
      <4>1. zipPc' = "idle" /\ downloads' = P!Found
        BY <2>4, <3>4 DEF P!Listed, P!Idle
      <4> QED
        BY <2>0, <3>1, <4>1 DEF ListingInv
    <3> QED
      BY <2>4, <3>2, <3>3, <3>4 DEF P!Listed
  <2>5. CASE P!Page # P!Rest /\ keys' = P!Found /\ token' = P!Max(P!Page)
             /\ UNCHANGED <<zipPc, downloads>>
    <3>1. /\ P!Rest \subseteq Keys /\ P!Page \subseteq P!Rest
          /\ P!Max(P!Page) \in P!Page
          /\ \A k \in P!Rest \ P!Page : P!Max(P!Page) < k
      BY <2>5, PageIsFirst
    <3>2. ASSUME NEW k \in stable, k <= token' PROVE k \in keys'
      <4>1. CASE k <= token
        BY <2>3, <2>5, <4>1 DEF P!Found
      <4>2. CASE k \in P!Rest
        <5>1. k \in P!Page
          <6>1. k \in Nat /\ P!Max(P!Page) \in Nat /\ k <= P!Max(P!Page)
            BY <2>1, <2>5, <3>1, <3>2
          <6>2. ~ (P!Max(P!Page) < k)
            BY <6>1
          <6> QED
            BY <3>1, <4>2, <6>2
        <5> QED
          BY <2>1, <2>5, <5>1 DEF P!Found
      <4> QED
        BY <2>2, <4>1, <4>2
    <3> QED
      BY <2>0, <2>5, <3>2 DEF ListingInv
  <2> QED
    BY <1>4, <2>4, <2>5 DEF P!ListPage
<1>5. CASE P!ListFails
  BY <1>5
  DEF P!ListFails, P!Listed, P!Idle, P!Fault, P!bucket, P!archive, StepInv, ListingInv, P!TypeOK
<1>6. CASE P!CreateArchive
  BY <1>6
  DEF P!CreateArchive, P!Fault, P!archive, P!reading, P!RunUnchanged, P!bucket, P!row,
      P!listing, StepInv, ListingInv, P!TypeOK
<1>7. CASE P!GetObject
  BY <1>7
  DEF P!GetObject, P!archive, P!RunUnchanged, P!bucket, P!row, P!listing, StepInv, ListingInv,
      P!TypeOK
<1>8. CASE P!ReadChunk
  BY <1>8
  DEF P!ReadChunk, P!archive, P!RunUnchanged, P!bucket, P!row, P!listing, StepInv, ListingInv,
      P!TypeOK
<1>9. CASE P!BreakOff
  BY <1>9
  DEF P!BreakOff, P!Fault, P!reading, P!archive, P!RunUnchanged, P!bucket, P!row, P!listing,
      StepInv, ListingInv, P!TypeOK
<1>10. CASE P!Fetched
  BY <1>10
  DEF P!Fetched, P!reading, P!archive, P!RunUnchanged, P!bucket, P!row, P!listing, StepInv,
      ListingInv, P!TypeOK
<1>11. CASE P!GetFails
  BY <1>11
  DEF P!GetFails, P!Fault, P!reading, P!archive, P!RunUnchanged, P!bucket, P!row, P!listing,
      StepInv, ListingInv, P!TypeOK
<1>12. CASE P!WriteEntry
  BY <1>12, CurrentIsNext
  DEF P!WriteEntry, P!Fault, P!reading, P!RunUnchanged, P!bucket, P!row, P!listing, StepInv,
      ListingInv, P!TypeOK
<1>13. CASE P!CloseArchive
  BY <1>13
  DEF P!CloseArchive, P!Fault, P!reading, P!RunUnchanged, P!bucket, P!row, P!listing, StepInv,
      ListingInv, P!TypeOK
<1>14. CASE P!RemoveArchive
  BY <1>14
  DEF P!RemoveArchive, P!Fault, P!archive, P!reading, P!RunUnchanged, P!bucket, P!row,
      P!listing, StepInv, ListingInv, P!TypeOK
<1>15. CASE P!HandleResult
  BY <1>15
  DEF P!HandleResult, P!Idle, P!bucket, P!archive, P!bounds, StepInv, ListingInv, P!TypeOK
<1>16. CASE P!CancelRunning
  BY <1>16
  DEF P!CancelRunning, P!CallUnchanged, P!bucket, P!archive, P!listing, P!reading, StepInv,
      ListingInv, P!TypeOK
<1>17. CASE P!CancelAtRest
  BY <1>17
  DEF P!CancelAtRest, P!CallUnchanged, P!bucket, P!archive, P!listing, P!reading, P!result,
      StepInv, ListingInv, P!TypeOK
<1>18. CASE P!MakePending
  BY <1>18
  DEF P!MakePending, P!CallUnchanged, P!bucket, P!archive, P!listing, P!reading, P!result,
      StepInv, ListingInv, P!TypeOK
<1>19. ASSUME NEW k \in Keys, P!Change(k) PROVE ListingInv'
  BY <1>19
  DEF P!Change, P!row, P!archive, P!listing, P!reading, P!result, P!bounds, StepInv,
      ListingInv, P!TypeOK
<1>20. CASE P!Crash
  BY <1>20 DEF P!Crash, P!Idle, P!bucket, P!archive, StepInv, ListingInv, P!TypeOK
<1>21. CASE UNCHANGED P!vars
  BY <1>21
  DEF P!vars, P!bucket, P!row, P!archive, P!listing, P!reading, P!result, P!bounds, StepInv,
      ListingInv, P!TypeOK
<1> QED
  BY <1>1, <1>2, <1>3, <1>4, <1>5, <1>6, <1>7, <1>8, <1>9, <1>10, <1>11, <1>12, <1>13, <1>14,
     <1>15, <1>16, <1>17, <1>18, <1>19, <1>20, <1>21 DEF P!Next, P!Work

LEMMA ArchiveStep ==
    ASSUME P!TypeOK, StepInv, ListingInv, BufferInv, ArchiveInv, [P!Next]_(P!vars)
    PROVE  ArchiveInv'
<1>. USE KeysAreNumbers, PrefixConstants, NothingYet DEF Writing, Written
<1>1. CASE P!QueueDownloadPrefix
  BY <1>1
  DEF P!QueueDownloadPrefix, P!BeginListing, P!QueueUnchanged, P!row, P!archive, P!reading,
      P!result, P!bounds, StepInv, ListingInv, ArchiveInv, EntriesAreObjects, P!TypeOK
<1>2. ASSUME NEW root \in BOOLEAN, P!QueueDownloadPrefixZip(root) PROVE ArchiveInv'
  BY <1>2
  DEF P!QueueDownloadPrefixZip, P!BeginListing, P!archive, P!reading, P!result, P!bounds,
      StepInv, ListingInv, ArchiveInv, EntriesAreObjects, P!TypeOK
<1>3. CASE P!Start
  BY <1>3
  DEF P!Start, P!BeginListing, P!archive, P!reading, P!listing, P!bounds, StepInv, ListingInv,
      ArchiveInv, EntriesAreObjects, P!TypeOK
<1>4. CASE P!ListPage
  BY <1>4
  DEF P!ListPage, P!Listed, P!Idle, P!bucket, P!archive, P!bounds, P!reading, P!result,
      StepInv, ListingInv, ArchiveInv, EntriesAreObjects, P!TypeOK
<1>5. CASE P!ListFails
  BY <1>5
  DEF P!ListFails, P!Listed, P!Idle, P!Fault, P!bucket, P!archive, StepInv, ListingInv,
      ArchiveInv, EntriesAreObjects, P!TypeOK
<1>6. CASE P!CreateArchive
  BY <1>6
  DEF P!CreateArchive, P!Fault, P!archive, P!reading, P!RunUnchanged, P!bucket, P!row,
      P!listing, StepInv, ListingInv, ArchiveInv, EntriesAreObjects, P!TypeOK
<1>7. CASE P!GetObject
  BY <1>7
  DEF P!GetObject, P!archive, P!RunUnchanged, P!bucket, P!row, P!listing, StepInv, ListingInv,
      ArchiveInv, EntriesAreObjects, P!TypeOK
<1>8. CASE P!ReadChunk
  BY <1>8
  DEF P!ReadChunk, P!archive, P!RunUnchanged, P!bucket, P!row, P!listing, StepInv, ListingInv,
      ArchiveInv, EntriesAreObjects, P!TypeOK
<1>9. CASE P!BreakOff
  BY <1>9
  DEF P!BreakOff, P!Fault, P!reading, P!archive, P!RunUnchanged, P!bucket, P!row, P!listing,
      StepInv, ListingInv, ArchiveInv, EntriesAreObjects, P!TypeOK
<1>10. CASE P!Fetched
  BY <1>10
  DEF P!Fetched, P!reading, P!archive, P!RunUnchanged, P!bucket, P!row, P!listing, StepInv,
      ListingInv, ArchiveInv, EntriesAreObjects, P!TypeOK
<1>11. CASE P!GetFails
  BY <1>11
  DEF P!GetFails, P!Fault, P!reading, P!archive, P!RunUnchanged, P!bucket, P!row, P!listing,
      StepInv, ListingInv, ArchiveInv, EntriesAreObjects, P!TypeOK
<1>12. CASE P!WriteEntry
  <2>1. CASE /\ entries' = [i \in DOMAIN entries \cup {P!Current} |->
                           IF i = P!Current THEN buf ELSE entries[i]]
             /\ zipPc' = "get"
    <3>1. /\ zipPc = "write" /\ todo # {}
          /\ UNCHANGED <<object, stable, zipStatus, file, left, zipCrashes>>
      BY <1>12 DEF P!WriteEntry, StepInv, P!RunUnchanged, P!bucket, P!row
    <3>2. P!Current \in todo /\ P!Current \in Keys
      BY <3>1, CurrentIsNext
    <3>3. /\ getting \in 1 .. MaxChanges + 1 /\ buf = P!Whole(getting)
          /\ P!Current \in stable => object[P!Current] = getting
      <4>1. Len(buf) = Chunks /\ buf \in Seq({getting})
        BY <3>1 DEF BufferInv
      <4>2. buf = [i \in 1 .. Chunks |-> getting]
        BY <4>1
      <4> QED
        BY <3>1, <4>2 DEF BufferInv, P!Whole
    <3>4. file = "partial" /\ EntriesAreObjects /\ zipStatus # "completed"
      BY <3>1 DEF ArchiveInv, StepInv
    <3>5. ASSUME NEW k \in DOMAIN entries'
          PROVE  /\ \E v \in 1 .. MaxChanges + 1 : entries'[k] = P!Whole(v)
                 /\ k \in stable => entries'[k] = P!Whole(object[k])
      <4>1. CASE k = P!Current
        <5>1. entries'[k] = P!Whole(getting)
          BY <2>1, <3>3, <3>5, <4>1
        <5> QED
          BY <3>3, <4>1, <5>1
      <4>2. CASE k # P!Current
        <5>1. k \in DOMAIN entries /\ entries'[k] = entries[k]
          BY <2>1, <3>5, <4>2
        <5> QED
          BY <3>4, <5>1 DEF EntriesAreObjects
      <4> QED
        BY <4>1, <4>2
    <3>6. EntriesAreObjects'
      BY <3>1, <3>5 DEF EntriesAreObjects, P!Whole
    <3> QED
      BY <2>1, <3>1, <3>4, <3>6 DEF ArchiveInv
  <2>2. CASE zipPc' = "remove"
    <3>1. zipStatus # "completed" /\ zipStatus' = zipStatus /\ file' = file
      BY <1>12 DEF P!WriteEntry, StepInv, P!RunUnchanged, P!row, P!TypeOK
    <3> QED
      BY <2>2, <3>1 DEF ArchiveInv
  <2> QED
    BY <1>12, <2>1, <2>2 DEF P!WriteEntry
<1>13. CASE P!CloseArchive
  BY <1>13
  DEF P!CloseArchive, P!Fault, P!reading, P!RunUnchanged, P!bucket, P!row, P!listing, StepInv,
      ListingInv, ArchiveInv, EntriesAreObjects, P!TypeOK
<1>14. CASE P!RemoveArchive
  <2>1. /\ zipPc' = "result" /\ zipErr' # "none" /\ zipStatus' = zipStatus
        /\ zipStatus # "completed"
    BY <1>14 DEF P!RemoveArchive, StepInv, P!RunUnchanged, P!row, P!TypeOK
  <2>2. file' # "partial" \/ left'
    BY <1>14 DEF P!RemoveArchive, P!NoFile
  <2> QED
    BY <2>1, <2>2 DEF ArchiveInv
<1>15. CASE P!HandleResult
  BY <1>15
  DEF P!HandleResult, P!Idle, P!bucket, P!archive, P!bounds, StepInv, ListingInv, ArchiveInv,
      EntriesAreObjects, P!TypeOK
<1>16. CASE P!CancelRunning
  BY <1>16
  DEF P!CancelRunning, P!CallUnchanged, P!bucket, P!archive, P!listing, P!reading, StepInv,
      ListingInv, ArchiveInv, EntriesAreObjects, P!TypeOK
<1>17. CASE P!CancelAtRest
  BY <1>17
  DEF P!CancelAtRest, P!CallUnchanged, P!bucket, P!archive, P!listing, P!reading, P!result,
      StepInv, ListingInv, ArchiveInv, EntriesAreObjects, P!TypeOK
<1>18. CASE P!MakePending
  BY <1>18
  DEF P!MakePending, P!CallUnchanged, P!bucket, P!archive, P!listing, P!reading, P!result,
      StepInv, ListingInv, ArchiveInv, EntriesAreObjects, P!TypeOK
<1>19. ASSUME NEW k \in Keys, P!Change(k) PROVE ArchiveInv'
  BY <1>19
  DEF P!Change, P!row, P!archive, P!listing, P!reading, P!result, P!bounds, StepInv,
      ListingInv, ArchiveInv, EntriesAreObjects, P!TypeOK
<1>20. CASE P!Crash
  BY <1>20
  DEF P!Crash, P!Idle, P!bucket, P!archive, StepInv, ListingInv, ArchiveInv, EntriesAreObjects,
      P!TypeOK
<1>21. CASE UNCHANGED P!vars
  BY <1>21
  DEF P!vars, P!bucket, P!row, P!archive, P!listing, P!reading, P!result, P!bounds, StepInv,
      ListingInv, ArchiveInv, EntriesAreObjects, P!TypeOK
<1> QED
  BY <1>1, <1>2, <1>3, <1>4, <1>5, <1>6, <1>7, <1>8, <1>9, <1>10, <1>11, <1>12, <1>13, <1>14,
     <1>15, <1>16, <1>17, <1>18, <1>19, <1>20, <1>21 DEF P!Next, P!Work

LEMMA InitPrefix == P!Init => PrefixInv
<1> SUFFICES ASSUME P!Init PROVE PrefixInv
  OBVIOUS
<1>. USE KeysAreNumbers, PrefixConstants, NothingYet
<1>1. P!TypeOK
  <2>1. object \in [Keys -> 0 .. MaxChanges + 1]
    BY DEF P!Init, P!Absent
  <2>2. /\ changes \in 0 .. MaxChanges /\ getting \in 0 .. MaxChanges + 1
        /\ Len(buf) <= Chunks /\ DOMAIN entries \subseteq Keys
        /\ faults \in 0 .. MaxFaults /\ zipCalls \in 0 .. MaxPrefixCalls
        /\ zipCrashes \in 0 .. MaxCrashes
    BY DEF P!Init, P!Absent
  <2> QED
    BY <2>1, <2>2 DEF P!Init, P!TypeOK, P!NoFile
<1>2. StepInv
  BY DEF P!Init, StepInv, P!Absent
<1>3. ListingInv
  BY DEF P!Init, ListingInv, Writing, Written
<1>4. BufferInv
  BY DEF P!Init, BufferInv, P!Absent
<1>5. ArchiveInv
  BY DEF P!Init, ArchiveInv, Writing, Written, P!NoFile
<1> QED
  BY <1>1, <1>2, <1>3, <1>4, <1>5 DEF PrefixInv

LEMMA NextPrefix == ASSUME PrefixInv, [P!Next]_(P!vars) PROVE PrefixInv'
<1>1. P!TypeOK /\ StepInv /\ ListingInv /\ BufferInv /\ ArchiveInv
  BY DEF PrefixInv
<1>2. P!TypeOK'
  BY <1>1, PrefixTypeStep
<1>3. StepInv'
  BY <1>1, StepInvStep
<1>4. ListingInv'
  BY <1>1, ListingStep
<1>5. BufferInv'
  BY <1>1, BufferStep
<1>6. ArchiveInv'
  BY <1>1, ArchiveStep
<1> QED
  BY <1>2, <1>3, <1>4, <1>5, <1>6 DEF PrefixInv

\* A completed archive is whole, a folder that is queued object by object is queued whole, and an
\* attempt that failed removes what it wrote, as often as the listing, the objects and the archive
\* change under it.
THEOREM PrefixArrivesAlways == MCSpec => []PrefixArrives
<1>1. PrefixInv => PrefixArrives
  <2> SUFFICES ASSUME PrefixInv PROVE PrefixArrives
    OBVIOUS
  <2>1. P!TypeOK /\ StepInv /\ ListingInv /\ BufferInv /\ ArchiveInv
    BY DEF PrefixInv
  <2>2. P!ArchiveIsWhole
    BY <2>1 DEF P!ArchiveIsWhole, ArchiveInv, EntriesAreObjects
  <2>3. P!PrefixIsWhole
    BY <2>1 DEF P!PrefixIsWhole, ListingInv
  <2>4. P!FailureRemoves
    <3> SUFFICES ASSUME zipStatus \in {"failed", "cancelled"}, zipCrashes = 0, ~left
                 PROVE  file # "partial"
      BY DEF P!FailureRemoves
    <3>1. zipPc \notin {"get", "read", "write", "remove"}
      BY <2>1 DEF StepInv, P!TypeOK
    <3> QED
      BY <2>1, <3>1 DEF ArchiveInv, Writing
  <2> QED
    BY <2>1, <2>2, <2>3, <2>4 DEF PrefixArrives
<1>2. MCSpec => []PrefixInv
  BY InitPrefix, NextPrefix, SpecIsPrefix, PTL DEF P!Spec
<1> QED
  BY <1>1, <1>2, PTL

=============================================================================
