----------------------------- MODULE PartSizing -----------------------------
(***************************************************************************)
(* How a file is cut into parts: partsize.go, and the override of the part *)
(* size (TransferService.SetPartSizeOverrideMB).  The limits are constants *)
(* so that small ones can be checked; the code's values, in MB, are in the *)
(* comments.                                                               *)
(***************************************************************************)
EXTENDS Integers

CONSTANTS
    smallFileThreshold,       \* 100
    mediumFileThreshold,      \* 1024
    largeFileThreshold,       \* 10240
    minPartSize,              \* 5
    defaultPartSize,          \* 16
    largePartSize,            \* 64
    maxPartSize,              \* 128
    maxPartsPerUpload,        \* 10000, the limit of S3
    clampRoundingUnit,        \* 1
    partSizeOverrideMin,      \* 5
    partSizeOverrideMax       \* 128

Positive == Nat \ {0}

ASSUME SizesAssumption ==
    /\ {smallFileThreshold, mediumFileThreshold, largeFileThreshold} \subseteq Nat
    /\ {minPartSize, defaultPartSize, largePartSize, maxPartSize} \subseteq Positive
    /\ maxPartsPerUpload \in Positive
    /\ clampRoundingUnit \in Positive
    /\ partSizeOverrideMin \in Positive
    /\ partSizeOverrideMax \in Nat /\ partSizeOverrideMin <= partSizeOverrideMax

ceilDiv(a, b) == (a + b - 1) \div b

PartCount(totalBytes, partSize) ==
    IF partSize <= 0 \/ totalBytes <= 0 THEN 0 ELSE ceilDiv(totalBytes, partSize)

TableSize(totalBytes) ==
    IF totalBytes < smallFileThreshold THEN minPartSize
    ELSE IF totalBytes < mediumFileThreshold THEN defaultPartSize
    ELSE IF totalBytes < largeFileThreshold THEN largePartSize
    ELSE maxPartSize

\* The table's size, made larger when it would need too many parts.
PartSize(totalBytes) ==
    IF PartCount(totalBytes, TableSize(totalBytes)) > maxPartsPerUpload
      THEN ceilDiv(ceilDiv(totalBytes, maxPartsPerUpload), clampRoundingUnit) * clampRoundingUnit
      ELSE TableSize(totalBytes)

\* What is stored when the user asks for a part size of mb; 0 is "no override".
ClampOverride(mb) ==
    IF mb <= 0 THEN 0
    ELSE IF mb < partSizeOverrideMin THEN partSizeOverrideMin
    ELSE IF mb > partSizeOverrideMax THEN partSizeOverrideMax ELSE mb

\* The part size an attempt uses.
EffectivePartSize(totalBytes, override) ==
    IF override > 0 THEN override ELSE PartSize(totalBytes)

\* Part n: the units of the file it holds, from 1 to totalBytes.
Extent(n, totalBytes, partSize) ==
    [from |-> (n - 1) * partSize + 1,
     to |-> IF n * partSize < totalBytes THEN n * partSize ELSE totalBytes]

=============================================================================
