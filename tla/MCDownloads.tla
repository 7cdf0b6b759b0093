----------------------------- MODULE MCDownloads -----------------------------
(***************************************************************************)
(* Instances of RangeDownload and PrefixDownload for TLC.  The two tasks   *)
(* share nothing in these models, so a behaviour is one of either kind:    *)
(* what is fetched is an object or a prefix, and the other one rests.      *)
(***************************************************************************)
EXTENDS RangeDownload

CONSTANTS
    Keys, Placeholders, PageSize, Chunks,
    MaxChanges, MaxFaults, MaxPrefixCalls

VARIABLES
    subject,                  \* "object" or "prefix"
    object, changes, stable, zipStatus, rooted, downloads, partial, file, entries,
    zipPc, op, token, keys, todo, getting, buf, zipErr, intent, zipCanceled, left,
    faults, zipCalls, zipCrashes

P == INSTANCE PrefixDownload
       WITH status <- zipStatus, pc <- zipPc, err <- zipErr, canceled <- zipCanceled,
            calls <- zipCalls, crashes <- zipCrashes, MaxCalls <- MaxPrefixCalls

ASSUME DownloadsAssumption == P!PrefixAssumption

prefix == <<object, changes, stable, zipStatus, rooted, downloads, partial, file, entries,
            zipPc, op, token, keys, todo, getting, buf, zipErr, intent, zipCanceled, left,
            faults, zipCalls, zipCrashes>>
all == <<subject, vars, prefix>>

OfObject(A) == subject = "object" /\ A /\ UNCHANGED <<subject, prefix>>
OfPrefix(A) == subject = "prefix" /\ A /\ UNCHANGED <<subject, vars>>

\* The one that rests has a single initial state.
MCInit ==
    /\ Init /\ P!Init
    /\ \/ subject = "object" /\ object = [k \in Keys |-> P!Absent]
       \/ subject = "prefix" /\ totalBytes = 3
MCNext == OfObject(Next) \/ OfPrefix(P!Next)

MCSpec ==
    /\ MCInit /\ [][MCNext]_all
    /\ WF_all(OfObject(HeadObject \/ Plan \/ Launch \/ Wait \/ CloseSidecar \/ HandleResult))
    /\ WF_all(OfObject(\E o \in Offsets : Completes(o)))
    /\ WF_all(OfPrefix(P!Start)) /\ WF_all(OfPrefix(P!Work)) /\ WF_all(OfPrefix(P!MakePending))

\* The file of a completed download is the object, see RangeDownload ...
FileArrives == TypeOK /\ FileIsObject

\* ... what was transferred is kept and not transferred again ...
ProgressIsUsed == ProgressKept /\ NoSegmentTwice

\* ... an archive or the tasks of a prefix are whole, and a failed archive is removed, see
\* PrefixDownload ...
PrefixArrives == P!TypeOK /\ P!ArchiveIsWhole /\ P!PrefixIsWhole /\ P!FailureRemoves

\* ... and attempts end, and retries complete an archive.
WorkCompletes == AttemptReturns /\ P!WorkEnds /\ P!RetryCompletes

=============================================================================
