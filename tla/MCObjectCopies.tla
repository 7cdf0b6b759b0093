--------------------------- MODULE MCObjectCopies ---------------------------
(***************************************************************************)
(* Instances of BulkOperations and CrossConnectionCopy for TLC: objects    *)
(* copied, moved, renamed and deleted within a connection, and copied or   *)
(* moved to another one.  The two share nothing in these models, so a      *)
(* behaviour is one of either kind, and the other one rests.               *)
(***************************************************************************)
EXTENDS BulkOperations

CONSTANTS
    f, g, x, y, z,
    Sizes, singlePutThreshold, MaxReplaces, MaxUploads, MaxCopyFaults, MaxCopyCalls, MaxCrashes

VARIABLES
    subject,                  \* "bulk" or "cross"
    source, size, dest, upload, parts, status, totalBytes, isMove, multipartUploadID,
    staging, sidecar, pc, uploadID, partETags, err, intent, canceled,
    queued, staged, cancelAsked, copyFaults, copyCalls, crashes

X == INSTANCE CrossConnectionCopy
       WITH calls <- copyCalls, faults <- copyFaults,
            MaxFaults <- MaxCopyFaults, MaxCalls <- MaxCopyCalls

ASSUME CopiesAssumption == X!CrossCopyAssumption

\* One operation of any type on two objects, with a rename of one of them.
Request(type, keys, folder) == [type |-> type, keys |-> keys, dest |-> folder]
Both == <<<<f, x>>, <<f, y>>>>
AnyOne == {Request("move", Both, g), Request("copy", Both, g), Request("delete", Both, f)}
RenameX == {<<<<f, x>>, <<f, z>>>>}
InF == {<<f, x>>, <<f, y>>}
OnlyY == {<<f, y>>}

cross == <<source, size, dest, upload, parts, status, totalBytes, isMove, multipartUploadID,
           staging, sidecar, pc, uploadID, partETags, err, intent, canceled,
           queued, staged, cancelAsked, copyFaults, copyCalls, crashes>>
all == <<subject, vars, cross>>

OfBulk(A) == subject = "bulk" /\ A /\ UNCHANGED <<subject, cross>>
OfCross(A) == subject = "cross" /\ A /\ UNCHANGED <<subject, vars>>

\* The one that rests has a single initial state.
MCInit ==
    /\ subject \in {"bulk", "cross"}
    /\ Init /\ X!Init
    /\ subject # "cross" => size = [v \in X!Versions |-> 1]
MCNext == OfBulk(Next) \/ OfCross(X!Next)

MCSpec ==
    /\ MCInit /\ [][MCNext]_all
    /\ \A o \in OpIds : WF_all(OfBulk(OpStep(o)))
    /\ \A w \in Workers : \A o \in OpIds : WF_all(OfBulk(WorkerStep(o, w)))
    /\ \A c \in Callers : WF_all(OfBulk(CancelReturns(c))) /\ WF_all(OfBulk(RenameDelete(c)))
    /\ WF_all(OfCross(X!Start)) /\ WF_all(OfCross(X!Download)) /\ WF_all(OfCross(X!Upload))
    /\ WF_all(OfCross(X!End)) /\ WF_all(OfCross(X!MakePending))

\* What a bulk operation or a task reports as done is done, and its counts are exact, see
\* BulkOperations and CrossConnectionCopy ...
ReportsAreTrue ==
    /\ TypeOK /\ FinalCountsAreExact /\ SuccessIsReal /\ NoUploadLeft
    /\ X!TypeOK /\ X!CompletedIsCopied

\* ... a move deletes the source only after its whole copy is stored, and a pause keeps
\* the upload of that copy ...
MoveKeepsObject == X!MoveKeepsObject /\ X!UploadKept

\* ... bulk operations and attempts end, with every cancel that waits for them, and retries
\* complete a small copy.
CopiesEnd ==
    /\ OperationsEnd
    /\ \A c \in Callers :
         (pc # "idle" \/ call[c].step = "wait") ~> (pc = "idle" /\ call[c].step # "wait")
    /\ X!SmallRecovers

=============================================================================
