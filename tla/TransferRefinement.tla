------------------------- MODULE TransferRefinement -------------------------
(* TransferService implements TaskLedger. *)
EXTENDS TransferService

\* What the two tables say of a task.  An id below the AUTOINCREMENT counter
\* that is in neither table was in a history the user has cleared.
Entry(id) ==
    IF InQueue(id) THEN "open"
    ELSE IF history[id] # <<>> THEN Head(history[id])
    ELSE IF id < nextID THEN "forgotten" ELSE "unused"

Ledger == INSTANCE TaskLedger
            WITH ledger <- [id \in Ids |-> Entry(id)],
                 executing <- Busy,
                 limit <- maxConcurrentTasks

\* The queue keeps its promise through every interleaving of dispatch, tasks,
\* calls and restarts: a task is settled exactly once, in the transaction that
\* removes its row (MoveToHistory); an id is not reused after it has left the
\* queue; nothing is executed twice at once or beyond the limit (dispatch).
RefinesLedger == Ledger!Spec

=============================================================================
