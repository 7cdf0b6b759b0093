----------------------------- MODULE TaskLedger -----------------------------
(***************************************************************************)
(* What the transfer queue promises, without saying how: every submitted   *)
(* task stays on the ledger until it is settled exactly once, as completed *)
(* or as cancelled, and the tasks being executed are distinct and limited  *)
(* in number.  Losing the process loses the executions, never an entry.    *)
(* (An execution is not tied to an open entry: the code lets a task that   *)
(* has just been settled be executed once more, see TransferService.)      *)
(***************************************************************************)
EXTENDS Integers, FiniteSets

CONSTANT Ids

VARIABLES
    ledger,      \* id -> its entry
    executing,   \* the ids being executed
    limit        \* how many may be

lvars == <<ledger, executing, limit>>

Settled == {"completed", "cancelled"}
Entries == {"unused", "open", "forgotten"} \cup Settled

Init ==
    /\ ledger = [id \in Ids |-> "unused"]
    /\ executing = {}
    /\ limit = 2

\* Ids are never given out twice.
Submit(id) ==
    /\ ledger[id] = "unused"
    /\ ledger' = [ledger EXCEPT ![id] = "open"]
    /\ UNCHANGED <<executing, limit>>

Settle(id, outcome) ==
    /\ ledger[id] = "open"
    /\ ledger' = [ledger EXCEPT ![id] = outcome]
    /\ UNCHANGED <<executing, limit>>

\* The user clears the history.
Forget ==
    /\ ledger' = [id \in Ids |-> IF ledger[id] \in Settled THEN "forgotten" ELSE ledger[id]]
    /\ UNCHANGED <<executing, limit>>

\* Several tasks may begin at once, as long as the limit is kept; only tasks
\* that were submitted.
Begin(S) ==
    /\ S \cap executing = {}
    /\ \A id \in S : ledger[id] # "unused"
    /\ executing' = executing \cup S
    /\ Cardinality(executing') <= limit
    /\ UNCHANGED <<ledger, limit>>

End(id) ==
    /\ executing' = executing \ {id}
    /\ UNCHANGED <<ledger, limit>>

SetLimit ==
    /\ limit' \in Nat \ {0}
    /\ UNCHANGED <<ledger, executing>>

Restart ==
    /\ executing' = {}
    /\ limit' = 2
    /\ UNCHANGED ledger

Next ==
    \/ \E id \in Ids : Submit(id) \/ End(id)
    \/ \E id \in Ids, outcome \in Settled : Settle(id, outcome)
    \/ \E S \in SUBSET Ids : Begin(S)
    \/ Forget \/ SetLimit \/ Restart

Spec == Init /\ [][Next]_lvars

=============================================================================
