----------------------------- MODULE AppSettings -----------------------------
(***************************************************************************)
(* The Settings screen's backend (internal/appsettings/service.go): one    *)
(* row of the "settings" table per field, written one after the other by   *)
(* SaveSettings, and the values in effect, which ApplySettings installs    *)
(* one after the other in the transfer service and in the retry policies   *)
(* that every worker reads (s3client/retry.go).  The screen's calls may    *)
(* overlap, any write may fail, and the process may die between any two    *)
(* steps; the next start reads the rows and applies them.                  *)
(*                                                                         *)
(* Not modelled: rows edited by hand, which hold values no save wrote.     *)
(***************************************************************************)
EXTENDS Naturals, Integers, Sequences, FiniteSets

CONSTANTS
    Saves,                    \* the calls of SaveSettings that are made
    Requests,                 \* the settings a call may be given
    MaxFaults, MaxCrashes     \* bounds on failed writes and reads, and on restarts

Themes == {"system", "light", "dark"}
CloseBehaviors == {"exit", "confirm"}

\* In the order in which the rows are written.
Rows == <<"theme", "uiScale", "closeBehavior", "autoResume", "maxConcurrent",
          "partSize", "uploadLimit", "downloadLimit", "retryAttempts", "timeout">>
Keys == {"theme", "uiScale", "closeBehavior", "autoResume", "maxConcurrent",
         "partSize", "uploadLimit", "downloadLimit", "retryAttempts", "timeout"}

\* Any text that is not one of the known words is one value.
Settings ==
    [theme : Themes \cup {"other"}, uiScale : Int,
     closeBehavior : CloseBehaviors \cup {"other"}, autoResume : BOOLEAN,
     maxConcurrent : Int, partSize : Int, uploadLimit : Int, downloadLimit : Int,
     retryAttempts : Int, timeout : Int]

ASSUME SettingsAssumption ==
    /\ Requests \subseteq Settings
    /\ MaxFaults \in Nat /\ MaxCrashes \in Nat

Default ==
    [theme |-> "system", uiScale |-> 100, closeBehavior |-> "exit", autoResume |-> FALSE,
     maxConcurrent |-> 2, partSize |-> 0, uploadLimit |-> 0, downloadLimit |-> 0,
     retryAttempts |-> 5, timeout |-> 30]

\* The values of each field that are meant to be stored and applied.
Valid ==
    [theme |-> Themes, uiScale |-> 90..125, closeBehavior |-> CloseBehaviors,
     autoResume |-> BOOLEAN, maxConcurrent |-> 1..10, partSize |-> {0} \cup 5..128,
     uploadLimit |-> Nat, downloadLimit |-> Nat, retryAttempts |-> 1..10,
     timeout |-> 10..120]

Clamp(v, low, high) == IF v < low THEN low ELSE IF v > high THEN high ELSE v

ClampSettings(s) ==
    [theme |-> IF s.theme \in Themes THEN s.theme ELSE Default.theme,
     uiScale |-> Clamp(s.uiScale, 90, 125),
     closeBehavior |->
         IF s.closeBehavior \in CloseBehaviors THEN s.closeBehavior ELSE Default.closeBehavior,
     autoResume |-> s.autoResume,
     maxConcurrent |-> Clamp(s.maxConcurrent, 1, 10),
     partSize |-> IF s.partSize > 0 THEN Clamp(s.partSize, 5, 128) ELSE 0,
     uploadLimit |-> IF s.uploadLimit < 0 THEN 0 ELSE s.uploadLimit,
     downloadLimit |-> IF s.downloadLimit < 0 THEN 0 ELSE s.downloadLimit,
     retryAttempts |-> Clamp(s.retryAttempts, 1, 10),
     timeout |-> Clamp(s.timeout, 10, 120)]

VARIABLES
    rows,                     \* the table: the value of each field that has a row
    live,                     \* what is in effect
    pc, at, settings,         \* each call: where it is, its next row or value, its settings
    \* history: the settings of the last save, if no other overlapped it; whether the
    \* open calls are one; whether the last start, or a save since, applied the table
    saved, alone, current,
    faults, crashes

calls == <<pc, at, settings>>
history == <<saved, alone, current>>
bounds == <<faults, crashes>>
vars == <<rows, live, calls, history, bounds>>

Open == {c \in Saves : pc[c] \in {"write", "apply"}}

-----------------------------------------------------------------------------
(* What is in effect. *)

\* The limiter holds both directions and is replaced as a whole.
Slots == <<"concurrency", "limits", "partSize", "part", "metadata", "floor">>

Effect(slot, s) ==
    CASE slot = "concurrency" -> IF s.maxConcurrent < 1 THEN 1 ELSE s.maxConcurrent
      [] slot = "limits" -> [up |-> s.uploadLimit, down |-> s.downloadLimit]
      [] slot = "partSize" -> IF s.partSize <= 0 THEN 0 ELSE Clamp(s.partSize, 5, 128)
      [] slot = "part" -> s.retryAttempts
      [] slot = "metadata" -> s.retryAttempts
      [] slot = "floor" -> s.timeout

InEffect(s) == [slot \in {"concurrency", "limits", "partSize", "part", "metadata", "floor"} |->
                   Effect(slot, s)]

\* What the constructors leave: three attempts for metadata calls.
Constructed ==
    [concurrency |-> 2, limits |-> [up |-> 0, down |-> 0], partSize |-> 0,
     part |-> 5, metadata |-> 3, floor |-> 30]

\* A row that is missing stands for the field's default; nothing is written.
GetSetting(k) == IF k \in DOMAIN rows THEN rows[k] ELSE Default[k]
GetSettings == [k \in Keys |-> GetSetting(k)]

-----------------------------------------------------------------------------
(* Steps. *)

Fault == faults < MaxFaults /\ faults' = faults + 1

\* A start on a table without rows.
Init ==
    /\ rows = << >>
    /\ live = InEffect(Default)
    /\ pc = [c \in Saves |-> "new"] /\ at = [c \in Saves |-> 1]
    /\ settings = [c \in Saves |-> Default]
    /\ saved = {Default} /\ alone = TRUE /\ current = TRUE
    /\ faults = 0 /\ crashes = 0

\* A fault: the caller's settings are kept as they came.
BeginUnclamped(c) ==
    /\ pc[c] = "new"
    /\ \E s \in Requests : settings' = [settings EXCEPT ![c] = s]
    /\ pc' = [pc EXCEPT ![c] = "write"] /\ at' = [at EXCEPT ![c] = 1]
    /\ saved' = {} /\ alone' = (Open = {})
    /\ UNCHANGED <<rows, live, current, bounds>>

Begin(c) ==
    /\ pc[c] = "new"
    /\ \E s \in Requests : settings' = [settings EXCEPT ![c] = ClampSettings(s)]
    /\ pc' = [pc EXCEPT ![c] = "write"] /\ at' = [at EXCEPT ![c] = 1]
    /\ saved' = {} /\ alone' = (Open = {})
    /\ UNCHANGED <<rows, live, current, bounds>>

SetSetting(c) ==
    /\ pc[c] = "write"
    /\ LET k == Rows[at[c]] IN
        rows' = [x \in DOMAIN rows \cup {k} |-> IF x = k THEN settings[c][k] ELSE rows[x]]
    /\ IF at[c] = Len(Rows)
       THEN pc' = [pc EXCEPT ![c] = "apply"] /\ at' = [at EXCEPT ![c] = 1]
       ELSE at' = [at EXCEPT ![c] = @ + 1] /\ UNCHANGED pc
    /\ UNCHANGED <<live, settings, history, bounds>>

\* The call returns the error; the rows it wrote stay, nothing is applied.
SetSettingFails(c) ==
    /\ pc[c] = "write" /\ Fault
    /\ pc' = [pc EXCEPT ![c] = "failed"]
    /\ UNCHANGED <<rows, live, at, settings, history, crashes>>

\* One of the stores that ApplySettings makes; after the last the call returns.
ApplySettings(c) ==
    /\ pc[c] = "apply"
    /\ live' = [live EXCEPT ![Slots[at[c]]] = Effect(Slots[at[c]], settings[c])]
    /\ IF at[c] = Len(Slots)
       THEN /\ pc' = [pc EXCEPT ![c] = "done"]
            /\ saved' = IF alone THEN {settings[c]} ELSE {}
            /\ current' = (alone \/ current)
            /\ UNCHANGED at
       ELSE at' = [at EXCEPT ![c] = @ + 1] /\ UNCHANGED <<pc, saved, current>>
    /\ UNCHANGED <<rows, settings, alone, bounds>>

\* A fault: the values are only applied by a save.
RestartUnapplied ==
    /\ crashes < MaxCrashes /\ crashes' = crashes + 1
    /\ pc' = [c \in Saves |-> IF c \in Open THEN "lost" ELSE pc[c]]
    /\ current' = TRUE /\ live' = Constructed
    /\ UNCHANGED <<rows, at, settings, saved, alone, faults>>

\* The process ends, whatever it was doing, and starts again.  A start that cannot
\* read the table goes on with what the constructors left.
Restart ==
    /\ crashes < MaxCrashes /\ crashes' = crashes + 1
    /\ pc' = [c \in Saves |-> IF c \in Open THEN "lost" ELSE pc[c]]
    /\ \/ current' = TRUE /\ live' = InEffect(GetSettings) /\ UNCHANGED faults
       \/ current' = FALSE /\ live' = Constructed /\ Fault
    /\ UNCHANGED <<rows, at, settings, saved, alone>>

Next ==
    \/ \E c \in Saves : \/ Begin(c) \/ SetSetting(c) \/ SetSettingFails(c)
                        \/ ApplySettings(c)
    \/ Restart

Spec == Init /\ [][Next]_vars

-----------------------------------------------------------------------------
(* Properties. *)

\* The shape of the state.
TypeOK ==
    /\ DOMAIN rows \subseteq Keys
    /\ DOMAIN live = {"concurrency", "limits", "partSize", "part", "metadata", "floor"}
    /\ pc \in [Saves -> {"new", "write", "apply", "done", "failed", "lost"}]
    /\ at \in [Saves -> 1..Len(Rows)]
    /\ \A c \in Saves : pc[c] = "apply" => at[c] <= Len(Slots)
    /\ settings \in [Saves -> Settings]
    /\ Cardinality(saved) <= 1 /\ alone \in BOOLEAN /\ current \in BOOLEAN
    /\ faults \in 0..MaxFaults /\ crashes \in 0..MaxCrashes

RowsInRange == \A k \in DOMAIN rows : rows[k] \in Valid[k]

LiveInRange ==
    /\ live["concurrency"] \in 1..10
    /\ live["limits"] \in [up : Nat, down : Nat]
    /\ live["partSize"] \in Valid.partSize
    /\ live["part"] \in 1..10 /\ live["metadata"] \in 1..10
    /\ live["floor"] \in 10..120

\* Whatever the callers ask for, however their calls overlap, fail or are cut short,
\* and whatever a later start finds, only values in range are stored and in effect: at
\* least one slot and one attempt, no negative limit (SaveSettings, clampSettings).
InRange == RowsInRange /\ LiveInRange

\* A save that no other overlapped and that reported success is in the table and in
\* effect, and after any restart that can read the table it still is (SaveSettings;
\* newApp, which applies what GetSettings returns).
SavedTakesEffect ==
    (saved # {} /\ Open = {}) =>
        /\ GetSettings \in saved
        /\ current => live = InEffect(GetSettings)

\* While nothing was ever saved the program behaves as it was built, except that
\* metadata calls get as many attempts as parts (the default constants).
UntouchedIsNeutral ==
    DOMAIN rows = {} => live \in {Constructed, [Constructed EXCEPT !["metadata"] = 5]}

\* When no call is in progress the attempts and the timeout floor come from one save
\* ("Set atomically installs part/metadata/floor", RetryPolicyStore.Set).
PolicyIsOneSave ==
    Open = {} =>
        \E s \in {settings[c] : c \in Saves} \cup {Default} :
            <<live["part"], live["metadata"], live["floor"]>> =
                <<Effect("part", s), Effect("metadata", s), Effect("floor", s)>>

=============================================================================
