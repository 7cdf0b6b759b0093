--------------------------- MODULE ScreensProofs ---------------------------
(***************************************************************************)
(* What the Settings screen's backend and the Transfers screen keep, for   *)
(* any number of saves, calls, tasks and failures.                         *)
(*                                                                         *)
(* Settings: only values in range are ever stored or in effect, and a save *)
(* that nothing disturbed lasts.  IInv adds to the first that every call   *)
(* holds settings that were already clamped, and SaveInv says of the       *)
(* second what an undisturbed save has done so far.                        *)
(*                                                                         *)
(* Transfers: once nothing is under way the screen shows what is stored,   *)
(* but for tasks it was told of too late, or not at all; a call waits for  *)
(* an attempt that runs; no tick of a tracker outlives its attempt.        *)
(* ShownInv names the message still to come when the screen differs.       *)
(*                                                                         *)
(* Walks: an unmarked answer is the whole of the prefix and counts nothing *)
(* twice.  Listing: the cache misses and repeats nothing up to its token,  *)
(* and a refresh that nothing overlaps is fresh.  Both rest on what a page *)
(* of a bucket is: the first keys after a token, all up to its last.       *)
(***************************************************************************)
EXTENDS MCScreens, BucketPages, FiniteSetTheorems, SequenceTheorems, TLAPS

-----------------------------------------------------------------------------
(* A behaviour is one of each component. *)

LEMMA SpecIsSettings == MCSpec => Spec
<1>1. MCInit => Init
  BY DEF MCInit
<1>2. [MCNext]_all => [Next]_vars
  BY DEF MCNext, all
<1> QED
  BY <1>1, <1>2, PTL DEF MCSpec, Spec

LEMMA SpecIsTransfers == MCSpec => T!Spec
<1>1. MCInit => T!Init
  BY DEF MCInit
<1>2. [MCNext]_all => [T!Next]_(T!vars)
  BY DEF MCNext, all, transfers, T!vars, T!attempt, T!calls, T!screen
<1> QED
  BY <1>1, <1>2, PTL DEF MCSpec, T!Spec

-----------------------------------------------------------------------------
(* Settings: what is in range *)

ValidSettings == {s \in Settings : \A k \in Keys : s[k] \in Valid[k]}

SlotNames == {"concurrency", "limits", "partSize", "part", "metadata", "floor"}

IInv ==
    /\ settings \in [Saves -> ValidSettings]
    /\ at \in [Saves -> Nat \ {0}]
    /\ \A c \in Saves : /\ pc[c] = "write" => at[c] <= 10
                        /\ pc[c] = "apply" => at[c] <= 6
    /\ DOMAIN pc = Saves
    /\ DOMAIN rows \subseteq Keys
    /\ RowsInRange
    /\ DOMAIN live = SlotNames
    /\ LiveInRange

-----------------------------------------------------------------------------
(* Settings that are clamped, and what they put in effect. *)

\* A clamped number is between the bounds.
LEMMA ClampInRange ==
    ASSUME NEW v \in Int, NEW low \in Int, NEW high \in Int, low <= high
    PROVE Clamp(v, low, high) \in low..high
BY SMT DEF Clamp

\* clampSettings returns valid settings whatever it is given.
LEMMA ClampSettingsValid ==
    ASSUME NEW s \in Settings
    PROVE ClampSettings(s) \in ValidSettings
<1> DEFINE t == ClampSettings(s)
<1>1. /\ s.uiScale \in Int /\ s.maxConcurrent \in Int /\ s.partSize \in Int
      /\ s.uploadLimit \in Int /\ s.downloadLimit \in Int
      /\ s.retryAttempts \in Int /\ s.timeout \in Int
      /\ s.autoResume \in BOOLEAN
  BY DEF Settings
<1>2. /\ t.uiScale \in 90..125 /\ t.maxConcurrent \in 1..10
      /\ t.retryAttempts \in 1..10 /\ t.timeout \in 10..120
  BY <1>1 DEF ClampSettings, Clamp
<1>3. t.partSize \in {0} \cup 5..128
  BY <1>1 DEF ClampSettings, Clamp
<1>4. t.uploadLimit \in Nat /\ t.downloadLimit \in Nat
  BY <1>1 DEF ClampSettings
<1>5. t.theme \in Themes /\ t.closeBehavior \in CloseBehaviors /\ t.autoResume \in BOOLEAN
  BY <1>1 DEF ClampSettings, Themes, CloseBehaviors, Default
<1>6. t \in Settings
  <2>1. /\ t.uiScale \in Int /\ t.maxConcurrent \in Int /\ t.partSize \in Int
        /\ t.uploadLimit \in Int /\ t.downloadLimit \in Int
        /\ t.retryAttempts \in Int /\ t.timeout \in Int
    BY <1>2, <1>3, <1>4
  <2>2. t = [theme |-> t.theme, uiScale |-> t.uiScale, closeBehavior |-> t.closeBehavior,
             autoResume |-> t.autoResume, maxConcurrent |-> t.maxConcurrent,
             partSize |-> t.partSize, uploadLimit |-> t.uploadLimit,
             downloadLimit |-> t.downloadLimit, retryAttempts |-> t.retryAttempts,
             timeout |-> t.timeout]
    BY DEF ClampSettings
  <2> HIDE DEF t
  <2>3. QED BY <1>5, <2>1, <2>2 DEF Settings
<1>7. \A k \in Keys : t[k] \in Valid[k]
  <2> HIDE DEF t
  <2>1. t["theme"] \in Valid["theme"]
    BY <1>2, <1>3, <1>4, <1>5 DEF Valid
  <2>2. t["uiScale"] \in Valid["uiScale"]
    BY <1>2, <1>3, <1>4, <1>5 DEF Valid
  <2>3. t["closeBehavior"] \in Valid["closeBehavior"]
    BY <1>2, <1>3, <1>4, <1>5 DEF Valid
  <2>4. t["autoResume"] \in Valid["autoResume"]
    BY <1>2, <1>3, <1>4, <1>5 DEF Valid
  <2>5. t["maxConcurrent"] \in Valid["maxConcurrent"]
    BY <1>2, <1>3, <1>4, <1>5 DEF Valid
  <2>6. t["partSize"] \in Valid["partSize"]
    BY <1>2, <1>3, <1>4, <1>5 DEF Valid
  <2>7. t["uploadLimit"] \in Valid["uploadLimit"]
    BY <1>2, <1>3, <1>4, <1>5 DEF Valid
  <2>8. t["downloadLimit"] \in Valid["downloadLimit"]
    BY <1>2, <1>3, <1>4, <1>5 DEF Valid
  <2>9. t["retryAttempts"] \in Valid["retryAttempts"]
    BY <1>2, <1>3, <1>4, <1>5 DEF Valid
  <2>10. t["timeout"] \in Valid["timeout"]
    BY <1>2, <1>3, <1>4, <1>5 DEF Valid
  <2>11. QED BY <2>1, <2>2, <2>3, <2>4, <2>5, <2>6, <2>7, <2>8, <2>9, <2>10 DEF Keys
<1>8. QED BY <1>6, <1>7 DEF ValidSettings

\* The defaults are valid.
LEMMA DefaultValid == Default \in ValidSettings
<1>1. Default \in Settings
  BY DEF Default, Settings, Themes, CloseBehaviors
<1>2. \A k \in Keys : Default[k] \in Valid[k]
  <2>1. Default["theme"] \in Valid["theme"]
    BY DEF Default, Valid, Themes, CloseBehaviors
  <2>2. Default["uiScale"] \in Valid["uiScale"]
    BY DEF Default, Valid, Themes, CloseBehaviors
  <2>3. Default["closeBehavior"] \in Valid["closeBehavior"]
    BY DEF Default, Valid, Themes, CloseBehaviors
  <2>4. Default["autoResume"] \in Valid["autoResume"]
    BY DEF Default, Valid, Themes, CloseBehaviors
  <2>5. Default["maxConcurrent"] \in Valid["maxConcurrent"]
    BY DEF Default, Valid, Themes, CloseBehaviors
  <2>6. Default["partSize"] \in Valid["partSize"]
    BY DEF Default, Valid, Themes, CloseBehaviors
  <2>7. Default["uploadLimit"] \in Valid["uploadLimit"]
    BY DEF Default, Valid, Themes, CloseBehaviors
  <2>8. Default["downloadLimit"] \in Valid["downloadLimit"]
    BY DEF Default, Valid, Themes, CloseBehaviors
  <2>9. Default["retryAttempts"] \in Valid["retryAttempts"]
    BY DEF Default, Valid, Themes, CloseBehaviors
  <2>10. Default["timeout"] \in Valid["timeout"]
    BY DEF Default, Valid, Themes, CloseBehaviors
  <2>11. QED BY <2>1, <2>2, <2>3, <2>4, <2>5, <2>6, <2>7, <2>8, <2>9, <2>10 DEF Keys
<1>3. QED BY <1>1, <1>2 DEF ValidSettings

\* What valid settings put in effect is in range, slot by slot.
LEMMA EffectInRange ==
    ASSUME NEW s \in ValidSettings
    PROVE /\ Effect("concurrency", s) \in 1..10
          /\ Effect("limits", s) \in [up : Nat, down : Nat]
          /\ Effect("partSize", s) \in Valid.partSize
          /\ Effect("part", s) \in 1..10
          /\ Effect("metadata", s) \in 1..10
          /\ Effect("floor", s) \in 10..120
<1>1. \A k \in Keys : s[k] \in Valid[k]
  BY DEF ValidSettings
<1>2. /\ s.maxConcurrent \in 1..10 /\ s.partSize \in {0} \cup 5..128
      /\ s.uploadLimit \in Nat /\ s.downloadLimit \in Nat
      /\ s.retryAttempts \in 1..10 /\ s.timeout \in 10..120
  <2>1. s["maxConcurrent"] \in Valid["maxConcurrent"] BY <1>1 DEF Keys
  <2>2. s["partSize"] \in Valid["partSize"] BY <1>1 DEF Keys
  <2>3. s["uploadLimit"] \in Valid["uploadLimit"] BY <1>1 DEF Keys
  <2>4. s["downloadLimit"] \in Valid["downloadLimit"] BY <1>1 DEF Keys
  <2>5. s["retryAttempts"] \in Valid["retryAttempts"] BY <1>1 DEF Keys
  <2>6. s["timeout"] \in Valid["timeout"] BY <1>1 DEF Keys
  <2>7. QED BY <2>1, <2>2, <2>3, <2>4, <2>5, <2>6 DEF Valid
<1>3. Effect("concurrency", s) \in 1..10
  BY <1>2 DEF Effect
<1>4. Effect("limits", s) \in [up : Nat, down : Nat]
  BY <1>2 DEF Effect
<1>5. Effect("partSize", s) \in Valid.partSize
  BY <1>2 DEF Effect, Clamp, Valid
<1>6. /\ Effect("part", s) \in 1..10 /\ Effect("metadata", s) \in 1..10
      /\ Effect("floor", s) \in 10..120
  BY <1>2 DEF Effect
<1>7. QED BY <1>3, <1>4, <1>5, <1>6

\* What valid settings put in effect as a whole is in range.
LEMMA InEffectInRange ==
    ASSUME NEW s \in ValidSettings, live' = InEffect(s)
    PROVE DOMAIN live' = SlotNames /\ LiveInRange'
<1>1. DOMAIN live' = SlotNames
  BY DEF InEffect, SlotNames
<1>2. \A slot \in SlotNames : live'[slot] = Effect(slot, s)
  BY DEF InEffect, SlotNames
<1>3. /\ live'["concurrency"] = Effect("concurrency", s)
      /\ live'["limits"] = Effect("limits", s)
      /\ live'["partSize"] = Effect("partSize", s)
      /\ live'["part"] = Effect("part", s)
      /\ live'["metadata"] = Effect("metadata", s)
      /\ live'["floor"] = Effect("floor", s)
  BY <1>2 DEF SlotNames
<1>4. QED BY <1>1, <1>3, EffectInRange DEF LiveInRange

\* What the constructors leave is in range.
LEMMA ConstructedInRange ==
    ASSUME live' = Constructed
    PROVE DOMAIN live' = SlotNames /\ LiveInRange'
BY DEF Constructed, SlotNames, LiveInRange, Valid

\* GetSettings reads valid settings from rows in range.
LEMMA GetSettingsValid ==
    ASSUME DOMAIN rows \subseteq Keys, RowsInRange
    PROVE GetSettings \in ValidSettings
<1>1. \A k \in Keys : GetSettings[k] \in Valid[k]
  <2>1. \A k \in Keys : Default[k] \in Valid[k]
    BY DefaultValid DEF ValidSettings
  <2>2. QED BY <2>1 DEF GetSettings, GetSetting, RowsInRange
<1> DEFINE g == GetSettings
<1>2. g \in Settings
  <2>1. g = [theme |-> g.theme, uiScale |-> g.uiScale, closeBehavior |-> g.closeBehavior,
             autoResume |-> g.autoResume, maxConcurrent |-> g.maxConcurrent,
             partSize |-> g.partSize, uploadLimit |-> g.uploadLimit,
             downloadLimit |-> g.downloadLimit, retryAttempts |-> g.retryAttempts,
             timeout |-> g.timeout]
    BY DEF GetSettings, Keys
  <2>2. /\ g["theme"] \in Valid["theme"] /\ g["uiScale"] \in Valid["uiScale"]
        /\ g["closeBehavior"] \in Valid["closeBehavior"]
        /\ g["autoResume"] \in Valid["autoResume"]
        /\ g["maxConcurrent"] \in Valid["maxConcurrent"]
        /\ g["partSize"] \in Valid["partSize"]
        /\ g["uploadLimit"] \in Valid["uploadLimit"]
        /\ g["downloadLimit"] \in Valid["downloadLimit"]
        /\ g["retryAttempts"] \in Valid["retryAttempts"]
        /\ g["timeout"] \in Valid["timeout"]
    BY <1>1 DEF Keys
  <2> HIDE DEF g
  <2>3. /\ g.theme \in Themes /\ g.closeBehavior \in CloseBehaviors
        /\ g.autoResume \in BOOLEAN
    BY <2>2 DEF Valid
  <2>4. /\ g.uiScale \in Int /\ g.maxConcurrent \in Int /\ g.partSize \in Int
        /\ g.uploadLimit \in Int /\ g.downloadLimit \in Int
        /\ g.retryAttempts \in Int /\ g.timeout \in Int
    BY <2>2 DEF Valid
  <2>5. QED BY <2>1, <2>3, <2>4 DEF Settings
<1>3. QED BY <1>1, <1>2 DEF ValidSettings

-----------------------------------------------------------------------------
(* The steps. *)

\* A start on an empty table is in range.
LEMMA InitInvariant == Init => IInv
<1> SUFFICES ASSUME Init PROVE IInv
  OBVIOUS
<1>1. settings \in [Saves -> ValidSettings]
  BY DefaultValid DEF Init
<1>2. /\ at \in [Saves -> Nat \ {0}] /\ DOMAIN pc = Saves
      /\ \A c \in Saves : /\ pc[c] = "write" => at[c] <= 10
                          /\ pc[c] = "apply" => at[c] <= 6
  BY DEF Init
<1>3. DOMAIN rows \subseteq Keys /\ RowsInRange
  BY DEF Init, RowsInRange
<1>4. DOMAIN live = SlotNames /\ LiveInRange
  BY DEF Init, InEffect, Effect, Default, SlotNames, LiveInRange, Valid
<1>5. QED BY <1>1, <1>2, <1>3, <1>4 DEF IInv

\* A call begins with clamped settings and changes neither the table nor what is in effect.
LEMMA BeginInvariant ==
    ASSUME IInv, NEW c \in Saves, Begin(c) PROVE IInv'
<1>1. settings' \in [Saves -> ValidSettings]
  <2>1. PICK s \in Requests : settings' = [settings EXCEPT ![c] = ClampSettings(s)]
    BY DEF Begin
  <2>2. s \in Settings BY SettingsAssumption
  <2>3. ClampSettings(s) \in ValidSettings BY <2>2, ClampSettingsValid
  <2>4. QED BY <2>1, <2>3 DEF IInv
<1>2. /\ at' \in [Saves -> Nat \ {0}] /\ DOMAIN pc' = Saves
      /\ \A d \in Saves : /\ pc'[d] = "write" => at'[d] <= 10
                          /\ pc'[d] = "apply" => at'[d] <= 6
  BY DEF Begin, IInv
<1>3. UNCHANGED <<rows, live>> BY DEF Begin
<1>4. QED BY <1>1, <1>2, <1>3 DEF IInv, RowsInRange, LiveInRange

\* A row is given a value that its call had clamped.
LEMMA SetSettingInvariant ==
    ASSUME IInv, NEW c \in Saves, SetSetting(c) PROVE IInv'
<1> DEFINE k == Rows[at[c]]
<1>1. k \in Keys
  <2>1. at[c] \in 1..10 BY DEF SetSetting, IInv
  <2>2. QED BY <2>1 DEF Rows, Keys
<1>2. settings[c][k] \in Valid[k]
  BY <1>1 DEF IInv, ValidSettings
<1>3. rows' = [x \in DOMAIN rows \cup {k} |-> IF x = k THEN settings[c][k] ELSE rows[x]]
  BY DEF SetSetting
<1>4. DOMAIN rows' \subseteq Keys /\ RowsInRange'
  <2> HIDE DEF k
  <2>1. QED BY <1>1, <1>2, <1>3 DEF IInv, RowsInRange
<1>5. /\ at' \in [Saves -> Nat \ {0}] /\ DOMAIN pc' = Saves
      /\ \A d \in Saves : /\ pc'[d] = "write" => at'[d] <= 10
                          /\ pc'[d] = "apply" => at'[d] <= 6
  <2>1. Len(Rows) = 10 BY DEF Rows
  <2>2. CASE at[c] = 10
    BY <2>1, <2>2 DEF SetSetting, IInv
  <2>3. CASE at[c] # 10
    <3>1. at' = [at EXCEPT ![c] = @ + 1] /\ pc' = pc
      BY <2>1, <2>3 DEF SetSetting
    <3>2. at[c] \in Nat \ {0} /\ at[c] <= 10 /\ pc[c] = "write"
      BY DEF SetSetting, IInv
    <3>3. QED BY <2>3, <3>1, <3>2 DEF IInv
  <2>4. QED BY <2>2, <2>3
<1>6. UNCHANGED <<live, settings>> BY DEF SetSetting
<1>7. QED BY <1>4, <1>5, <1>6 DEF IInv, LiveInRange

\* One store of ApplySettings puts a clamped value in effect.
LEMMA ApplySettingsInvariant ==
    ASSUME IInv, NEW c \in Saves, ApplySettings(c) PROVE IInv'
<1> DEFINE slot == Slots[at[c]]
<1>1. slot \in SlotNames
  <2>1. at[c] \in 1..6 BY DEF ApplySettings, IInv
  <2>2. QED BY <2>1 DEF Slots, SlotNames
<1>2. live' = [live EXCEPT ![slot] = Effect(slot, settings[c])]
  BY DEF ApplySettings
<1>3. settings[c] \in ValidSettings BY DEF IInv
<1>4. DOMAIN live' = SlotNames /\ LiveInRange'
  <2> HIDE DEF slot
  <2>1. /\ Effect("concurrency", settings[c]) \in 1..10
        /\ Effect("limits", settings[c]) \in [up : Nat, down : Nat]
        /\ Effect("partSize", settings[c]) \in Valid.partSize
        /\ Effect("part", settings[c]) \in 1..10
        /\ Effect("metadata", settings[c]) \in 1..10
        /\ Effect("floor", settings[c]) \in 10..120
    BY <1>3, EffectInRange
  <2>2. DOMAIN live = SlotNames /\ LiveInRange BY DEF IInv
  <2>3. DOMAIN live' = SlotNames BY <1>2, <2>2
  <2>4. \A n \in SlotNames : live'[n] = IF n = slot THEN Effect(n, settings[c]) ELSE live[n]
    BY <1>1, <1>2, <2>2
  <2>5. /\ live'["concurrency"] \in 1..10 /\ live'["limits"] \in [up : Nat, down : Nat]
    BY <2>1, <2>2, <2>4 DEF LiveInRange, SlotNames
  <2>6. /\ live'["partSize"] \in Valid.partSize /\ live'["part"] \in 1..10
    BY <2>1, <2>2, <2>4 DEF LiveInRange, SlotNames
  <2>7. /\ live'["metadata"] \in 1..10 /\ live'["floor"] \in 10..120
    BY <2>1, <2>2, <2>4 DEF LiveInRange, SlotNames
  <2>8. QED BY <2>3, <2>5, <2>6, <2>7 DEF LiveInRange
<1>5. /\ at' \in [Saves -> Nat \ {0}] /\ DOMAIN pc' = Saves
      /\ \A d \in Saves : /\ pc'[d] = "write" => at'[d] <= 10
                          /\ pc'[d] = "apply" => at'[d] <= 6
  <2>1. Len(Slots) = 6 BY DEF Slots
  <2>2. CASE at[c] = 6
    BY <2>1, <2>2 DEF ApplySettings, IInv
  <2>3. CASE at[c] # 6
    <3>1. at' = [at EXCEPT ![c] = @ + 1] /\ pc' = pc
      BY <2>1, <2>3 DEF ApplySettings
    <3>2. at[c] \in Nat \ {0} /\ at[c] <= 6 /\ pc[c] = "apply"
      BY DEF ApplySettings, IInv
    <3>3. QED BY <2>3, <3>1, <3>2 DEF IInv
  <2>4. QED BY <2>2, <2>3
<1>6. UNCHANGED <<rows, settings>> BY DEF ApplySettings
<1>7. QED BY <1>4, <1>5, <1>6 DEF IInv, RowsInRange

\* A start applies what it reads, which is in range, or what the constructors left.
LEMMA RestartInvariant ==
    ASSUME IInv, Restart PROVE IInv'
<1>1. DOMAIN live' = SlotNames /\ LiveInRange'
  <2>1. CASE live' = InEffect(GetSettings)
    <3>1. GetSettings \in ValidSettings BY GetSettingsValid DEF IInv
    <3>2. QED BY <2>1, <3>1, InEffectInRange
  <2>2. CASE live' = Constructed
    BY <2>2, ConstructedInRange
  <2>3. QED BY <2>1, <2>2 DEF Restart
<1>2. /\ UNCHANGED <<rows, at, settings>> /\ DOMAIN pc' = Saves
      /\ \A d \in Saves : /\ pc'[d] = "write" => pc[d] = "write"
                          /\ pc'[d] = "apply" => pc[d] = "apply"
  BY DEF Restart
<1>3. QED BY <1>1, <1>2 DEF IInv, RowsInRange

\* IInv is inductive.
LEMMA NextInvariant == IInv /\ [Next]_vars => IInv'
<1> SUFFICES ASSUME IInv, [Next]_vars PROVE IInv'
  OBVIOUS
<1>1. ASSUME NEW c \in Saves, Begin(c) PROVE IInv'
  BY <1>1, BeginInvariant
<1>2. ASSUME NEW c \in Saves, SetSetting(c) PROVE IInv'
  BY <1>2, SetSettingInvariant
<1>3. ASSUME NEW c \in Saves, SetSettingFails(c) PROVE IInv'
  BY <1>3 DEF SetSettingFails, IInv, RowsInRange, LiveInRange
<1>4. ASSUME NEW c \in Saves, ApplySettings(c) PROVE IInv'
  BY <1>4, ApplySettingsInvariant
<1>5. CASE Restart
  BY <1>5, RestartInvariant
<1>6. CASE UNCHANGED vars
  BY <1>6 DEF vars, calls, IInv, RowsInRange, LiveInRange
<1>7. QED BY <1>1, <1>2, <1>3, <1>4, <1>5, <1>6 DEF Next

\* Whatever settings the calls are given and however they overlap, fail or are cut
\* short, only values in range are stored and in effect (SaveSettings, clampSettings,
\* ApplySettings, and newApp's apply at the start).
THEOREM SettingsInRange == MCSpec => []InRange
<1>1. IInv => InRange BY DEF IInv, InRange
<1>2. QED BY InitInvariant, NextInvariant, SpecIsSettings, <1>1, PTL DEF Spec

-----------------------------------------------------------------------------
(* Settings: a save that nothing disturbed lasts *)

\* What an undisturbed save has done so far is in the table and in effect, and while a call
\* is in progress no save counts as the last.
Progress(c) ==
    /\ pc[c] = "write" =>
         \A i \in 1 .. at[c] - 1 : /\ Rows[i] \in DOMAIN rows
                                   /\ rows[Rows[i]] = settings[c][Rows[i]]
    /\ pc[c] = "apply" =>
         /\ \A k \in Keys : k \in DOMAIN rows /\ rows[k] = settings[c][k]
         /\ \A i \in 1 .. at[c] - 1 : live[Slots[i]] = Effect(Slots[i], settings[c])

Untouched ==
    DOMAIN rows = {} =>
         /\ \A c \in Saves : pc[c] # "apply"
         /\ live = Constructed \/ live = InEffect(Default)

Lasting ==
    Open = {} /\ saved # {} =>
         /\ saved = {GetSettings}
         /\ current => live = InEffect(GetSettings)

SaveInv ==
    /\ live = [slot \in SlotNames |-> live[slot]]
    /\ Untouched
    /\ saved = {} \/ \E s : saved = {s}
    /\ Open # {} => saved = {}
    /\ Lasting
    /\ alone => \A c, d \in Open : c = d
    /\ alone => \A c \in Saves : Progress(c)

\* Every row has its place among the rows, and every slot among the slots.
LEMMA RowsCover == \A k \in Keys : \E i \in 1 .. 10 : Rows[i] = k
BY DEF Keys, Rows

LEMMA SlotsCover == \A slot \in SlotNames : \E i \in 1 .. 6 : Slots[i] = slot
BY DEF SlotNames, Slots

\* Settings are what they hold for each key.
LEMMA SettingsAreTheirFields ==
    ASSUME NEW s \in Settings
    PROVE  s = [k \in Keys |-> s[k]]
BY DEF Settings, Keys

LEMMA WholeEffects ==
    /\ \A s : InEffect(s) = [slot \in SlotNames |-> InEffect(s)[slot]]
    /\ Constructed = [slot \in SlotNames |-> Constructed[slot]]
    /\ InEffect(Default) = [Constructed EXCEPT !["metadata"] = 5]
<1>1. \A s : InEffect(s) = [slot \in SlotNames |-> InEffect(s)[slot]]
  BY DEF InEffect, SlotNames
<1>2. Constructed = [slot \in SlotNames |-> Constructed[slot]]
  BY DEF Constructed, SlotNames
<1>3. \A slot \in SlotNames :
         InEffect(Default)[slot] = [Constructed EXCEPT !["metadata"] = 5][slot]
  BY DEF InEffect, SlotNames, Effect, Default, Constructed
<1>4. /\ DOMAIN InEffect(Default) = SlotNames
      /\ DOMAIN [Constructed EXCEPT !["metadata"] = 5] = SlotNames
  BY DEF InEffect, SlotNames, Constructed
<1>5. InEffect(Default) = [Constructed EXCEPT !["metadata"] = 5]
  BY <1>1, <1>2, <1>3, <1>4
<1> QED
  BY <1>1, <1>2, <1>5

LEMMA InitSaveInv == Init => TypeOK /\ SaveInv
<1> SUFFICES ASSUME Init PROVE TypeOK /\ SaveInv
  OBVIOUS
<1>1. Default \in Settings
  BY DefaultValid DEF ValidSettings
<1>2. DOMAIN rows = {} /\ Open = {} /\ live = InEffect(Default)
  BY DEF Init, Open
<1>3. GetSettings = Default
  BY <1>1, <1>2, SettingsAreTheirFields DEF GetSettings, GetSetting
<1>4. TypeOK
  <2>1. DOMAIN live = {"concurrency", "limits", "partSize", "part", "metadata", "floor"}
    BY <1>2 DEF InEffect
  <2>2. Cardinality(saved) <= 1
    <3>1. saved = {Default}
      BY DEF Init
    <3>2. Cardinality({Default}) = 1
      BY FS_Singleton, Zenon
    <3> QED
      BY <3>1, <3>2
  <2>3. settings \in [Saves -> Settings] /\ at \in [Saves -> 1 .. Len(Rows)]
        /\ pc \in [Saves -> {"new", "write", "apply", "done", "failed", "lost"}]
    BY <1>1 DEF Init, Rows
  <2> QED
    BY <1>2, <2>1, <2>2, <2>3, SettingsAssumption DEF Init, TypeOK
<1>5. SaveInv
  BY <1>2, <1>3, WholeEffects DEF Init, SaveInv, Untouched, Lasting, Progress
<1> QED
  BY <1>4, <1>5

\* The rest of the types follows from IInv.
LEMMA TypesFrom ==
    ASSUME IInv',
           pc' \in [Saves -> {"new", "write", "apply", "done", "failed", "lost"}],
           at' \in [Saves -> 1 .. 10],
           saved' = {} \/ \E s : saved' = {s}, alone' \in BOOLEAN, current' \in BOOLEAN,
           faults' \in 0 .. MaxFaults, crashes' \in 0 .. MaxCrashes
    PROVE  TypeOK'
<1>1. Cardinality(saved') <= 1
  <2>1. CASE saved' = {}
    BY <2>1, FS_EmptySet
  <2>2. ASSUME NEW s, saved' = {s}
        PROVE  Cardinality(saved') <= 1
    <3>1. Cardinality({s}) = 1
      BY FS_Singleton, Zenon
    <3> QED
      BY <2>2, <3>1
  <2> QED
    BY <2>1, <2>2
<1>2. Len(Rows) = 10 /\ Len(Slots) = 6
  BY DEF Rows, Slots
<1>3. settings' \in [Saves -> Settings]
  BY DEF IInv, ValidSettings
<1> QED
  BY <1>1, <1>2, <1>3 DEF IInv, TypeOK, SlotNames

LEMMA BeginSaveInv ==
    ASSUME TypeOK, SaveInv, IInv, NEW c \in Saves, Begin(c)
    PROVE  TypeOK' /\ SaveInv'
<1>1. /\ pc[c] = "new" /\ pc' = [pc EXCEPT ![c] = "write"] /\ at' = [at EXCEPT ![c] = 1]
      /\ saved' = {} /\ rows' = rows /\ live' = live /\ current' = current
      /\ faults' = faults /\ crashes' = crashes
  BY DEF Begin, bounds
<1>2. alone' = (Open = {})
  BY DEF Begin
<1>3. alone' \in BOOLEAN /\ (alone' => Open = {})
  BY <1>2
<1>4. /\ pc' \in [Saves -> {"new", "write", "apply", "done", "failed", "lost"}]
      /\ at' \in [Saves -> 1 .. 10]
  BY <1>1 DEF TypeOK, Rows
<1>5. IInv'
  BY BeginInvariant
<1>6. TypeOK'
  <2>1. /\ saved' = {} \/ \E s : saved' = {s}
        /\ current' \in BOOLEAN /\ faults' \in 0 .. MaxFaults /\ crashes' \in 0 .. MaxCrashes
    BY <1>1 DEF TypeOK
  <2> QED
    BY <1>3, <1>4, <1>5, <2>1, TypesFrom
<1>7. Untouched' /\ (live = [slot \in SlotNames |-> live[slot]])' /\ Lasting'
  BY <1>1 DEF SaveInv, Untouched, Lasting, TypeOK
<1>8. ASSUME alone'
      PROVE  /\ \A d, e \in Open' : d = e
             /\ \A d \in Saves : Progress(d)'
  <2>1. \A d \in Saves : d # c => pc'[d] \notin {"write", "apply"}
    BY <1>1, <1>3, <1>8 DEF Open, TypeOK
  <2>2. pc'[c] = "write" /\ at'[c] = 1
    BY <1>1 DEF TypeOK
  <2> QED
    BY <2>1, <2>2 DEF Open, Progress
<1> QED
  BY <1>1, <1>6, <1>7, <1>8 DEF SaveInv

\* The row is written from the settings of the call, and no other call that writes is
\* there to disturb it.
LEMMA SetSettingSaveInv ==
    ASSUME TypeOK, SaveInv, IInv, NEW c \in Saves, SetSetting(c)
    PROVE  TypeOK' /\ SaveInv'
<1> DEFINE k == Rows[at[c]]
<1>1. /\ pc[c] = "write" /\ live' = live /\ settings' = settings /\ saved' = saved
      /\ alone' = alone /\ current' = current /\ faults' = faults /\ crashes' = crashes
      /\ rows' = [x \in DOMAIN rows \cup {k} |-> IF x = k THEN settings[c][k] ELSE rows[x]]
  BY DEF SetSetting, history, bounds
<1>2. /\ at[c] = 10 => pc' = [pc EXCEPT ![c] = "apply"] /\ at' = [at EXCEPT ![c] = 1]
      /\ at[c] # 10 => pc' = pc /\ at' = [at EXCEPT ![c] = @ + 1]
      /\ at[c] \in 1 .. 10
  BY DEF SetSetting, Rows, TypeOK
<1>3. /\ pc' \in [Saves -> {"new", "write", "apply", "done", "failed", "lost"}]
      /\ at' \in [Saves -> 1 .. 10]
      /\ \A d \in Saves : d # c => pc'[d] = pc[d] /\ at'[d] = at[d]
  <2>1. at \in [Saves -> 1 .. 10] /\ at[c] \in 1 .. 10
    BY DEF TypeOK, Rows
  <2>2. CASE at[c] = 10
    BY <1>2, <2>1, <2>2 DEF TypeOK
  <2>3. CASE at[c] # 10
    <3>1. at[c] + 1 \in 1 .. 10
      BY <2>1, <2>3
    <3> QED
      BY <1>2, <2>1, <2>3, <3>1 DEF TypeOK
  <2> QED
    BY <2>2, <2>3
<1>4. IInv'
  BY SetSettingInvariant
<1>5. TypeOK'
  <2>1. /\ saved' = {} \/ \E s : saved' = {s}
        /\ alone' \in BOOLEAN /\ current' \in BOOLEAN
        /\ faults' \in 0 .. MaxFaults /\ crashes' \in 0 .. MaxCrashes
    BY <1>1 DEF TypeOK, SaveInv
  <2> QED
    BY <1>3, <1>4, <2>1, TypesFrom
<1>6. Open' = Open /\ c \in Open
  BY <1>1, <1>2, <1>3 DEF Open, TypeOK
<1>7. k \in DOMAIN rows' /\ DOMAIN rows \subseteq DOMAIN rows' /\ rows'[k] = settings[c][k]
      /\ \A x \in DOMAIN rows : x # k => rows'[x] = rows[x]
  <2> HIDE DEF k
  <2> QED
    BY <1>1
<1>8. ASSUME alone
      PROVE  \A d \in Saves : Progress(d)'
  <2>1. \A d \in Saves : d # c => pc'[d] \notin {"write", "apply"}
    BY <1>3, <1>6, <1>8 DEF Open, SaveInv
  <2>2. \A i \in 1 .. at[c] : /\ Rows[i] \in DOMAIN rows'
                              /\ rows'[Rows[i]] = settings[c][Rows[i]]
    <3>1. \A i \in 1 .. at[c] - 1 : /\ Rows[i] \in DOMAIN rows
                                    /\ rows[Rows[i]] = settings[c][Rows[i]]
      BY <1>1, <1>8 DEF SaveInv, Progress
    <3>2. ASSUME NEW i \in 1 .. at[c]
          PROVE  Rows[i] \in DOMAIN rows' /\ rows'[Rows[i]] = settings[c][Rows[i]]
      <4>1. CASE i = at[c]
        BY <1>7, <4>1
      <4>2. CASE i # at[c]
        <5>1. i \in 1 .. at[c] - 1
          BY <1>2, <4>2
        <5> QED
          BY <1>7, <3>1, <5>1
      <4> QED
        BY <4>1, <4>2
    <3> QED
      BY <3>2
  <2>3. CASE at[c] = 10
    <3>1. pc'[c] = "apply" /\ at'[c] = 1
      BY <1>2, <2>3 DEF TypeOK
    <3>2. \A x \in Keys : x \in DOMAIN rows' /\ rows'[x] = settings[c][x]
      BY <2>2, <2>3, RowsCover
    <3>3. Progress(c)'
      BY <1>1, <3>1, <3>2 DEF Progress
    <3> QED
      BY <2>1, <3>3 DEF Progress
  <2>4. CASE at[c] # 10
    <3>1. pc'[c] = "write" /\ at'[c] - 1 = at[c]
      BY <1>1, <1>2, <2>4 DEF TypeOK
    <3> QED
      BY <1>1, <2>1, <2>2, <3>1 DEF Progress
  <2> QED
    BY <2>3, <2>4
<1>9. Untouched'
  BY <1>7 DEF Untouched
<1> QED
  BY <1>1, <1>5, <1>6, <1>8, <1>9 DEF SaveInv, Lasting

LEMMA FailsSaveInv ==
    ASSUME TypeOK, SaveInv, IInv, NEW c \in Saves, SetSettingFails(c)
    PROVE  TypeOK' /\ SaveInv'
<1>1. /\ pc[c] = "write" /\ pc' = [pc EXCEPT ![c] = "failed"] /\ at' = at
      /\ rows' = rows /\ live' = live /\ settings' = settings /\ saved' = saved
      /\ alone' = alone /\ current' = current /\ crashes' = crashes
      /\ faults' \in 0 .. MaxFaults
  BY SettingsAssumption DEF SetSettingFails, history, Fault, TypeOK
<1>2. /\ pc' \in [Saves -> {"new", "write", "apply", "done", "failed", "lost"}]
      /\ \A d \in Saves : d # c => pc'[d] = pc[d]
      /\ pc'[c] = "failed"
  BY <1>1 DEF TypeOK
<1>3. IInv'
  BY NextInvariant DEF Next
<1>4. TypeOK'
  BY <1>1, <1>2, <1>3, TypesFrom DEF TypeOK, SaveInv, Rows
<1>5. Open' \subseteq Open /\ c \in Open /\ saved = {}
  BY <1>1, <1>2 DEF Open, SaveInv
<1>6. \A d \in Saves : Progress(d) => Progress(d)'
  BY <1>1, <1>2 DEF Progress
<1>7. Untouched'
  BY <1>1, <1>2 DEF SaveInv, Untouched
<1> QED
  BY <1>1, <1>4, <1>5, <1>6, <1>7 DEF SaveInv, Lasting

\* One more slot is as the call has it; with the last one the save is done.
LEMMA ApplySaveInv ==
    ASSUME TypeOK, SaveInv, IInv, NEW c \in Saves, ApplySettings(c)
    PROVE  TypeOK' /\ SaveInv'
<1> DEFINE slot == Slots[at[c]]
<1>1. /\ pc[c] = "apply" /\ rows' = rows /\ settings' = settings
      /\ alone' = alone /\ faults' = faults /\ crashes' = crashes
      /\ live' = [live EXCEPT ![slot] = Effect(slot, settings[c])]
  BY DEF ApplySettings, bounds
<1>2. /\ at[c] = 6 => /\ pc' = [pc EXCEPT ![c] = "done"] /\ at' = at
                      /\ saved' = IF alone THEN {settings[c]} ELSE {}
                      /\ current' = (alone \/ current)
      /\ at[c] # 6 => /\ pc' = pc /\ at' = [at EXCEPT ![c] = @ + 1]
                      /\ saved' = saved /\ current' = current
      /\ at[c] \in 1 .. 6
  BY DEF ApplySettings, Slots, IInv
<1>3. /\ pc' \in [Saves -> {"new", "write", "apply", "done", "failed", "lost"}]
      /\ at' \in [Saves -> 1 .. 10]
      /\ \A d \in Saves : d # c => pc'[d] = pc[d] /\ at'[d] = at[d]
  <2>1. at \in [Saves -> 1 .. 10]
    BY DEF TypeOK, Rows
  <2> QED
    BY <1>2, <2>1 DEF TypeOK
<1>4. IInv'
  BY ApplySettingsInvariant
<1>5. current' \in BOOLEAN /\ (saved' = {} \/ \E s : saved' = {s})
  BY <1>2 DEF TypeOK, SaveInv
<1>6. TypeOK'
  <2>1. /\ alone' \in BOOLEAN
        /\ faults' \in 0 .. MaxFaults /\ crashes' \in 0 .. MaxCrashes
    BY <1>1 DEF TypeOK
  <2> QED
    BY <1>3, <1>4, <1>5, <2>1, TypesFrom
<1>7. live' = [n \in SlotNames |-> live'[n]]
      /\ live'[slot] = Effect(slot, settings[c])
      /\ \A n \in SlotNames : n # slot => live'[n] = live[n]
  <2>1. slot \in SlotNames
    BY <1>2 DEF Slots, SlotNames
  <2> HIDE DEF slot
  <2> QED
    BY <1>1, <2>1 DEF SaveInv
<1>8. Untouched'
  BY <1>1 DEF SaveInv, Untouched
<1>9. c \in Open
  BY <1>1 DEF Open
<1>10. ASSUME alone
       PROVE  /\ \A d \in Saves : d # c => pc'[d] \notin {"write", "apply"}
              /\ \A k \in Keys : k \in DOMAIN rows /\ rows[k] = settings[c][k]
              /\ \A i \in 1 .. at[c] : live'[Slots[i]] = Effect(Slots[i], settings[c])
  <2>1. \A d \in Saves : d # c => pc'[d] \notin {"write", "apply"}
    BY <1>3, <1>9, <1>10 DEF Open, SaveInv
  <2>2. /\ \A k \in Keys : k \in DOMAIN rows /\ rows[k] = settings[c][k]
        /\ \A i \in 1 .. at[c] - 1 : live[Slots[i]] = Effect(Slots[i], settings[c])
    BY <1>1, <1>10 DEF SaveInv, Progress
  <2>3. ASSUME NEW i \in 1 .. at[c]
        PROVE  live'[Slots[i]] = Effect(Slots[i], settings[c])
    <3>1. CASE i = at[c]
      BY <1>7, <3>1
    <3>2. CASE i # at[c]
      <4>1. i \in 1 .. at[c] - 1 /\ Slots[i] \in SlotNames /\ Slots[i] # Slots[at[c]]
        BY <1>2, <3>2 DEF Slots, SlotNames
      <4> QED
        BY <1>7, <2>2, <4>1
    <3> QED
      BY <3>1, <3>2
  <2> QED
    BY <2>1, <2>2, <2>3
<1>11. CASE at[c] # 6
  <2>1. pc' = pc /\ Open' = Open /\ saved' = {} /\ at'[c] - 1 = at[c]
    BY <1>2, <1>9, <1>11 DEF Open, SaveInv, TypeOK
  <2>2. alone' => \A d \in Saves : Progress(d)'
    BY <1>1, <1>10, <2>1 DEF Progress
  <2> QED
    BY <1>1, <1>6, <1>7, <1>8, <2>1, <2>2 DEF SaveInv, Lasting
<1>12. CASE at[c] = 6
  <2>1. pc'[c] = "done" /\ (alone => Open' = {})
    BY <1>2, <1>10, <1>12 DEF Open, TypeOK
  <2>2. alone' => \A d, e \in Open' : d = e
    BY <1>1, <2>1
  <2>3. alone' => \A d \in Saves : Progress(d)'
    BY <1>1, <1>10, <2>1 DEF Progress
  <2>4. Open' # {} => saved' = {}
    BY <1>2, <1>12, <2>1
  <2>5. Lasting'
    <3>1. CASE ~alone
      BY <1>2, <1>12, <3>1 DEF Lasting
    <3>2. CASE alone
      <4>1. settings[c] \in Settings
        BY DEF TypeOK
      <4>2. GetSettings' = settings[c]
        BY <1>1, <1>10, <3>2, <4>1, SettingsAreTheirFields DEF GetSettings, GetSetting
      <4>3. \A n \in SlotNames : live'[n] = Effect(n, settings[c])
        BY <1>10, <1>12, <3>2, SlotsCover
      <4>4. live' = InEffect(settings[c])
        BY <1>7, <4>3 DEF InEffect, SlotNames
      <4> QED
        BY <1>2, <1>12, <3>2, <4>2, <4>4 DEF Lasting
    <3> QED
      BY <3>1, <3>2
  <2> QED
    BY <1>5, <1>6, <1>7, <1>8, <2>2, <2>3, <2>4, <2>5 DEF SaveInv
<1> QED
  BY <1>11, <1>12

LEMMA RestartSaveInv ==
    ASSUME TypeOK, SaveInv, IInv, Restart
    PROVE  TypeOK' /\ SaveInv'
<1>1. /\ rows' = rows /\ at' = at /\ settings' = settings /\ saved' = saved /\ alone' = alone
      /\ pc' = [c \in Saves |-> IF c \in Open THEN "lost" ELSE pc[c]]
      /\ crashes' \in 0 .. MaxCrashes /\ faults' \in 0 .. MaxFaults /\ current' \in BOOLEAN
      /\ \/ live' = InEffect(GetSettings)
         \/ live' = Constructed /\ current' = FALSE
  <2>1. crashes' \in 0 .. MaxCrashes
    BY SettingsAssumption DEF Restart, TypeOK
  <2>2. faults' \in 0 .. MaxFaults
    BY SettingsAssumption DEF Restart, Fault, TypeOK
  <2>3. current' \in BOOLEAN
    BY DEF Restart
  <2> QED
    BY <2>1, <2>2, <2>3 DEF Restart
<1>2. pc' \in [Saves -> {"new", "write", "apply", "done", "failed", "lost"}]
      /\ \A c \in Saves : pc'[c] \notin {"write", "apply"}
  BY <1>1 DEF TypeOK, Open
<1>3. IInv'
  BY RestartInvariant
<1>4. TypeOK'
  <2>1. /\ saved' = {} \/ \E s : saved' = {s}
        /\ alone' \in BOOLEAN /\ at' \in [Saves -> 1 .. 10]
    BY <1>1 DEF TypeOK, SaveInv, Rows
  <2> QED
    BY <1>1, <1>2, <1>3, <2>1, TypesFrom
<1>5. live' = [n \in SlotNames |-> live'[n]]
  BY <1>1, WholeEffects
<1>6. Untouched'
  <2>1. DOMAIN rows = {} => GetSettings = Default
    BY DefaultValid, SettingsAreTheirFields DEF GetSettings, GetSetting, ValidSettings
  <2> QED
    BY <1>1, <1>2, <2>1 DEF Untouched
<1>7. Open' = {} /\ GetSettings' = GetSettings
  BY <1>1, <1>2 DEF Open, GetSettings, GetSetting
<1>8. Lasting'
  <2>1. saved # {} => saved = {GetSettings}
    BY DEF SaveInv, Lasting
  <2> QED
    BY <1>1, <1>7, <2>1 DEF Lasting
<1> QED
  BY <1>1, <1>2, <1>4, <1>5, <1>6, <1>7, <1>8 DEF SaveInv, Progress

LEMMA NextSaveInv ==
    ASSUME TypeOK, SaveInv, IInv, [Next]_vars
    PROVE  TypeOK' /\ SaveInv'
<1>1. CASE UNCHANGED vars
  <2>1. /\ rows' = rows /\ live' = live /\ pc' = pc /\ at' = at /\ settings' = settings
        /\ saved' = saved /\ alone' = alone /\ current' = current
        /\ faults' = faults /\ crashes' = crashes
    BY <1>1 DEF vars, calls, history, bounds
  <2>2. Open' = Open /\ Untouched' /\ (\A c \in Saves : Progress(c) => Progress(c)')
    BY <2>1 DEF Open, Untouched, Progress, SaveInv
  <2>3. Lasting'
    BY <2>1, <2>2 DEF Lasting, SaveInv, GetSettings, GetSetting
  <2>4. TypeOK'
    BY <2>1 DEF TypeOK
  <2> QED
    BY <2>1, <2>2, <2>3, <2>4 DEF SaveInv
<1> QED
  BY <1>1, BeginSaveInv, SetSettingSaveInv, FailsSaveInv, ApplySaveInv, RestartSaveInv DEF Next

\* A save that no other overlapped and that reported success is in the table and in effect,
\* also after every restart that can read the table, whatever earlier or later saves fail
\* or are cut short (SaveSettings, ApplySettings, newApp).
THEOREM SavesLastAlways == MCSpec => []SavesLast
<1>1. TypeOK /\ SaveInv => SavesLast
  <2>1. ASSUME SaveInv PROVE SavedTakesEffect
    BY <2>1 DEF SaveInv, Lasting, SavedTakesEffect
  <2>2. ASSUME SaveInv PROVE UntouchedIsNeutral
    BY <2>2, WholeEffects DEF SaveInv, Untouched, UntouchedIsNeutral
  <2> QED
    BY <2>1, <2>2 DEF SavesLast
<1>2. Init => IInv /\ TypeOK /\ SaveInv
  BY InitInvariant, InitSaveInv
<1>3. IInv /\ TypeOK /\ SaveInv /\ [Next]_vars => (IInv /\ TypeOK /\ SaveInv)'
  BY NextInvariant, NextSaveInv
<1> QED
  BY <1>1, <1>2, <1>3, SpecIsSettings, PTL DEF Spec

-----------------------------------------------------------------------------
(* Transfers: what the screen shows *)

\* What is on its way to the screen.
Mail == {inbox[i] : i \in 1 .. Len(inbox)}

Messages ==
    [kind : {"event"}, task : Tasks, status : {"running", "paused", "failed"} \cup T!Terminal]
    \cup [kind : {"answer"}, queue : [Tasks -> {"none"} \cup T!InQueue]]

\* An answer of GetQueue is still to be read or to arrive.
AnswerComes ==
    \/ \E c \in Calls : step[c] \in {"fetch", "answer"}
    \/ \E m \in Mail : m.kind = "answer"

EventComes(t) == \E m \in Mail : m.kind = "event" /\ m.task = t

\* A tracker runs only beside its attempt.
TrackerInv ==
    \A t \in Tasks :
        /\ tracker[t] # "off" => run[t] \in {"working", "stopping"}
        /\ run[t] \in {"stopping", "joined", "stored"} =>
             outcome[t] \in {"paused", "failed"} \cup T!Terminal

\* What a call may ask of a task.
Ops == {"pause", "resume", "cancel", "retry", "drop"}

\* A call under way asks something of a task, and one that waits does so for an attempt.
WaitInv ==
    \A c \in Calls :
        /\ step[c] \in {"look", "read", "write", "wait"} =>
             task[c] \in Tasks /\ asked[c] \in Ops
        /\ step[c] = "wait" => run[task[c]] # "none"

\* What makes the screen catch up: a task that it does not show as stored has an answer, an
\* event, or the end of an attempt still to come, and the one it does not show at all has an
\* answer, because the events of such a task are dropped.
ShownInv ==
    \A t \in Tasks \ (overtaken \cup unannounced) :
        /\ shown[t] = "none" /\ T!GetQueue[t] # "none" => AnswerComes
        /\ shown[t] # T!GetQueue[t] =>
             AnswerComes \/ EventComes(t) \/ run[t] \notin {"none", "published"}

ScreenInv == T!TypeOK /\ inbox \in Seq(Messages) /\ TrackerInv /\ WaitInv /\ ShownInv

LEMMA MailAppend ==
    ASSUME inbox \in Seq(Messages), NEW m \in Messages, inbox' = Append(inbox, m)
    PROVE  inbox' \in Seq(Messages) /\ Mail' = Mail \cup {m}
<1>1. /\ inbox' \in Seq(Messages) /\ Len(inbox') = Len(inbox) + 1 /\ Len(inbox) \in Nat
      /\ \A i \in 1 .. Len(inbox) : inbox'[i] = inbox[i]
      /\ inbox'[Len(inbox) + 1] = m
  OBVIOUS
<1>2. Mail' \subseteq Mail \cup {m}
  BY <1>1 DEF Mail
<1>3. Mail \subseteq Mail' /\ m \in Mail'
  BY <1>1 DEF Mail
<1> QED
  BY <1>1, <1>2, <1>3

LEMMA MailTail ==
    ASSUME inbox \in Seq(Messages), inbox # <<>>, inbox' = Tail(inbox)
    PROVE  /\ inbox' \in Seq(Messages) /\ Head(inbox) \in Messages
           /\ Mail' \subseteq Mail /\ Mail \subseteq Mail' \cup {Head(inbox)}
<1>1. /\ inbox' \in Seq(Messages) /\ Len(inbox') = Len(inbox) - 1 /\ Len(inbox) \in Nat \ {0}
      /\ \A i \in 1 .. Len(inbox') : inbox'[i] = inbox[i + 1]
      /\ Head(inbox) = inbox[1] /\ Head(inbox) \in Messages
  OBVIOUS
<1>2. Mail' \subseteq Mail
  BY <1>1 DEF Mail
<1>3. ASSUME NEW i \in 1 .. Len(inbox)
      PROVE  inbox[i] \in Mail' \cup {Head(inbox)}
  <2>1. CASE i = 1
    BY <1>1, <2>1
  <2>2. CASE i # 1
    <3>1. i - 1 \in 1 .. Len(inbox') /\ inbox'[i - 1] = inbox[i]
      BY <1>1, <2>2
    <3> QED
      BY <3>1 DEF Mail
  <2> QED
    BY <2>1, <2>2
<1>4. Mail \subseteq Mail' \cup {Head(inbox)}
  BY <1>3 DEF Mail
<1> QED
  BY <1>1, <1>2, <1>4

LEMMA QueueType == ASSUME T!TypeOK PROVE T!GetQueue \in [Tasks -> {"none"} \cup T!InQueue]
BY DEF T!TypeOK, T!GetQueue

LEMMA InitScreenInv == T!Init => ScreenInv
<1> SUFFICES ASSUME T!Init PROVE ScreenInv
  OBVIOUS
<1>1. PICK c \in Calls : step = [d \in Calls |-> IF d = c THEN "fetch" ELSE "idle"]
  BY DEF T!Init
<1>2. T!TypeOK
  <2>1. T!ScreenAssumption
    BY ScreensAssumption
  <2> QED
    BY <1>1, <2>1 DEF T!Init, T!TypeOK, T!InQueue, T!Terminal, T!ScreenAssumption
<1>3. AnswerComes
  BY <1>1 DEF AnswerComes
<1>4. TrackerInv /\ WaitInv
  BY <1>1 DEF T!Init, TrackerInv, WaitInv
<1>5. inbox \in Seq(Messages)
  BY DEF T!Init
<1> QED
  BY <1>2, <1>3, <1>4, <1>5 DEF ScreenInv, ShownInv

LEMMA ScreenConstants == MaxActions \in Nat /\ MaxTicks \in Nat /\ MaxLists \in Nat
BY ScreensAssumption DEF T!ScreenAssumption

\* A write changes the row of its task, if there is one.
LEMMA StoredRows ==
    ASSUME T!TypeOK, NEW t \in Tasks, NEW status \in T!InQueue \cup T!Terminal
    PROVE  /\ T!Stored(t, status) \in [Tasks -> {"none"} \cup T!InQueue \cup T!Terminal]
           /\ \A s \in Tasks \ {t} : T!Stored(t, status)[s] = row[s]
           /\ T!Stored(t, status)[t] \in T!InQueue => row[t] \in T!InQueue
BY DEF T!TypeOK, T!Stored

\* The types, in parts.
RowType == row \in [Tasks -> {"none"} \cup T!InQueue \cup T!Terminal]
AttemptTypes ==
    /\ lists \in [Tasks -> 0..MaxLists]
    /\ run \in [Tasks -> {"none", "starting", "working", "stopping", "joined", "stored",
                          "published"}]
    /\ intent \in [Tasks -> {"none", "pause", "cancel"}]
    /\ outcome \in [Tasks -> {"none", "paused", "failed"} \cup T!Terminal]
    /\ tracker \in [Tasks -> {"off", "idle", "publishing", "persisting"}]
    /\ ticks \in 0..MaxTicks
CallTypes ==
    /\ step \in [Calls -> {"idle", "look", "read", "write", "wait", "fetch", "answer"}]
    /\ asked \in [Calls -> {"none"} \cup Ops]
    /\ task \in [Calls -> Tasks \cup {"none"}]
    /\ data \in [Calls -> [Tasks -> {"none"} \cup T!InQueue]]
    /\ actions \in 0..MaxActions
ViewTypes ==
    /\ shown \in [Tasks -> {"none"} \cup T!InQueue]
    /\ overtaken \subseteq Tasks /\ unannounced \subseteq Tasks

LEMMA TypesInParts == T!TypeOK <=> RowType /\ AttemptTypes /\ CallTypes /\ ViewTypes
BY DEF T!TypeOK, RowType, AttemptTypes, CallTypes, ViewTypes, Ops

Types == RowType /\ AttemptTypes /\ CallTypes /\ ViewTypes /\ inbox \in Seq(Messages)

\* They are kept, action by action.
LEMMA TypeStep ==
    ASSUME T!TypeOK, inbox \in Seq(Messages), TrackerInv, WaitInv, [T!Next]_(T!vars)
    PROVE  T!TypeOK' /\ (inbox \in Seq(Messages))'
<1> SUFFICES Types'
  BY DEF T!TypeOK, Types, RowType, AttemptTypes, CallTypes, ViewTypes, Ops
<1>. USE ScreenConstants
<1>0. /\ Types
      /\ row' = row => RowType'
      /\ UNCHANGED T!attempt => AttemptTypes'
      /\ UNCHANGED T!calls => CallTypes'
      /\ UNCHANGED T!screen => ViewTypes'
  BY TypesInParts
  DEF Types, RowType, AttemptTypes, CallTypes, ViewTypes, T!attempt, T!calls, T!screen
<1>1. ASSUME NEW t \in Tasks, T!ListPending(t)
      PROVE  Types'
  BY <1>0, <1>1 DEF T!ListPending, Types, AttemptTypes
<1>2. ASSUME NEW t \in Tasks, T!Start(t)
      PROVE  Types'
  BY <1>0, <1>2 DEF T!Start, Types, AttemptTypes
<1>3. ASSUME NEW t \in Tasks, T!PassOver(t)
      PROVE  Types'
  BY <1>0, <1>3 DEF T!PassOver, Types, AttemptTypes
<1>4. ASSUME NEW t \in Tasks, T!MarkRunning(t)
      PROVE  Types'
  <2>1. RowType'
    BY <1>4, StoredRows, <1>0, TypesInParts DEF T!MarkRunning, RowType, Types, T!InQueue
  <2>2. AttemptTypes'
    BY <1>4, <1>0 DEF T!MarkRunning, AttemptTypes, Types
  <2> QED
    BY <1>4, <1>0, <2>1, <2>2 DEF T!MarkRunning, Types
<1>5. ASSUME NEW t \in Tasks, T!TransferReturns(t)
      PROVE  Types'
  BY <1>0, <1>5 DEF T!TransferReturns, Types, AttemptTypes, T!Terminal
<1>6. ASSUME NEW t \in Tasks, T!StopTracker(t)
      PROVE  Types'
  BY <1>0, <1>6 DEF T!StopTracker, Types, AttemptTypes
<1>7. ASSUME NEW t \in Tasks, T!StoreResult(t)
      PROVE  Types'
  <2>1. outcome[t] \in T!InQueue \cup T!Terminal
    BY <1>7 DEF T!StoreResult, TrackerInv, T!InQueue
  <2>2. RowType'
    BY <1>7, <2>1, StoredRows DEF T!StoreResult, RowType
  <2>3. AttemptTypes'
    BY <1>7, <1>0 DEF T!StoreResult, AttemptTypes, Types
  <2> QED
    BY <1>7, <1>0, <2>2, <2>3 DEF T!StoreResult, Types
<1>8. ASSUME NEW t \in Tasks, T!Publish(t)
      PROVE  Types'
  <2>1. T!Event(t, outcome[t]) \in Messages
    BY <1>8 DEF T!Publish, T!Event, Messages, TrackerInv
  <2>2. (inbox \in Seq(Messages))'
    BY <1>8, <1>0, <2>1, MailAppend DEF T!Publish, Types
  <2>3. AttemptTypes'
    BY <1>8, <1>0 DEF T!Publish, AttemptTypes, Types
  <2> QED
    BY <1>8, <1>0, <2>2, <2>3 DEF T!Publish, Types
<1>9. ASSUME NEW t \in Tasks, T!Finish(t)
      PROVE  Types'
  <2>1. AttemptTypes'
    BY <1>9, <1>0 DEF T!Finish, AttemptTypes, Types
  <2>2. CallTypes'
    BY <1>9, <1>0 DEF T!Finish, T!Return, CallTypes, Types
  <2> QED
    BY <1>9, <1>0, <2>1, <2>2 DEF T!Finish, Types
<1>10. ASSUME NEW t \in Tasks, T!Tick(t)
       PROVE  Types'
  <2>1. ticks' \in 0..MaxTicks
    BY <1>0, <1>10 DEF T!Tick, Types, AttemptTypes
  <2>2. tracker' \in [Tasks -> {"off", "idle", "publishing", "persisting"}]
    <3>1. PICK p \in {"publishing", "persisting"} : tracker' = [tracker EXCEPT ![t] = p]
      BY <1>10 DEF T!Tick
    <3> QED
      BY <1>0, <3>1 DEF Types, AttemptTypes
  <2> QED
    BY <1>0, <1>10, <2>1, <2>2 DEF T!Tick, Types, AttemptTypes
<1>11. ASSUME NEW t \in Tasks, T!TickPublishes(t)
       PROVE  Types'
  <2>1. T!Event(t, "running") \in Messages
    BY <1>11 DEF T!TickPublishes, T!Event, Messages, TrackerInv
  <2>2. (inbox \in Seq(Messages))'
    BY <1>11, <1>0, <2>1, MailAppend DEF T!TickPublishes, Types
  <2>3. AttemptTypes'
    BY <1>11, <1>0 DEF T!TickPublishes, AttemptTypes, Types
  <2> QED
    BY <1>11, <1>0, <2>2, <2>3 DEF T!TickPublishes, Types
<1>12. ASSUME NEW t \in Tasks, T!TickPersists(t)
       PROVE  Types'
  BY <1>0, <1>12 DEF T!TickPersists, Types, AttemptTypes
<1>13. ASSUME NEW t \in Tasks, T!TrackerReturns(t)
       PROVE  Types'
  BY <1>0, <1>13 DEF T!TrackerReturns, Types, AttemptTypes
<1>14. ASSUME NEW c \in Calls, NEW t \in Tasks, T!Queue(c, t)
       PROVE  Types'
  <2>1. RowType'
    BY <1>14, <1>0 DEF T!Queue, RowType, Types, T!InQueue
  <2>2. CallTypes'
    BY <1>14, <1>0 DEF T!Queue, CallTypes, Types
  <2> QED
    BY <1>14, <1>0, <2>1, <2>2 DEF T!Queue, Types
<1>15. ASSUME NEW c \in Calls, NEW t \in Tasks, NEW op \in Ops, T!Ask(c, op, t)
       PROVE  Types'
  <2>1. CallTypes'
    BY <1>15, <1>0 DEF T!Ask, CallTypes, Types, RowType, Ops
  <2> QED
    BY <1>15, <1>0, <2>1 DEF T!Ask, Types
<1>16. ASSUME NEW c \in Calls, T!AskAttempt(c)
       PROVE  Types'
  <2>1. AttemptTypes'
    BY <1>16, <1>0 DEF T!AskAttempt, AttemptTypes, Types
  <2>2. CallTypes'
    BY <1>16, <1>0 DEF T!AskAttempt, CallTypes, Types
  <2> QED
    BY <1>16, <1>0, <2>1, <2>2 DEF T!AskAttempt, Types
<1>17. ASSUME NEW c \in Calls, T!MissAttempt(c)
       PROVE  Types'
  <2>1. CallTypes'
    BY <1>17, <1>0 DEF T!MissAttempt, CallTypes, Types, RowType, T!Refuse
  <2> QED
    BY <1>17, <1>0, <2>1 DEF T!MissAttempt, Types
<1>18. ASSUME NEW c \in Calls, T!ReadStatus(c)
       PROVE  Types'
  <2>1. CallTypes'
    BY <1>18, <1>0 DEF T!ReadStatus, CallTypes, Types, RowType, T!Refuse
  <2> QED
    BY <1>18, <1>0, <2>1 DEF T!ReadStatus, Types
<1>19. ASSUME NEW c \in Calls, T!WriteStatus(c)
       PROVE  Types'
  <2>1. task[c] \in Tasks /\ asked[c] \in Ops
    BY <1>19 DEF T!WriteStatus, WaitInv
  <2>2. T!Leaves(asked[c]) \in T!InQueue \cup T!Terminal
    BY <2>1 DEF T!Leaves, T!InQueue, T!Terminal, Ops
  <2>3. RowType'
    BY <1>19, <2>1, <2>2, StoredRows DEF T!WriteStatus, RowType
  <2>4. CallTypes'
    BY <1>19, <1>0 DEF T!WriteStatus, T!Return, T!Refuse, CallTypes, Types
  <2>5. ViewTypes'
    BY <1>19, <1>0, <2>1 DEF T!WriteStatus, ViewTypes, Types
  <2> QED
    BY <1>19, <1>0, <2>3, <2>4, <2>5 DEF T!WriteStatus, Types
<1>20. ASSUME NEW c \in Calls, T!Fetch(c)
       PROVE  Types'
  <2>1. CallTypes'
    BY <1>20, <1>0 DEF T!Fetch, CallTypes, Types, RowType, T!GetQueue, T!InQueue
  <2> QED
    BY <1>20, <1>0, <2>1 DEF T!Fetch, Types
<1>21. ASSUME NEW c \in Calls, T!SendAnswer(c)
       PROVE  Types'
  <2>1. T!Answer(data[c]) \in Messages
    BY <1>21, <1>0 DEF T!SendAnswer, T!Answer, Messages, CallTypes, Types
  <2>2. (inbox \in Seq(Messages))'
    BY <1>21, <1>0, <2>1, MailAppend DEF T!SendAnswer, Types
  <2>3. CallTypes'
    BY <1>21, <1>0 DEF T!SendAnswer, CallTypes, Types
  <2> QED
    BY <1>21, <1>0, <2>2, <2>3 DEF T!SendAnswer, Types
<1>22. CASE T!applyProgressEvent
  <2>. DEFINE e == Head(inbox)
  <2>1. (inbox \in Seq(Messages))' /\ e \in Messages
    BY <1>22, MailTail DEF T!applyProgressEvent
  <2>2. e.task \in Tasks /\ e.status \in {"running", "paused", "failed"} \cup T!Terminal
    <3>1. e.kind = "event"
      BY <1>22 DEF T!applyProgressEvent
    <3> HIDE DEF e
    <3> QED
      BY <2>1, <3>1 DEF Messages
  <2>3. ViewTypes'
    BY <1>22, <1>0, <2>2
    DEF T!applyProgressEvent, T!screen, ViewTypes, Types, T!InQueue, T!Terminal
  <2> QED
    BY <1>22, <1>0, <2>1, <2>3 DEF T!applyProgressEvent, Types
<1>23. CASE T!ShowQueue
  <2>. DEFINE e == Head(inbox)
  <2>1. (inbox \in Seq(Messages))' /\ e \in Messages
    BY <1>23, MailTail DEF T!ShowQueue
  <2>2. e.queue \in [Tasks -> {"none"} \cup T!InQueue]
    <3>1. e.kind = "answer"
      BY <1>23 DEF T!ShowQueue
    <3> HIDE DEF e
    <3> QED
      BY <2>1, <3>1 DEF Messages
  <2>3. ViewTypes'
    BY <1>23, <2>2 DEF T!ShowQueue, ViewTypes
  <2> QED
    BY <1>23, <1>0, <2>1, <2>3 DEF T!ShowQueue, Types
<1>24. CASE UNCHANGED T!vars
  BY <1>0, <1>24 DEF T!vars, Types
<1> QED
  BY <1>1, <1>2, <1>3, <1>4, <1>5, <1>6, <1>7, <1>8, <1>9, <1>10, <1>11, <1>12, <1>13, <1>14,
     <1>15, <1>16, <1>17, <1>18, <1>19, <1>20, <1>21, <1>22, <1>23, <1>24
  DEF T!Next, T!Dispatch, T!TaskRun, T!TrackerRun, T!User, T!CallRun, T!Screen, Ops

\* A tracker never outlives its attempt.
LEMMA TrackerStep ==
    ASSUME T!TypeOK, TrackerInv, [T!Next]_(T!vars)
    PROVE  TrackerInv'
<1>. USE DEF T!TypeOK, TrackerInv
<1>1. ASSUME NEW t \in Tasks, T!ListPending(t)
      PROVE  TrackerInv'
  BY <1>1 DEF T!ListPending, T!attempt, T!calls, T!screen
<1>2. ASSUME NEW t \in Tasks, T!Start(t)
      PROVE  TrackerInv'
  BY <1>2 DEF T!Start, T!attempt, T!calls, T!screen
<1>3. ASSUME NEW t \in Tasks, T!PassOver(t)
      PROVE  TrackerInv'
  BY <1>3 DEF T!PassOver, T!attempt, T!calls, T!screen
<1>4. ASSUME NEW t \in Tasks, T!MarkRunning(t)
      PROVE  TrackerInv'
  BY <1>4 DEF T!MarkRunning, T!attempt, T!calls, T!screen
<1>5. ASSUME NEW t \in Tasks, T!TransferReturns(t)
      PROVE  TrackerInv'
  BY <1>5 DEF T!TransferReturns, T!attempt, T!calls, T!screen, T!Terminal
<1>6. ASSUME NEW t \in Tasks, T!StopTracker(t)
      PROVE  TrackerInv'
  BY <1>6 DEF T!StopTracker, T!attempt, T!calls, T!screen
<1>7. ASSUME NEW t \in Tasks, T!StoreResult(t)
      PROVE  TrackerInv'
  BY <1>7 DEF T!StoreResult, T!attempt, T!calls, T!screen
<1>8. ASSUME NEW t \in Tasks, T!Publish(t)
      PROVE  TrackerInv'
  BY <1>8 DEF T!Publish, T!attempt, T!calls, T!screen
<1>9. ASSUME NEW t \in Tasks, T!Finish(t)
      PROVE  TrackerInv'
  BY <1>9 DEF T!Finish, T!attempt, T!calls, T!screen
<1>10. ASSUME NEW t \in Tasks, T!Tick(t)
       PROVE  TrackerInv'
  BY <1>10 DEF T!Tick, T!attempt, T!calls, T!screen
<1>11. ASSUME NEW t \in Tasks, T!TickPublishes(t)
       PROVE  TrackerInv'
  BY <1>11 DEF T!TickPublishes, T!attempt, T!calls, T!screen
<1>12. ASSUME NEW t \in Tasks, T!TickPersists(t)
       PROVE  TrackerInv'
  BY <1>12 DEF T!TickPersists, T!attempt, T!calls, T!screen
<1>13. ASSUME NEW t \in Tasks, T!TrackerReturns(t)
       PROVE  TrackerInv'
  BY <1>13 DEF T!TrackerReturns, T!attempt, T!calls, T!screen
<1>14. ASSUME NEW c \in Calls, NEW t \in Tasks, T!Queue(c, t)
       PROVE  TrackerInv'
  BY <1>14 DEF T!Queue, T!attempt, T!calls, T!screen
<1>15. ASSUME NEW c \in Calls, NEW t \in Tasks, NEW op \in Ops, T!Ask(c, op, t)
       PROVE  TrackerInv'
  BY <1>15 DEF T!Ask, T!attempt, T!calls, T!screen
<1>16. ASSUME NEW c \in Calls, T!AskAttempt(c)
       PROVE  TrackerInv'
  BY <1>16 DEF T!AskAttempt, T!attempt, T!calls, T!screen
<1>17. ASSUME NEW c \in Calls, T!MissAttempt(c)
       PROVE  TrackerInv'
  BY <1>17 DEF T!MissAttempt, T!attempt, T!calls, T!screen
<1>18. ASSUME NEW c \in Calls, T!ReadStatus(c)
       PROVE  TrackerInv'
  BY <1>18 DEF T!ReadStatus, T!attempt, T!calls, T!screen
<1>19. ASSUME NEW c \in Calls, T!WriteStatus(c)
       PROVE  TrackerInv'
  BY <1>19 DEF T!WriteStatus, T!attempt, T!calls, T!screen
<1>20. ASSUME NEW c \in Calls, T!Fetch(c)
       PROVE  TrackerInv'
  BY <1>20 DEF T!Fetch, T!attempt, T!calls, T!screen
<1>21. ASSUME NEW c \in Calls, T!SendAnswer(c)
       PROVE  TrackerInv'
  BY <1>21 DEF T!SendAnswer, T!attempt, T!calls, T!screen
<1>22. CASE T!applyProgressEvent
  BY <1>22 DEF T!applyProgressEvent, T!attempt, T!calls, T!screen
<1>23. CASE T!ShowQueue
  BY <1>23 DEF T!ShowQueue, T!attempt, T!calls, T!screen
<1>24. CASE UNCHANGED T!vars
  BY <1>24 DEF T!vars, T!attempt, T!calls, T!screen
<1> QED
  BY <1>1, <1>2, <1>3, <1>4, <1>5, <1>6, <1>7, <1>8, <1>9, <1>10, <1>11, <1>12, <1>13, <1>14,
     <1>15, <1>16, <1>17, <1>18, <1>19, <1>20, <1>21, <1>22, <1>23, <1>24
  DEF T!Next, T!Dispatch, T!TaskRun, T!TrackerRun, T!User, T!CallRun, T!Screen, Ops

\* An attempt that ends wakes every call that waits for it.
LEMMA WaitStep ==
    ASSUME T!TypeOK, WaitInv, [T!Next]_(T!vars)
    PROVE  WaitInv'
<1>. USE DEF T!TypeOK, WaitInv
<1>1. ASSUME NEW t \in Tasks, T!ListPending(t)
      PROVE  WaitInv'
  BY <1>1 DEF T!ListPending, T!attempt, T!calls, T!screen
<1>2. ASSUME NEW t \in Tasks, T!Start(t)
      PROVE  WaitInv'
  BY <1>2 DEF T!Start, T!attempt, T!calls, T!screen
<1>3. ASSUME NEW t \in Tasks, T!PassOver(t)
      PROVE  WaitInv'
  BY <1>3 DEF T!PassOver, T!attempt, T!calls, T!screen
<1>4. ASSUME NEW t \in Tasks, T!MarkRunning(t)
      PROVE  WaitInv'
  BY <1>4 DEF T!MarkRunning, T!attempt, T!calls, T!screen
<1>5. ASSUME NEW t \in Tasks, T!TransferReturns(t)
      PROVE  WaitInv'
  BY <1>5 DEF T!TransferReturns, T!attempt, T!calls, T!screen
<1>6. ASSUME NEW t \in Tasks, T!StopTracker(t)
      PROVE  WaitInv'
  BY <1>6 DEF T!StopTracker, T!attempt, T!calls, T!screen
<1>7. ASSUME NEW t \in Tasks, T!StoreResult(t)
      PROVE  WaitInv'
  BY <1>7 DEF T!StoreResult, T!attempt, T!calls, T!screen
<1>8. ASSUME NEW t \in Tasks, T!Publish(t)
      PROVE  WaitInv'
  BY <1>8 DEF T!Publish, T!attempt, T!calls, T!screen
<1>9. ASSUME NEW t \in Tasks, T!Finish(t)
      PROVE  WaitInv'
  BY <1>9 DEF T!Finish, T!attempt, T!calls, T!screen, T!Return
<1>10. ASSUME NEW t \in Tasks, T!Tick(t)
       PROVE  WaitInv'
  BY <1>10 DEF T!Tick, T!attempt, T!calls, T!screen
<1>11. ASSUME NEW t \in Tasks, T!TickPublishes(t)
       PROVE  WaitInv'
  BY <1>11 DEF T!TickPublishes, T!attempt, T!calls, T!screen
<1>12. ASSUME NEW t \in Tasks, T!TickPersists(t)
       PROVE  WaitInv'
  BY <1>12 DEF T!TickPersists, T!attempt, T!calls, T!screen
<1>13. ASSUME NEW t \in Tasks, T!TrackerReturns(t)
       PROVE  WaitInv'
  BY <1>13 DEF T!TrackerReturns, T!attempt, T!calls, T!screen
<1>14. ASSUME NEW c \in Calls, NEW t \in Tasks, T!Queue(c, t)
       PROVE  WaitInv'
  BY <1>14 DEF T!Queue, T!attempt, T!calls, T!screen
<1>15. ASSUME NEW c \in Calls, NEW t \in Tasks, NEW op \in Ops, T!Ask(c, op, t)
       PROVE  WaitInv'
  BY <1>15 DEF T!Ask, T!attempt, T!calls, T!screen, Ops
<1>16. ASSUME NEW c \in Calls, T!AskAttempt(c)
       PROVE  WaitInv'
  BY <1>16 DEF T!AskAttempt, T!attempt, T!calls, T!screen
<1>17. ASSUME NEW c \in Calls, T!MissAttempt(c)
       PROVE  WaitInv'
  BY <1>17 DEF T!MissAttempt, T!attempt, T!calls, T!screen, T!Refuse
<1>18. ASSUME NEW c \in Calls, T!ReadStatus(c)
       PROVE  WaitInv'
  BY <1>18 DEF T!ReadStatus, T!attempt, T!calls, T!screen, T!Refuse
<1>19. ASSUME NEW c \in Calls, T!WriteStatus(c)
       PROVE  WaitInv'
  BY <1>19 DEF T!WriteStatus, T!attempt, T!calls, T!screen, T!Return, T!Refuse
<1>20. ASSUME NEW c \in Calls, T!Fetch(c)
       PROVE  WaitInv'
  BY <1>20 DEF T!Fetch, T!attempt, T!calls, T!screen
<1>21. ASSUME NEW c \in Calls, T!SendAnswer(c)
       PROVE  WaitInv'
  BY <1>21 DEF T!SendAnswer, T!attempt, T!calls, T!screen
<1>22. CASE T!applyProgressEvent
  BY <1>22 DEF T!applyProgressEvent, T!attempt, T!calls, T!screen
<1>23. CASE T!ShowQueue
  BY <1>23 DEF T!ShowQueue, T!attempt, T!calls, T!screen
<1>24. CASE UNCHANGED T!vars
  BY <1>24 DEF T!vars, T!attempt, T!calls, T!screen
<1> QED
  BY <1>1, <1>2, <1>3, <1>4, <1>5, <1>6, <1>7, <1>8, <1>9, <1>10, <1>11, <1>12, <1>13, <1>14,
     <1>15, <1>16, <1>17, <1>18, <1>19, <1>20, <1>21, <1>22, <1>23, <1>24
  DEF T!Next, T!Dispatch, T!TaskRun, T!TrackerRun, T!User, T!CallRun, T!Screen, Ops

\* What the screen shows stays, and so does whatever will correct it.
LEMMA ShownFrame ==
    ASSUME ShownInv, T!GetQueue' = T!GetQueue, shown' = shown,
           overtaken' = overtaken, unannounced' = unannounced,
           AnswerComes => AnswerComes',
           \A t \in Tasks : EventComes(t) => EventComes(t)',
           \A t \in Tasks : run[t] \notin {"none", "published"} =>
                             run'[t] \notin {"none", "published"} \/ EventComes(t)'
    PROVE  ShownInv'
<1> SUFFICES ASSUME NEW t \in Tasks, t \notin overtaken \cup unannounced
             PROVE  /\ shown[t] = "none" /\ T!GetQueue[t] # "none" => AnswerComes'
                    /\ shown[t] # T!GetQueue[t] =>
                         \/ AnswerComes' \/ EventComes(t)'
                         \/ run'[t] \notin {"none", "published"}
  BY DEF ShownInv
<1> QED
  BY DEF ShownInv

\* Mail that is only added to loses no event and no answer.
LEMMA MailGrows ==
    ASSUME Mail \subseteq Mail'
    PROVE  /\ \A t \in Tasks : EventComes(t) => EventComes(t)'
           /\ (\A c \in Calls : step[c] \in {"fetch", "answer"} =>
                   step'[c] \in {"fetch", "answer"})
                => (AnswerComes => AnswerComes')
BY DEF EventComes, AnswerComes

\* A step that moves the rows, the screen and the calls not at all.
LEMMA AttemptShown ==
    ASSUME ShownInv, Mail \subseteq Mail', row' = row, step' = step,
           shown' = shown, overtaken' = overtaken, unannounced' = unannounced,
           \A t \in Tasks : run[t] \notin {"none", "published"} =>
                             run'[t] \notin {"none", "published"} \/ EventComes(t)'
    PROVE  ShownInv'
<1>1. T!GetQueue' = T!GetQueue
  BY DEF T!GetQueue
<1>2. \A t \in Tasks : EventComes(t) => EventComes(t)'
  BY MailGrows
<1>3. AnswerComes => AnswerComes'
  BY MailGrows
<1> QED
  BY <1>1, <1>2, <1>3, ShownFrame

LEMMA SameMail == ASSUME inbox' = inbox PROVE Mail' = Mail
BY DEF Mail

LEMMA ShownStep ==
    ASSUME ScreenInv, [T!Next]_(T!vars)
    PROVE  ShownInv'
<1>. USE DEF ScreenInv
<1>1. ASSUME NEW t \in Tasks, T!ListPending(t)
      PROVE  ShownInv'
  <2>1. /\ inbox' = inbox /\ row' = row /\ UNCHANGED T!screen /\ step' = step
        /\ \A s \in Tasks : run[s] \notin {"none", "published"} =>
               run'[s] \notin {"none", "published"}
    BY <1>1 DEF T!ListPending, T!attempt, T!calls, T!screen, T!TypeOK
  <2> QED
    BY <2>1, SameMail, AttemptShown DEF T!screen
<1>2. ASSUME NEW t \in Tasks, T!Start(t)
      PROVE  ShownInv'
  <2>1. /\ inbox' = inbox /\ row' = row /\ UNCHANGED T!screen /\ step' = step
        /\ \A s \in Tasks : run[s] \notin {"none", "published"} =>
               run'[s] \notin {"none", "published"}
    BY <1>2 DEF T!Start, T!attempt, T!calls, T!screen, T!TypeOK
  <2> QED
    BY <2>1, SameMail, AttemptShown DEF T!screen
<1>3. ASSUME NEW t \in Tasks, T!PassOver(t)
      PROVE  ShownInv'
  <2>1. /\ inbox' = inbox /\ row' = row /\ UNCHANGED T!screen /\ step' = step
        /\ \A s \in Tasks : run[s] \notin {"none", "published"} =>
               run'[s] \notin {"none", "published"}
    BY <1>3 DEF T!PassOver, T!attempt, T!calls, T!screen, T!TypeOK
  <2> QED
    BY <2>1, SameMail, AttemptShown DEF T!screen
<1>4. ASSUME NEW t \in Tasks, T!MarkRunning(t)
      PROVE  ShownInv'
  <2>1. /\ inbox' = inbox /\ UNCHANGED T!screen /\ step' = step
        /\ \A s \in Tasks \ {t} : run'[s] = run[s]
        /\ run'[t] \notin {"none", "published"}
    BY <1>4 DEF T!MarkRunning, T!calls, T!screen, T!TypeOK
  <2>2. /\ \A s \in Tasks \ {t} : row'[s] = row[s]
        /\ row'[t] \in T!InQueue => row[t] \in T!InQueue
    BY <1>4, StoredRows DEF T!MarkRunning, TrackerInv, T!InQueue, T!Terminal
  <2>3. Mail' = Mail
    BY <2>1, SameMail
  <2>4. /\ AnswerComes' = AnswerComes
        /\ \A s \in Tasks : EventComes(s)' = EventComes(s)
    BY <2>1, <2>3 DEF AnswerComes, EventComes
  <2>5. /\ T!GetQueue'[t] # "none" => T!GetQueue[t] # "none"
        /\ \A s \in Tasks \ {t} : T!GetQueue'[s] = T!GetQueue[s]
    BY <2>2 DEF T!GetQueue, T!InQueue
  <2> QED
    BY <2>1, <2>4, <2>5 DEF ShownInv, T!screen
<1>5. ASSUME NEW t \in Tasks, T!TransferReturns(t)
      PROVE  ShownInv'
  <2>1. /\ inbox' = inbox /\ row' = row /\ UNCHANGED T!screen /\ step' = step
        /\ \A s \in Tasks : run[s] \notin {"none", "published"} =>
               run'[s] \notin {"none", "published"}
    BY <1>5 DEF T!TransferReturns, T!attempt, T!calls, T!screen, T!TypeOK
  <2> QED
    BY <2>1, SameMail, AttemptShown DEF T!screen
<1>6. ASSUME NEW t \in Tasks, T!StopTracker(t)
      PROVE  ShownInv'
  <2>1. /\ inbox' = inbox /\ row' = row /\ UNCHANGED T!screen /\ step' = step
        /\ \A s \in Tasks : run[s] \notin {"none", "published"} =>
               run'[s] \notin {"none", "published"}
    BY <1>6 DEF T!StopTracker, T!attempt, T!calls, T!screen, T!TypeOK
  <2> QED
    BY <2>1, SameMail, AttemptShown DEF T!screen
<1>7. ASSUME NEW t \in Tasks, T!StoreResult(t)
      PROVE  ShownInv'
  <2>1. /\ inbox' = inbox /\ UNCHANGED T!screen /\ step' = step
        /\ \A s \in Tasks \ {t} : run'[s] = run[s]
        /\ run'[t] \notin {"none", "published"}
    BY <1>7 DEF T!StoreResult, T!calls, T!screen, T!TypeOK
  <2>2. /\ \A s \in Tasks \ {t} : row'[s] = row[s]
        /\ row'[t] \in T!InQueue => row[t] \in T!InQueue
    <3>1. outcome[t] \in T!InQueue \cup T!Terminal
      BY <1>7 DEF T!StoreResult, TrackerInv, T!InQueue
    <3> QED
      BY <1>7, <3>1, StoredRows DEF T!StoreResult
  <2>3. Mail' = Mail
    BY <2>1, SameMail
  <2>4. /\ AnswerComes' = AnswerComes
        /\ \A s \in Tasks : EventComes(s)' = EventComes(s)
    BY <2>1, <2>3 DEF AnswerComes, EventComes
  <2>5. /\ T!GetQueue'[t] # "none" => T!GetQueue[t] # "none"
        /\ \A s \in Tasks \ {t} : T!GetQueue'[s] = T!GetQueue[s]
    BY <2>2 DEF T!GetQueue, T!InQueue
  <2> QED
    BY <2>1, <2>4, <2>5 DEF ShownInv, T!screen
<1>8. ASSUME NEW t \in Tasks, T!Publish(t)
      PROVE  ShownInv'
  <2>1. /\ inbox' = Append(inbox, T!Event(t, outcome[t])) /\ row' = row /\ step' = step
        /\ UNCHANGED T!screen
        /\ \A s \in Tasks \ {t} : run'[s] = run[s]
    BY <1>8 DEF T!Publish, T!attempt, T!calls, T!screen, T!TypeOK
  <2>2. T!Event(t, outcome[t]) \in Messages
    BY <1>8 DEF T!Publish, T!Event, Messages, TrackerInv
  <2>3. Mail' = Mail \cup {T!Event(t, outcome[t])}
    BY <2>1, <2>2, MailAppend
  <2>4. T!Event(t, outcome[t]).kind = "event" /\ T!Event(t, outcome[t]).task = t
    BY DEF T!Event
  <2>5. EventComes(t)'
    <3>. HIDE DEF T!Event
    <3> QED
      BY <2>3, <2>4 DEF EventComes
  <2> QED
    BY <2>1, <2>3, <2>5, AttemptShown DEF T!screen
<1>9. ASSUME NEW t \in Tasks, T!Finish(t)
      PROVE  ShownInv'
  <2>1. /\ inbox' = inbox /\ row' = row /\ UNCHANGED T!screen
        /\ run[t] = "published" /\ \A s \in Tasks \ {t} : run'[s] = run[s]
        /\ \A c \in Calls : step[c] \in {"fetch", "answer"} =>
               step'[c] \in {"fetch", "answer"}
    BY <1>9 DEF T!Finish, T!Return, T!screen, T!TypeOK
  <2>2. Mail' = Mail /\ T!GetQueue' = T!GetQueue
    BY <2>1, SameMail DEF T!GetQueue
  <2>3. /\ \A s \in Tasks : EventComes(s) => EventComes(s)'
        /\ AnswerComes => AnswerComes'
    BY <2>1, <2>2, MailGrows
  <2> QED
    BY <2>1, <2>2, <2>3, ShownFrame DEF T!screen
<1>10. ASSUME NEW t \in Tasks, T!Tick(t)
       PROVE  ShownInv'
  <2>1. /\ inbox' = inbox /\ row' = row /\ UNCHANGED T!screen /\ step' = step
        /\ \A s \in Tasks : run[s] \notin {"none", "published"} =>
               run'[s] \notin {"none", "published"}
    BY <1>10 DEF T!Tick, T!attempt, T!calls, T!screen, T!TypeOK
  <2> QED
    BY <2>1, SameMail, AttemptShown DEF T!screen
<1>11. ASSUME NEW t \in Tasks, T!TickPublishes(t)
       PROVE  ShownInv'
  <2>1. /\ inbox' = Append(inbox, T!Event(t, "running")) /\ row' = row /\ step' = step
        /\ UNCHANGED T!screen
        /\ \A s \in Tasks \ {t} : run'[s] = run[s]
    BY <1>11 DEF T!TickPublishes, T!attempt, T!calls, T!screen, T!TypeOK
  <2>2. T!Event(t, "running") \in Messages
    BY <1>11 DEF T!TickPublishes, T!Event, Messages, TrackerInv
  <2>3. Mail' = Mail \cup {T!Event(t, "running")}
    BY <2>1, <2>2, MailAppend
  <2>4. T!Event(t, "running").kind = "event" /\ T!Event(t, "running").task = t
    BY DEF T!Event
  <2>5. EventComes(t)'
    <3>. HIDE DEF T!Event
    <3> QED
      BY <2>3, <2>4 DEF EventComes
  <2> QED
    BY <2>1, <2>3, <2>5, AttemptShown DEF T!screen
<1>12. ASSUME NEW t \in Tasks, T!TickPersists(t)
       PROVE  ShownInv'
  <2>1. /\ inbox' = inbox /\ row' = row /\ UNCHANGED T!screen /\ step' = step
        /\ \A s \in Tasks : run[s] \notin {"none", "published"} =>
               run'[s] \notin {"none", "published"}
    BY <1>12 DEF T!TickPersists, T!attempt, T!calls, T!screen, T!TypeOK
  <2> QED
    BY <2>1, SameMail, AttemptShown DEF T!screen
<1>13. ASSUME NEW t \in Tasks, T!TrackerReturns(t)
       PROVE  ShownInv'
  <2>1. /\ inbox' = inbox /\ row' = row /\ UNCHANGED T!screen /\ step' = step
        /\ \A s \in Tasks : run[s] \notin {"none", "published"} =>
               run'[s] \notin {"none", "published"}
    BY <1>13 DEF T!TrackerReturns, T!attempt, T!calls, T!screen, T!TypeOK
  <2> QED
    BY <2>1, SameMail, AttemptShown DEF T!screen
<1>14. ASSUME NEW c \in Calls, NEW t \in Tasks, T!Queue(c, t)
       PROVE  ShownInv'
  <2>1. step'[c] = "fetch"
    BY <1>14 DEF T!Queue, T!TypeOK
  <2>2. AnswerComes'
    BY <2>1 DEF AnswerComes
  <2> QED
    BY <2>2 DEF ShownInv
<1>15. ASSUME NEW c \in Calls, NEW t \in Tasks, NEW op \in Ops, T!Ask(c, op, t)
       PROVE  ShownInv'
  <2>1. /\ inbox' = inbox /\ row' = row /\ UNCHANGED T!screen /\ run' = run
        /\ \A d \in Calls : step[d] \in {"fetch", "answer"} =>
               step'[d] \in {"fetch", "answer"}
    BY <1>15 DEF T!Ask, T!attempt, T!Refuse, T!screen, T!TypeOK
  <2>2. Mail' = Mail /\ T!GetQueue' = T!GetQueue
    BY <2>1, SameMail DEF T!GetQueue
  <2>3. /\ \A s \in Tasks : EventComes(s) => EventComes(s)'
        /\ AnswerComes => AnswerComes'
    BY <2>1, <2>2, MailGrows
  <2> QED
    BY <2>1, <2>2, <2>3, ShownFrame DEF T!screen
<1>16. ASSUME NEW c \in Calls, T!AskAttempt(c)
       PROVE  ShownInv'
  <2>1. /\ inbox' = inbox /\ row' = row /\ UNCHANGED T!screen /\ run' = run
        /\ \A d \in Calls : step[d] \in {"fetch", "answer"} =>
               step'[d] \in {"fetch", "answer"}
    BY <1>16 DEF T!AskAttempt, T!attempt, T!Refuse, T!screen, T!TypeOK
  <2>2. Mail' = Mail /\ T!GetQueue' = T!GetQueue
    BY <2>1, SameMail DEF T!GetQueue
  <2>3. /\ \A s \in Tasks : EventComes(s) => EventComes(s)'
        /\ AnswerComes => AnswerComes'
    BY <2>1, <2>2, MailGrows
  <2> QED
    BY <2>1, <2>2, <2>3, ShownFrame DEF T!screen
<1>17. ASSUME NEW c \in Calls, T!MissAttempt(c)
       PROVE  ShownInv'
  <2>1. /\ inbox' = inbox /\ row' = row /\ UNCHANGED T!screen /\ run' = run
        /\ \A d \in Calls : step[d] \in {"fetch", "answer"} =>
               step'[d] \in {"fetch", "answer"}
    BY <1>17 DEF T!MissAttempt, T!attempt, T!Refuse, T!screen, T!TypeOK
  <2>2. Mail' = Mail /\ T!GetQueue' = T!GetQueue
    BY <2>1, SameMail DEF T!GetQueue
  <2>3. /\ \A s \in Tasks : EventComes(s) => EventComes(s)'
        /\ AnswerComes => AnswerComes'
    BY <2>1, <2>2, MailGrows
  <2> QED
    BY <2>1, <2>2, <2>3, ShownFrame DEF T!screen
<1>18. ASSUME NEW c \in Calls, T!ReadStatus(c)
       PROVE  ShownInv'
  <2>1. /\ inbox' = inbox /\ row' = row /\ UNCHANGED T!screen /\ run' = run
        /\ \A d \in Calls : step[d] \in {"fetch", "answer"} =>
               step'[d] \in {"fetch", "answer"}
    BY <1>18 DEF T!ReadStatus, T!attempt, T!Refuse, T!screen, T!TypeOK
  <2>2. Mail' = Mail /\ T!GetQueue' = T!GetQueue
    BY <2>1, SameMail DEF T!GetQueue
  <2>3. /\ \A s \in Tasks : EventComes(s) => EventComes(s)'
        /\ AnswerComes => AnswerComes'
    BY <2>1, <2>2, MailGrows
  <2> QED
    BY <2>1, <2>2, <2>3, ShownFrame DEF T!screen
<1>19. ASSUME NEW c \in Calls, T!WriteStatus(c)
       PROVE  ShownInv'
  <2>. DEFINE t == task[c]
  <2>1. t \in Tasks /\ asked[c] \in Ops
    BY <1>19 DEF T!WriteStatus, WaitInv, Ops
  <2>2. CASE asked[c] # "drop" /\ row[t] \in T!InQueue
    <3>1. step'[c] = "fetch"
      BY <1>19, <2>2 DEF T!WriteStatus, T!Return, T!TypeOK
    <3>2. AnswerComes'
      BY <3>1 DEF AnswerComes
    <3> QED
      BY <3>2 DEF ShownInv
  <2>3. CASE asked[c] = "drop" \/ row[t] \notin T!InQueue
    <3>1. /\ inbox' = inbox /\ shown' = shown /\ overtaken' = overtaken /\ run' = run
          /\ unannounced \subseteq unannounced'
          /\ t \in unannounced' \/ row' = row
          /\ \A d \in Calls : step[d] \in {"fetch", "answer"} =>
                 step'[d] \in {"fetch", "answer"}
      BY <1>19, <2>3 DEF T!WriteStatus, T!Stored, T!Return, T!Refuse, T!attempt, T!TypeOK
    <3>2. T!Leaves(asked[c]) \in T!InQueue \cup T!Terminal
      BY <2>1 DEF T!Leaves, T!InQueue, T!Terminal, Ops
    <3>3. \A s \in Tasks \ {t} : row'[s] = row[s]
      BY <1>19, <2>1, <3>2, StoredRows DEF T!WriteStatus
    <3>4. Mail' = Mail
      BY <3>1, SameMail
    <3>5. /\ \A s \in Tasks : EventComes(s) => EventComes(s)'
          /\ AnswerComes => AnswerComes'
      BY <3>1, <3>4, MailGrows
    <3>6. \A s \in Tasks : s \notin unannounced' =>
             s \notin unannounced /\ T!GetQueue'[s] = T!GetQueue[s]
      BY <3>1, <3>3 DEF T!GetQueue
    <3> QED
      BY <3>1, <3>5, <3>6 DEF ShownInv
  <2> QED
    BY <2>2, <2>3
<1>20. ASSUME NEW c \in Calls, T!Fetch(c)
       PROVE  ShownInv'
  <2>1. step'[c] = "answer"
    BY <1>20 DEF T!Fetch, T!TypeOK
  <2>2. AnswerComes'
    BY <2>1 DEF AnswerComes
  <2> QED
    BY <2>2 DEF ShownInv
<1>21. ASSUME NEW c \in Calls, T!SendAnswer(c)
       PROVE  ShownInv'
  <2>1. inbox' = Append(inbox, T!Answer(data[c])) /\ T!Answer(data[c]) \in Messages
    BY <1>21 DEF T!SendAnswer, T!Answer, T!TypeOK, Messages
  <2>2. T!Answer(data[c]) \in Mail'
    BY <2>1, MailAppend
  <2>3. AnswerComes'
    BY <2>2 DEF AnswerComes, T!Answer
  <2> QED
    BY <2>3 DEF ShownInv
<1>22. CASE T!applyProgressEvent
  <2>. DEFINE e == Head(inbox)
  <2>1. /\ inbox # <<>> /\ e.kind = "event" /\ inbox' = Tail(inbox) /\ row' = row /\ step' = step
        /\ run' = run
    BY <1>22 DEF T!applyProgressEvent, T!attempt, T!calls
  <2>2. e \in Messages /\ Mail' \subseteq Mail /\ Mail \subseteq Mail' \cup {e}
    BY <2>1, MailTail
  <2>3. e.task \in Tasks /\ e.status \in {"running", "paused", "failed"} \cup T!Terminal
    <3> HIDE DEF e
    <3> QED
      BY <2>1, <2>2 DEF Messages
  <2>4. AnswerComes => AnswerComes'
    <3> HIDE DEF e
    <3> QED
      BY <2>1, <2>2 DEF AnswerComes
  <2>5. \A s \in Tasks \ {e.task} : EventComes(s) => EventComes(s)'
    <3> HIDE DEF e
    <3> QED
      BY <2>2 DEF EventComes
  <2>6. T!GetQueue' = T!GetQueue
    BY <2>1 DEF T!GetQueue
  <2>7. CASE /\ UNCHANGED <<shown, overtaken, unannounced>>
             /\ e.status \notin T!Terminal /\ shown[e.task] = "none"
    <3> HIDE DEF e
    <3>1. ASSUME NEW s \in Tasks, s \notin overtaken \cup unannounced
          PROVE  /\ shown[s] = "none" /\ T!GetQueue[s] # "none" => AnswerComes'
                 /\ shown[s] # T!GetQueue[s] =>
                      AnswerComes' \/ EventComes(s)' \/ run[s] \notin {"none", "published"}
      <4>1. CASE s = e.task
        BY <2>4, <2>7, <3>1, <4>1 DEF ShownInv
      <4>2. CASE s # e.task
        BY <2>4, <2>5, <3>1, <4>2 DEF ShownInv
      <4> QED
        BY <4>1, <4>2
    <3> QED
      BY <2>1, <2>6, <2>7, <3>1 DEF ShownInv
  <2>8. CASE /\ shown' = [shown EXCEPT ![e.task] = IF e.status \in T!Terminal THEN "none"
                                                                     ELSE e.status]
             /\ overtaken' = IF shown'[e.task] = T!GetQueue[e.task]
                                THEN overtaken \ {e.task}
                                ELSE overtaken \cup {e.task}
             /\ unannounced' = unannounced \ {e.task}
    <3> HIDE DEF e
    <3>1. \A s \in Tasks \ {e.task} : shown'[s] = shown[s]
      BY <2>3, <2>8 DEF T!TypeOK
    <3>2. \A s \in Tasks \ {e.task} :
             s \notin overtaken' \cup unannounced' => s \notin overtaken \cup unannounced
      BY <2>8
    <3>3. e.task \notin overtaken' => shown'[e.task] = T!GetQueue[e.task]
      BY <2>3, <2>8 DEF T!TypeOK, T!GetQueue, T!InQueue, T!Terminal
    <3> QED
      BY <2>1, <2>4, <2>5, <2>6, <3>1, <3>2, <3>3 DEF ShownInv
  <2> QED
    BY <1>22, <2>7, <2>8 DEF T!applyProgressEvent, T!screen
<1>23. CASE T!ShowQueue
  <2>1. /\ shown' = Head(inbox).queue /\ row' = row
        /\ overtaken' = {t \in Tasks : shown'[t] # T!GetQueue[t]}
    BY <1>23 DEF T!ShowQueue
  <2>2. \A t \in Tasks \ overtaken' : shown'[t] = T!GetQueue'[t]
    BY <2>1 DEF T!GetQueue
  <2> QED
    BY <2>2 DEF ShownInv
<1>24. CASE UNCHANGED T!vars
  <2>1. /\ inbox' = inbox /\ row' = row /\ UNCHANGED T!screen
        /\ step' = step /\ run' = run
    BY <1>24 DEF T!vars, T!attempt, T!calls, T!screen
  <2> QED
    BY <2>1, SameMail, AttemptShown DEF T!screen
<1> QED
  BY <1>1, <1>2, <1>3, <1>4, <1>5, <1>6, <1>7, <1>8, <1>9, <1>10, <1>11, <1>12, <1>13, <1>14,
     <1>15, <1>16, <1>17, <1>18, <1>19, <1>20, <1>21, <1>22, <1>23, <1>24
  DEF T!Next, T!Dispatch, T!TaskRun, T!TrackerRun, T!User, T!CallRun, T!Screen, Ops

LEMMA NextScreenInv == ScreenInv /\ [T!Next]_(T!vars) => ScreenInv'
BY TypeStep, TrackerStep, WaitStep, ShownStep DEF ScreenInv

\* Once nothing is under way the screen shows the queue as it is stored, but for tasks of which
\* a message came too late and tasks dropped at rest with their profile; and a call that pauses
\* or cancels an attempt never waits for one that has ended (useTransferStore.ts, service.go,
\* handleTaskResult, startTask's deferred function).
THEOREM ScreenIsTrueAlways == MCSpec => []ScreenIsTrue
<1>1. ScreenInv => ScreenIsTrue
  <2> SUFFICES ASSUME ScreenInv PROVE ScreenIsTrue
    OBVIOUS
  <2>1. T!ShownIsStoredUnlessOvertaken
    <3> SUFFICES ASSUME T!Quiet, NEW t \in Tasks \ (overtaken \cup unannounced)
                 PROVE  shown[t] = T!GetQueue[t]
      BY DEF T!ShownIsStoredUnlessOvertaken
    <3>1. Mail = {}
      BY DEF T!Quiet, Mail
    <3>2. ~AnswerComes /\ ~EventComes(t) /\ run[t] = "none"
      BY <3>1 DEF T!Quiet, AnswerComes, EventComes
    <3> QED
      BY <3>2 DEF ScreenInv, ShownInv
  <2> QED
    BY <2>1 DEF ScreenInv, WaitInv, T!WaitsForRunning, ScreenIsTrue
<1> QED
  BY <1>1, InitScreenInv, NextScreenInv, SpecIsTransfers, PTL DEF T!Spec

\* No tracker publishes "running" or writes progress but for an attempt that is transferring or
\* still waits for it, whatever calls make of the row (stopTracker waits for Tracker.Run).
THEOREM TicksStopWithTheAttempt == MCSpec => TicksOnlyWhileRunning
<1>1. ScreenInv /\ [T!Next]_(T!vars) =>
        [\A t \in Tasks : tracker[t] \in {"publishing",
                                          "persisting"} /\ tracker'[t] # tracker[t] =>
            run[t] \in {"working", "stopping"}]_(T!vars)
  BY DEF ScreenInv, TrackerInv, T!TypeOK
<1> QED
  BY <1>1, InitScreenInv, NextScreenInv, SpecIsTransfers, PTL
  DEF T!Spec, TicksOnlyWhileRunning, T!TicksOnlyWhileRunning

-----------------------------------------------------------------------------
(* A page of a bucket: the first keys after a token, in order. *)

\* The keys up to x: more of them for a larger x.
LEMMA RanksGrow ==
    ASSUME NEW S \in SUBSET Nat, IsFiniteSet(S)
    PROVE  LET rank(x) == Cardinality({y \in S : y <= x}) IN
           /\ \A x \in S : rank(x) \in 1 .. Cardinality(S)
           /\ \A x, z \in S : x < z => rank(x) < rank(z)
<1>. DEFINE upTo(x) == {y \in S : y <= x}
            rank(x) == Cardinality(upTo(x))
            n == Cardinality(S)
<1>1. n \in Nat
  BY FS_CardinalityType
<1>2. ASSUME NEW x \in S
      PROVE  IsFiniteSet(upTo(x)) /\ x \in upTo(x) /\ rank(x) \in 1 .. n
  <2>1. upTo(x) \in SUBSET S /\ x \in upTo(x)
    BY <1>2
  <2>. HIDE DEF upTo
  <2>2. IsFiniteSet(upTo(x)) /\ rank(x) <= n
    BY <2>1, FS_Subset
  <2>3. rank(x) \in Nat /\ rank(x) # 0
    BY <2>1, <2>2, FS_CardinalityType, FS_EmptySet
  <2> QED
    BY <1>1, <2>1, <2>2, <2>3
<1>3. ASSUME NEW x \in S, NEW z \in S, x < z
      PROVE  rank(x) < rank(z)
  <2>. x \in Nat /\ z \in Nat /\ \A y \in S : y \in Nat
    OBVIOUS
  <2>1. upTo(x) \in SUBSET upTo(z) /\ z \notin upTo(x) /\ z \in upTo(z)
    <3>1. \A y \in S : y <= x => y <= z
      BY <1>3
    <3>2. ~ (z <= x) /\ z <= z
      BY <1>3
    <3> QED
      BY <3>1, <3>2
  <2>2. IsFiniteSet(upTo(z)) /\ rank(x) \in Nat /\ rank(z) \in Nat
    BY <1>2, <1>3
  <2>. HIDE DEF upTo
  <2>3. rank(x) <= rank(z) /\ rank(z) # rank(x)
    BY <2>1, <2>2, FS_Subset
  <2> QED
    BY <2>2, <2>3
<1> QED
  BY <1>2, <1>3

\* Increasing numbers are different numbers.
LEMMA IncreasingIsInjection ==
    ASSUME NEW S \in SUBSET Nat, NEW n \in Nat, NEW s \in [1 .. n -> S],
           \A i, j \in 1 .. n : i < j => s[i] < s[j]
    PROVE  s \in Injection(1 .. n, S)
<1>1. ASSUME NEW i \in 1 .. n, NEW j \in 1 .. n, s[i] = s[j] PROVE i = j
  <2>1. s[i] \in Nat /\ s[j] \in Nat
    OBVIOUS
  <2>2. ~ (i < j) /\ ~ (j < i)
    BY <1>1, <2>1
  <2> QED
    BY <2>2
<1> QED
  BY <1>1 DEF Injection, IsInjective

\* A finite set of keys can be listed in order: each once.
LEMMA Sorted ==
    ASSUME NEW S \in SUBSET Nat, IsFiniteSet(S)
    PROVE  /\ Cardinality(S) \in Nat
           /\ InOrder(S) \in [1 .. Cardinality(S) -> S]
           /\ \A i, j \in 1 .. Cardinality(S) : i < j => InOrder(S)[i] < InOrder(S)[j]
           /\ \A k \in S : \E i \in 1 .. Cardinality(S) : InOrder(S)[i] = k
<1>. DEFINE rank(x) == Cardinality({y \in S : y <= x})
            n == Cardinality(S)
<1>1. n \in Nat /\ n \in Int /\ 1 \in Int
  BY FS_CardinalityType
<1>2. \A x \in S : rank(x) \in 1 .. n
  BY RanksGrow
<1>3. \A x, z \in S : x < z => rank(x) < rank(z)
  BY RanksGrow
<1>4. IsFiniteSet(1 .. n) /\ Cardinality(1 .. n) = n
  <2>. HIDE DEF n
  <2> QED
    BY <1>1, FS_Interval
<1>. HIDE DEF rank
<1>5. \A i \in 1 .. n : \E x \in S : rank(x) = i
  <2>. DEFINE f == [x \in S |-> rank(x)]
  <2>1. f \in Injection(S, 1 .. n)
    <3>1. ASSUME NEW x \in S, NEW z \in S, rank(x) = rank(z) PROVE x = z
      <4>1. ~ (x < z) /\ ~ (z < x)
        BY <1>2, <1>3, <3>1
      <4> QED
        BY <4>1
    <3> QED
      BY <1>2, <3>1 DEF Injection, IsInjective
  <2>. HIDE DEF f
  <2>2. f \in Surjection(S, 1 .. n)
    BY <1>4, <2>1, FS_Injection
  <2> QED
    BY <2>2 DEF Surjection, f
<1>6. \E s \in [1 .. n -> S] : \A i, j \in DOMAIN s : i < j => s[i] < s[j]
  <2>. DEFINE s == [i \in 1 .. n |-> CHOOSE x \in S : rank(x) = i]
  <2>1. \A i \in 1 .. n : s[i] \in S /\ rank(s[i]) = i
    BY <1>5
  <2>2. s \in [1 .. n -> S]
    BY <2>1
  <2>. HIDE DEF s
  <2>3. ASSUME NEW i \in 1 .. n, NEW j \in 1 .. n, i < j PROVE s[i] < s[j]
    <3>1. s[i] \in Nat /\ s[j] \in Nat /\ s[i] \in S /\ s[j] \in S
      BY <2>1
    <3>2. rank(s[i]) < rank(s[j]) /\ rank(s[i]) \in Nat /\ rank(s[j]) \in Nat
      BY <2>1, <2>3
    <3>3. ~ (s[j] < s[i]) /\ s[i] # s[j]
      <4>1. ~ (rank(s[j]) < rank(s[i])) /\ rank(s[i]) # rank(s[j])
        BY <3>2
      <4>2. s[j] < s[i] => rank(s[j]) < rank(s[i])
        BY <1>3, <3>1
      <4> QED
        BY <4>1, <4>2
    <3> QED
      BY <3>1, <3>3
  <2> QED
    BY <2>2, <2>3
<1>7. /\ InOrder(S) \in [1 .. n -> S]
      /\ \A i, j \in DOMAIN InOrder(S) : i < j => InOrder(S)[i] < InOrder(S)[j]
  BY <1>6 DEF InOrder
<1>8. InOrder(S) \in Surjection(1 .. n, S)
  <2>. HIDE DEF n
  <2>1. InOrder(S) \in Injection(1 .. n, S)
    BY <1>1, <1>7, IncreasingIsInjection
  <2> QED
    BY <1>4, <2>1, FS_Injection DEF n
<1> QED
  BY <1>1, <1>7, <1>8 DEF Surjection

\* A finite set of keys has a largest one.
LEMMA MaxIsLargest ==
    ASSUME NEW S \in SUBSET Nat, IsFiniteSet(S), S # {}
    PROVE  Max(S) \in S /\ \A k \in S : k <= Max(S)
<1>. DEFINE n == Cardinality(S)
            m == InOrder(S)[n]
<1>1. n \in Nat /\ n # 0
  BY FS_CardinalityType, FS_EmptySet
<1>2. m \in S /\ m \in Nat
  <2>1. InOrder(S) \in [1 .. n -> S]
    BY Sorted
  <2>2. n \in 1 .. n
    BY <1>1
  <2> QED
    BY <2>1, <2>2
<1>3. \A k \in S : m >= k
  <2> SUFFICES ASSUME NEW k \in S PROVE m >= k
    OBVIOUS
  <2>1. PICK i \in 1 .. n : InOrder(S)[i] = k
    BY Sorted
  <2>2. i < n => InOrder(S)[i] < InOrder(S)[n]
    BY <1>1, Sorted
  <2>3. i = n \/ i < n
    BY <1>1
  <2> QED
    BY <1>2, <2>1, <2>2, <2>3
<1>4. Max(S) \in S /\ \A k \in S : Max(S) >= k
  BY <1>2, <1>3 DEF Max
<1> QED
  BY <1>4

\* A page is of the keys after its token, and with a key it has those before it.
LEMMA PageIsFirst ==
    ASSUME NEW S \in SUBSET Nat, IsFiniteSet(S), NEW t \in Nat, NEW n \in Nat \ {0}
    PROVE  /\ PageAfter(S, t, n) \in SUBSET S /\ IsFiniteSet(PageAfter(S, t, n))
           /\ \A k \in PageAfter(S, t, n) : t < k
           /\ \A k \in PageAfter(S, t, n), j \in S : t < j /\ j < k => j \in PageAfter(S, t, n)
           /\ ~MoreAfter(S, t, n) => \A k \in S : t < k => k \in PageAfter(S, t, n)
           /\ MoreAfter(S, t, n) => PageAfter(S, t, n) # {}
<1>. DEFINE before(k) == {j \in S : t < j /\ j < k}
            batch == PageAfter(S, t, n)
<1>1. batch \in SUBSET S /\ IsFiniteSet(batch) /\ \A k \in batch : t < k
  <2>1. batch \in SUBSET S /\ \A k \in batch : t < k
    BY DEF PageAfter
  <2> QED
    BY <2>1, FS_Subset
<1>2. ASSUME NEW k \in batch, NEW j \in S, t < j, j < k
      PROVE  j \in batch
  <2>1. k \in S /\ IsFiniteSet(before(k)) /\ Cardinality(before(k)) < n
    <3>1. before(k) \in SUBSET S
      OBVIOUS
    <3> QED
      BY <3>1, FS_Subset DEF PageAfter
  <2>2. before(j) \in SUBSET before(k)
    <3>1. j \in Nat /\ k \in Nat /\ \A i \in S : i \in Nat
      BY <2>1
    <3>2. \A i \in S : i < j => i < k
      BY <1>2, <3>1
    <3> QED
      BY <3>2
  <2>3. Cardinality(before(j)) <= Cardinality(before(k)) /\ IsFiniteSet(before(j))
    <3>. HIDE DEF before
    <3> QED
      BY <2>1, <2>2, FS_Subset
  <2>4. Cardinality(before(j)) \in Nat /\ Cardinality(before(k)) \in Nat
    <3>. HIDE DEF before
    <3> QED
      BY <2>1, <2>3, FS_CardinalityType
  <2>5. Cardinality(before(j)) < n
    <3>. HIDE DEF before
    <3> QED
      BY <2>1, <2>3, <2>4
  <2> QED
    BY <1>2, <2>5 DEF PageAfter
<1>3. ASSUME MoreAfter(S, t, n) PROVE batch # {}
  <2>. DEFINE rest == {k \in S : t < k}
              least == InOrder(rest)[1]
  <2>1. rest \in SUBSET S /\ rest \in SUBSET Nat /\ rest # {}
    BY <1>3 DEF MoreAfter
  <2>2. IsFiniteSet(rest) /\ Cardinality(rest) \in Nat /\ Cardinality(rest) # 0
    <3>. HIDE DEF rest
    <3> QED
      BY <2>1, FS_Subset, FS_CardinalityType, FS_EmptySet
  <2>3. least \in rest /\ \A k \in rest : ~ (k < least)
    <3>. HIDE DEF rest
    <3>1. least \in rest
      BY <2>1, <2>2, Sorted
    <3>2. ASSUME NEW k \in rest, k < least PROVE FALSE
      <4>1. PICK i \in 1 .. Cardinality(rest) : InOrder(rest)[i] = k
        BY <2>1, <2>2, <3>2, Sorted
      <4>2. 1 < i => least < k
        BY <2>1, <2>2, <4>1, Sorted
      <4>3. i = 1 \/ 1 < i
        BY <2>2
      <4>4. k \in Nat /\ least \in Nat
        BY <2>1, <3>1
      <4> QED
        BY <3>2, <4>1, <4>2, <4>3, <4>4
    <3> QED
      BY <3>1, <3>2
  <2>4. least \in S /\ t < least
    BY <2>3
  <2>5. before(least) = {}
    <3>. HIDE DEF least
    <3> QED
      BY <2>3
  <2>6. Cardinality(before(least)) = 0
    BY <2>5, FS_EmptySet
  <2>7. least \in batch
    <3>. HIDE DEF least
    <3> QED
      BY <2>4, <2>6 DEF PageAfter
  <2> QED
    BY <2>7
<1>4. ~MoreAfter(S, t, n) => \A k \in S : t < k => k \in batch
  BY DEF MoreAfter
<1> QED
  BY <1>1, <1>2, <1>3, <1>4

-----------------------------------------------------------------------------
(* The walks over a bucket. *)

LEMMA SpecIsWalking == MCSpec => W!Spec
<1>1. MCInit => W!Init
  BY DEF MCInit
<1>2. [MCNext]_all => [W!Next]_(W!vars)
  BY DEF MCNext, all, walking, W!vars, W!answer, W!world
<1> QED
  BY <1>1, <1>2, PTL DEF MCSpec, W!Spec

\* The walks page a bucket as BucketPages says.
LEMMA WalksUsePages ==
    /\ \A S : W!IsFiniteSet(S) <=> IsFiniteSet(S)
    /\ \A S : W!InOrder(S) = InOrder(S)
    /\ \A S, t, n : W!PageAfter(S, t, n) = PageAfter(S, t, n)
    /\ \A S, t, n : W!MoreAfter(S, t, n) = MoreAfter(S, t, n)
    /\ \A S, t, n : W!NextToken(S, t, n) = NextToken(S, t, n)
<1>1. \A S : W!IsFiniteSet(S) <=> IsFiniteSet(S)
  BY DEF W!IsFiniteSet, IsFiniteSet
<1>2. \A S : W!Cardinality(S) = Cardinality(S)
  BY DEF W!Cardinality, Cardinality
<1>3. \A S : W!InOrder(S) = InOrder(S)
  BY <1>2 DEF InOrder, W!InOrder
<1>4. \A S, t, n : W!PageAfter(S, t, n) = PageAfter(S, t, n)
  BY <1>2 DEF PageAfter, W!PageAfter
<1>5. \A S, t, n : W!MoreAfter(S, t, n) = MoreAfter(S, t, n)
  BY <1>4 DEF MoreAfter, W!MoreAfter
<1>6. \A S, t, n : W!NextToken(S, t, n) = NextToken(S, t, n)
  BY <1>4 DEF NextToken, W!NextToken, Max, W!Max
<1> QED
  BY <1>1, <1>3, <1>4, <1>5, <1>6

Counted == {found[i] : i \in 1 .. Len(found)}

\* What a walk has counted so far: the objects up to its token that stayed, each once, and
\* none that was never there.
WalkInv ==
    /\ W!TypeOK
    /\ WalkSteady \subseteq walkBucket /\ absent \cap walkBucket = {}
    /\ \A i, j \in 1 .. Len(found) : found[i] = found[j] => i = j
    /\ Counted \subseteq W!Sought \ absent
    /\ walk = "search" => Len(found) <= maxSearchResults
    /\ walkPc = "walk" =>
          /\ ~walkTruncated
          /\ walk = "search" => Len(found) < maxSearchResults
          /\ \A k \in Counted : k <= walkToken
          /\ \A k \in WalkSteady \cap W!Sought : k <= walkToken => k \in Counted
    /\ walkPc = "done" /\ ~walkTruncated => WalkSteady \cap W!Sought \subseteq Counted

LEMMA WalkConstants ==
    /\ W!Keys \in SUBSET Nat /\ IsFiniteSet(W!Keys) /\ 0 \notin W!Keys
    /\ \A k \in W!Keys : k \in Nat
    /\ WalkSteady \in SUBSET W!Keys /\ WalkPageSize \in Nat \ {0}
    /\ maxSearchResults \in Nat \ {0}
BY ScreensAssumption, WalksUsePages DEF W!WalkAssumption, W!Keys

LEMMA TokenIsNumber ==
    ASSUME W!TypeOK
    PROVE  /\ walkToken \in Nat /\ walkBucket \in SUBSET Nat /\ IsFiniteSet(walkBucket)
           /\ \A k \in walkBucket : k \in Nat
           /\ \A i \in 1 .. Len(found) : found[i] \in W!Keys /\ found[i] \in Nat
<1>1. walkToken \in Nat
  <2>1. walkToken \in {0} \cup W!Keys
    BY DEF W!TypeOK
  <2> QED
    BY <2>1, WalkConstants
<1>2. walkBucket \in SUBSET W!Keys
  BY DEF W!TypeOK
<1>3. walkBucket \in SUBSET Nat /\ IsFiniteSet(walkBucket) /\ \A k \in walkBucket : k \in Nat
  BY <1>2, WalkConstants, FS_Subset
<1>4. found \in Seq(W!Keys)
  BY DEF W!TypeOK
<1>5. \A i \in 1 .. Len(found) : found[i] \in W!Keys
  BY <1>4, ElementOfSeq
<1> QED
  BY <1>1, <1>3, <1>5, WalkConstants

\* A page follows what was counted before it.
LEMMA PageIsCounted ==
    ASSUME WalkInv, walkPc = "walk", NEW batch \in SUBSET walkBucket,
           \A k \in batch : walkToken < k
    PROVE  LET seen == found \o InOrder(batch \cap W!Sought) IN
           /\ seen \in Seq(W!Keys) /\ Len(seen) \in Nat
           /\ \A i, j \in 1 .. Len(seen) : seen[i] = seen[j] => i = j
           /\ {seen[i] : i \in 1 .. Len(seen)} = Counted \cup (batch \cap W!Sought)
<1>. DEFINE seen == found \o InOrder(batch \cap W!Sought)
            S == batch \cap W!Sought
            s == InOrder(S)
            n == Cardinality(S)
<1>1. S \in SUBSET Nat /\ IsFiniteSet(S) /\ S \in SUBSET W!Keys
  <2>1. S \in SUBSET W!Keys
    BY DEF WalkInv, W!TypeOK
  <2> QED
    BY <2>1, WalkConstants, FS_Subset
<1>. HIDE DEF S
<1>2. /\ n \in Nat /\ s \in [1 .. n -> S]
      /\ \A i, j \in 1 .. n : i < j => s[i] < s[j]
      /\ \A k \in S : \E i \in 1 .. n : s[i] = k
  BY <1>1, Sorted
<1>3. s \in Injection(1 .. n, S)
  BY <1>1, <1>2, IncreasingIsInjection
<1>. HIDE DEF n, s
<1>4. s \in Seq(W!Keys) /\ Len(s) = n
  <2>1. s \in [1 .. n -> W!Keys]
    BY <1>1, <1>2
  <2> QED
    BY <1>2, <2>1
<1>5. found \in Seq(W!Keys) /\ Len(found) \in Nat
  BY DEF WalkInv, W!TypeOK
<1>6. seen = found \o s
  BY DEF s, S
<1>. HIDE DEF seen
<1>7. /\ seen \in Seq(W!Keys) /\ Len(seen) = Len(found) + n
      /\ \A i \in 1 .. Len(found) : seen[i] = found[i]
      /\ \A i \in 1 .. n : Len(found) + i \in 1 .. Len(seen) /\ seen[Len(found) + i] = s[i]
  <2>. DEFINE m == Len(found)
  <2>1. /\ seen \in Seq(W!Keys) /\ Len(seen) = m + n
        /\ \A i \in 1 .. m + n : seen[i] = IF i <= m THEN found[i] ELSE s[i - m]
    <3>1. /\ found \o s \in Seq(W!Keys) /\ Len(found \o s) = Len(found) + Len(s)
          /\ \A i \in 1 .. Len(found) + Len(s) : (found \o s)[i] =
                IF i <= Len(found) THEN found[i] ELSE s[i - Len(found)]
      <4>. HIDE DEF m
      <4> QED
        BY <1>4, <1>5, ConcatProperties, Zenon
    <3> QED
      BY <1>4, <1>6, <3>1
  <2>2. m \in Nat
    BY <1>5
  <2>. HIDE DEF m
  <2>3. \A i \in 1 .. m : i \in 1 .. m + n /\ i <= m
    BY <1>2, <2>2
  <2>4. \A i \in 1 .. n : m + i \in 1 .. m + n /\ ~ (m + i <= m) /\ (m + i) - m = i
    BY <1>2, <2>2
  <2> QED
    BY <2>1, <2>3, <2>4 DEF m
<1>8. ASSUME NEW i \in 1 .. Len(seen)
      PROVE  \/ i \in 1 .. Len(found) /\ seen[i] = found[i]
             \/ \E j \in 1 .. n : i = Len(found) + j /\ seen[i] = s[j]
  <2>. DEFINE m == Len(found)
  <2>1. m \in Nat /\ i \in 1 .. m + n
    BY <1>5, <1>7
  <2>. HIDE DEF m
  <2>2. i \in 1 .. m \/ (i - m \in 1 .. n /\ m + (i - m) = i)
    BY <1>2, <2>1
  <2>3. /\ \A j \in 1 .. m : seen[j] = found[j]
        /\ \A j \in 1 .. n : seen[m + j] = s[j]
    BY <1>7 DEF m
  <2> QED
    BY <2>2, <2>3 DEF m
<1>9. ASSUME NEW i \in 1 .. Len(found), NEW j \in 1 .. n PROVE found[i] # s[j]
  <2>1. found[i] <= walkToken /\ walkToken < s[j]
    BY <1>2, <1>9 DEF WalkInv, Counted, S
  <2>2. s[j] \in W!Keys
    BY <1>1, <1>2, <1>9
  <2>3. found[i] \in Nat /\ s[j] \in Nat /\ walkToken \in Nat
    BY <1>9, <2>2, TokenIsNumber, WalkConstants DEF WalkInv
  <2> QED
    BY <2>1, <2>3
<1>10. ASSUME NEW i \in 1 .. Len(seen), NEW j \in 1 .. Len(seen), seen[i] = seen[j]
       PROVE  i = j
  <2>1. CASE i \in 1 .. Len(found) /\ j \in 1 .. Len(found)
    BY <1>7, <1>10, <2>1 DEF WalkInv
  <2>2. ASSUME NEW a \in 1 .. n, NEW b \in 1 .. n,
               i = Len(found) + a /\ seen[i] = s[a], j = Len(found) + b /\ seen[j] = s[b]
        PROVE  i = j
    BY <1>3, <1>10, <2>2 DEF Injection, IsInjective
  <2> QED
    BY <1>8, <1>9, <1>10, <2>1, <2>2
<1>11. {seen[i] : i \in 1 .. Len(seen)} = Counted \cup S
  <2>1. {seen[i] : i \in 1 .. Len(seen)} \subseteq Counted \cup S
    <3> SUFFICES ASSUME NEW i \in 1 .. Len(seen) PROVE seen[i] \in Counted \cup S
      OBVIOUS
    <3>1. CASE i \in 1 .. Len(found) /\ seen[i] = found[i]
      BY <3>1 DEF Counted
    <3>2. CASE \E j \in 1 .. n : i = Len(found) + j /\ seen[i] = s[j]
      BY <1>2, <3>2
    <3> QED
      BY <1>8, <3>1, <3>2

  <2>2. Counted \subseteq {seen[i] : i \in 1 .. Len(seen)}
    BY <1>2, <1>5, <1>7 DEF Counted
  <2>3. S \subseteq {seen[i] : i \in 1 .. Len(seen)}
    <3> SUFFICES ASSUME NEW k \in S PROVE \E i \in 1 .. Len(seen) : seen[i] = k
      OBVIOUS
    <3>1. PICK j \in 1 .. n : s[j] = k
      BY <1>2
    <3> QED
      BY <1>7, <3>1
  <2> QED
    BY <2>1, <2>2, <2>3
<1>12. Len(seen) \in Nat
  BY <1>2, <1>5, <1>7
<1> QED
  BY <1>7, <1>10, <1>11, <1>12 DEF S, seen

LEMMA InitWalkInv == W!Init => WalkInv
<1> SUFFICES ASSUME W!Init PROVE WalkInv
  OBVIOUS
<1>1. W!TypeOK
  <2>1. walkChanges \in 0 .. MaxWalkChanges
    BY ScreensAssumption DEF W!Init, W!WalkAssumption
  <2>2. walkBucket \subseteq W!Keys
    BY DEF W!Init, W!Keys
  <2>3. found \in Seq(W!Keys)
    BY DEF W!Init
  <2> QED
    BY <2>1, <2>2, <2>3 DEF W!Init, W!TypeOK
<1>2. Counted = {} /\ Len(found) = 0
  BY DEF W!Init, Counted
<1>3. \A k \in WalkSteady : ~ (k <= walkToken)
  BY WalkConstants DEF W!Init
<1> QED
  BY <1>1, <1>2, <1>3, WalkConstants DEF W!Init, WalkInv, W!Keys

\* A page: what it has of the objects that stay is counted, up to the next token.
LEMMA NextPageInv ==
    ASSUME WalkInv, W!NextPage
    PROVE  WalkInv'
<1>. DEFINE batch == PageAfter(walkBucket, walkToken, WalkPageSize)
            more == MoreAfter(walkBucket, walkToken, WalkPageSize)
            next == NextToken(walkBucket, walkToken, WalkPageSize)
            seen == found \o InOrder(batch \cap W!Sought)
            keysOf(s) == {s[i] : i \in 1 .. Len(s)}
<1>1. /\ walkPc = "walk"
      /\ W!SearchObjects(batch, more) \/ W!GetBucketSize(batch, more)
            \/ W!ListAllKeysUnderPrefix(batch, more)
      /\ walkToken' = IF more THEN next ELSE walkToken
      /\ UNCHANGED <<walk, expired, walkBucket, walkChanges, absent>>
  BY WalksUsePages DEF W!NextPage, W!world
<1>2. walkBucket \in SUBSET Nat /\ IsFiniteSet(walkBucket) /\ walkToken \in Nat
  BY TokenIsNumber DEF WalkInv
<1>3. /\ batch \in SUBSET walkBucket /\ IsFiniteSet(batch) /\ batch \in SUBSET Nat
      /\ \A k \in batch : walkToken < k
      /\ \A k \in batch, j \in walkBucket : walkToken < j /\ j < k => j \in batch
      /\ ~more => \A k \in walkBucket : walkToken < k => k \in batch
      /\ more => batch # {}
  BY <1>2, WalkConstants, PageIsFirst
<1>4. more => next \in batch /\ \A k \in batch : k <= next
  BY <1>3, MaxIsLargest DEF NextToken
<1>. HIDE DEF batch, more, next
<1>5. /\ seen \in Seq(W!Keys) /\ Len(seen) \in Nat
      /\ \A i, j \in 1 .. Len(seen) : seen[i] = seen[j] => i = j
      /\ keysOf(seen) = Counted \cup (batch \cap W!Sought)
  <2>1. /\ WalkInv /\ walkPc = "walk" /\ batch \in SUBSET walkBucket
        /\ \A k \in batch : walkToken < k
    BY <1>1, <1>3
  <2> QED
    BY <2>1, PageIsCounted
<1>6. W!Sought' = W!Sought
  BY <1>1 DEF W!Sought
<1>7. Counted' = keysOf(found')
  BY DEF Counted
<1>8. keysOf(seen) \subseteq W!Sought \ absent
  <2>1. batch \cap absent = {}
    BY <1>3 DEF WalkInv
  <2> QED
    BY <1>5, <2>1 DEF WalkInv
<1>9. walkToken' \in Nat /\ walkToken' \in {0} \cup W!Keys
  BY <1>1, <1>2, <1>3, <1>4 DEF WalkInv, W!TypeOK
<1>10. more => \A k \in keysOf(seen) : k <= walkToken'
  <2> SUFFICES ASSUME more, NEW k \in keysOf(seen) PROVE k <= walkToken'
    OBVIOUS
  <2>1. walkToken' = next /\ next \in Nat /\ walkToken < next
    BY <1>1, <1>3, <1>4
  <2>2. CASE k \in Counted
    <3>1. k <= walkToken /\ k \in Nat
      BY <1>1, <2>2, TokenIsNumber DEF WalkInv, Counted
    <3> QED
      BY <1>2, <2>1, <3>1
  <2>3. CASE k \in batch
    BY <1>4, <2>1, <2>3
  <2> QED
    BY <1>5, <2>2, <2>3
<1>11. \A k \in WalkSteady \cap W!Sought : ~more \/ k <= walkToken' => k \in keysOf(seen)
  <2> SUFFICES ASSUME NEW k \in WalkSteady \cap W!Sought, ~more \/ k <= walkToken'
               PROVE  k \in keysOf(seen)
    OBVIOUS
  <2>1. k \in walkBucket /\ k \in Nat
    BY <1>2 DEF WalkInv
  <2>2. CASE k <= walkToken
    BY <1>1, <1>5, <2>2 DEF WalkInv
  <2>3. CASE walkToken < k
    <3>1. CASE ~more
      BY <1>3, <1>5, <2>1, <2>3, <3>1
    <3>2. CASE more
      <4>1. k <= next /\ next \in batch /\ next \in Nat
        BY <1>1, <1>3, <1>4, <3>2
      <4>2. k = next \/ k < next
        BY <2>1, <4>1
      <4>3. k \in batch
        BY <1>3, <2>1, <2>3, <4>1, <4>2
      <4> QED
        BY <1>5, <4>3
    <3> QED
      BY <3>1, <3>2
  <2>4. k <= walkToken \/ walkToken < k
    BY <1>2, <2>1
  <2> QED
    BY <2>2, <2>3, <2>4
<1>12. CASE W!SearchObjects(batch, more)
  <2>. DEFINE full == Len(seen) >= maxSearchResults
              m == W!Min({maxSearchResults, Len(seen)})
  <2>1. /\ walk = "search" /\ found' = SubSeq(seen, 1, m)
        /\ walkTruncated' = full /\ walkPc' = IF more /\ ~full THEN "walk" ELSE "done"
    <3>1. W!Sought = Matching
      BY <1>12 DEF W!SearchObjects, W!Sought
    <3> QED
      BY <1>12, <3>1, WalksUsePages DEF W!SearchObjects
  <2>. HIDE DEF seen
  <2>2. m = IF full THEN maxSearchResults ELSE Len(seen)
    BY <1>5, WalkConstants DEF W!Min
  <2>3. m \in Nat /\ m <= Len(seen) /\ m <= maxSearchResults
    BY <1>5, <2>2, WalkConstants
  <2>. HIDE DEF m
  <2>4. /\ found' \in Seq(W!Keys) /\ Len(found') = m
        /\ \A i \in 1 .. m : i \in 1 .. Len(seen) /\ found'[i] = seen[i]
    <3>1. \A i \in 1 .. m : i \in 1 .. Len(seen) /\ seen[i] \in W!Keys
      BY <1>5, <2>3
    <3>2. Len(found') = m /\ \A i \in 1 .. m : found'[i] = seen[i]
      BY <1>5, <2>1, <2>3
    <3>3. found' \in Seq(W!Keys)
      BY <2>1, <2>3, <3>1, SubSeqProperties
    <3> QED
      BY <3>1, <3>2, <3>3
  <2>5. /\ \A i, j \in 1 .. Len(found') : found'[i] = found'[j] => i = j
        /\ keysOf(found') \subseteq keysOf(seen)
    BY <1>5, <2>4
  <2>6. ~full => keysOf(found') = keysOf(seen)
    BY <1>5, <2>2, <2>4
  <2>7. W!TypeOK'
    BY <1>1, <1>9, <2>1, <2>4 DEF WalkInv, W!TypeOK
  <2>8. Counted' \subseteq W!Sought' \ absent'
    BY <1>1, <1>6, <1>7, <1>8, <2>5
  <2>9. walkPc' = "walk" =>
          /\ ~walkTruncated' /\ Len(found') < maxSearchResults
          /\ \A k \in Counted' : k <= walkToken'
          /\ \A k \in WalkSteady \cap W!Sought' : k <= walkToken' => k \in Counted'
    <3> SUFFICES ASSUME walkPc' = "walk"
                 PROVE  /\ ~walkTruncated' /\ Len(found') < maxSearchResults
                        /\ \A k \in Counted' : k <= walkToken'
                        /\ \A k \in WalkSteady \cap W!Sought' : k <= walkToken' => k \in Counted'
      OBVIOUS
    <3>1. more /\ ~full
      BY <2>1
    <3>2. Len(found') < maxSearchResults
      BY <1>5, <2>2, <2>4, <3>1, WalkConstants
    <3>3. Counted' = keysOf(seen)
      BY <1>7, <2>6, <3>1
    <3> QED
      BY <1>6, <1>10, <1>11, <2>1, <3>1, <3>2, <3>3
  <2>10. walkPc' = "done" /\ ~walkTruncated' => WalkSteady \cap W!Sought' \subseteq Counted'
    <3> SUFFICES ASSUME walkPc' = "done", ~walkTruncated'
                 PROVE  WalkSteady \cap W!Sought \subseteq Counted'
      BY <1>6
    <3>1. ~full /\ ~more
      BY <2>1
    <3> QED
      BY <1>7, <1>11, <2>6, <3>1
  <2> QED
    BY <1>1, <2>1, <2>3, <2>4, <2>5, <2>7, <2>8, <2>9, <2>10 DEF WalkInv
<1>13. CASE W!GetBucketSize(batch, more) \/ W!ListAllKeysUnderPrefix(batch, more)
  <2>1. /\ walk # "search" /\ found' = seen /\ walkTruncated' = walkTruncated
        /\ walkPc' = IF more THEN "walk" ELSE "done"
    <3>1. walk # "search" /\ batch \cap W!Sought = batch
      <4>1. batch \in SUBSET W!Keys
        BY <1>3 DEF WalkInv, W!TypeOK
      <4> QED
        BY <1>13, <4>1 DEF W!GetBucketSize, W!ListAllKeysUnderPrefix, W!Sought
    <3> QED
      BY <1>13, <3>1, WalksUsePages DEF W!GetBucketSize, W!ListAllKeysUnderPrefix
  <2>2. W!TypeOK'
    BY <1>1, <1>5, <1>9, <2>1 DEF WalkInv, W!TypeOK
  <2>. HIDE DEF seen
  <2>3. Counted' \subseteq W!Sought' \ absent'
    BY <1>1, <1>6, <1>7, <1>8, <2>1
  <2>4. ~walkTruncated'
    BY <1>1, <2>1 DEF WalkInv
  <2>5. walkPc' = "walk" =>
          /\ \A k \in Counted' : k <= walkToken'
          /\ \A k \in WalkSteady \cap W!Sought' : k <= walkToken' => k \in Counted'
    BY <1>6, <1>7, <1>10, <1>11, <2>1
  <2>6. walkPc' = "done" => WalkSteady \cap W!Sought' \subseteq Counted'
    BY <1>6, <1>7, <1>11, <2>1
  <2> QED
    BY <1>1, <1>5, <2>1, <2>2, <2>3, <2>4, <2>5, <2>6 DEF WalkInv
<1> QED
  BY <1>1, <1>12, <1>13

LEMMA NextWalkInv == WalkInv /\ [W!Next]_(W!vars) => WalkInv'
<1> SUFFICES ASSUME WalkInv, [W!Next]_(W!vars) PROVE WalkInv'
  OBVIOUS
<1>1. CASE W!NextPage
  BY <1>1, NextPageInv
<1>2. CASE W!RequestFails
  <2>1. UNCHANGED <<walk, walkToken, expired, walkBucket, walkChanges, absent>>
    BY <1>2 DEF W!RequestFails, W!world
  <2>2. CASE walkPc' = "done" /\ walkTruncated' = TRUE /\ UNCHANGED found
    BY <2>1, <2>2 DEF WalkInv, W!TypeOK, Counted, W!Sought
  <2>3. CASE walkPc' = "failed" /\ found' = <<>> /\ walkTruncated' = FALSE
    <3>1. Counted' = {} /\ Len(found') = 0 /\ found' \in Seq(W!Keys)
      BY <2>3 DEF Counted
    <3>2. W!TypeOK'
      BY <2>1, <2>3, <3>1 DEF WalkInv, W!TypeOK
    <3>3. Len(found') <= maxSearchResults
      BY <3>1, WalkConstants
    <3> QED
      BY <2>1, <2>3, <3>1, <3>2, <3>3 DEF WalkInv
  <2> QED
    BY <1>2, <2>2, <2>3 DEF W!RequestFails
<1>3. CASE W!Expire
  BY <1>3 DEF W!Expire, W!answer, W!world, WalkInv, W!TypeOK, Counted, W!Sought
<1>4. CASE W!ChangeBucket
  <2>1. /\ UNCHANGED <<walk, walkPc, walkToken, found, walkTruncated, expired>>
        /\ walkChanges < MaxWalkChanges /\ walkChanges' = walkChanges + 1
        /\ absent' = absent \ walkBucket'
    BY <1>4 DEF W!ChangeBucket, W!answer
  <2>2. PICK k \in WalkVolatile : walkBucket' = IF k \in walkBucket THEN walkBucket \ {k}
                                                                    ELSE walkBucket \cup {k}
    BY <1>4 DEF W!ChangeBucket
  <2>3. walkBucket' \subseteq W!Keys /\ WalkSteady \subseteq walkBucket'
    BY <2>2, ScreensAssumption DEF WalkInv, W!TypeOK, W!Keys, W!WalkAssumption
  <2>4. walkChanges' \in 0 .. MaxWalkChanges
    BY <2>1, ScreensAssumption DEF WalkInv, W!TypeOK, W!WalkAssumption
  <2> QED
    BY <2>1, <2>3, <2>4 DEF WalkInv, W!TypeOK, Counted, W!Sought
<1>5. CASE UNCHANGED W!vars
  BY <1>5 DEF W!vars, W!answer, W!world, WalkInv, W!TypeOK, Counted, W!Sought
<1> QED
  BY <1>1, <1>2, <1>3, <1>4, <1>5 DEF W!Next

\* An answer that is not marked truncated is the whole of the prefix, no object is counted
\* twice or was never there, and a search keeps to its cap (search.go, bucketsize.go,
\* listallkeys.go).
THEOREM WalksAreTrueAlways == MCSpec => []WalksAreTrue
<1>1. WalkInv => WalksAreTrue
  BY DEF WalkInv, WalksAreTrue, W!UnmarkedIsWhole, W!CountedOnce, W!CapHolds, W!IsInjective,
         W!ToSet, Counted, W!TypeOK
<1> QED
  BY <1>1, InitWalkInv, NextWalkInv, SpecIsWalking, PTL DEF W!Spec

-----------------------------------------------------------------------------
(* The listing and its cache. *)

LEMMA SpecIsBrowsing == MCSpec => L!Spec
<1>1. MCInit => L!Init
  BY DEF MCInit
<1>2. [MCNext]_all => [L!Next]_(L!vars)
  BY DEF MCNext, all, browsing, L!vars, L!store, L!history
<1> QED
  BY <1>1, <1>2, PTL DEF MCSpec, L!Spec

\* The listing pages a folder as BucketPages says.
LEMMA ListingUsesPages ==
    /\ \A S : L!IsFiniteSet(S) <=> IsFiniteSet(S)
    /\ \A S : L!Cardinality(S) = Cardinality(S)
    /\ \A S : L!InOrder(S) = InOrder(S)
    /\ \A S, t, n : L!PageAfter(S, t, n) = PageAfter(S, t, n)
    /\ \A S, t, n : L!MoreAfter(S, t, n) = MoreAfter(S, t, n)
    /\ \A S, t, n : L!NextToken(S, t, n) = NextToken(S, t, n)
<1>1. \A S : L!IsFiniteSet(S) <=> IsFiniteSet(S)
  BY DEF L!IsFiniteSet, IsFiniteSet
<1>2. \A S : L!Cardinality(S) = Cardinality(S)
  BY DEF L!Cardinality, Cardinality
<1>3. \A S : L!InOrder(S) = InOrder(S)
  BY <1>2 DEF InOrder, L!InOrder
<1>4. \A S, t, n : L!PageAfter(S, t, n) = PageAfter(S, t, n)
  BY <1>2 DEF PageAfter, L!PageAfter
<1>5. \A S, t, n : L!MoreAfter(S, t, n) = MoreAfter(S, t, n)
  BY <1>4 DEF MoreAfter, L!MoreAfter
<1>6. \A S, t, n : L!NextToken(S, t, n) = NextToken(S, t, n)
  BY <1>4 DEF NextToken, L!NextToken, Max, L!Max
<1> QED
  BY <1>1, <1>2, <1>3, <1>4, <1>5, <1>6

\* A page or an entry of the cache, e, has the objects of the folder that follow a token t, in
\* order, up to its own token, and none of those that stay is missing.
Follows(e, f, t) ==
    /\ e.entries \in Seq({f} \X L!Keys) /\ e.token \in {0} \cup L!Keys
    /\ e.truncated <=> e.token # 0
    /\ e.truncated => t < e.token
    /\ \A i \in DOMAIN e.entries :
          t < e.entries[i][2] /\ (e.truncated => e.entries[i][2] <= e.token)
    /\ \A i, j \in DOMAIN e.entries : i < j => e.entries[i][2] < e.entries[j][2]
    /\ \A k \in Steady :
          t < k /\ (e.truncated => k <= e.token) =>
             \E i \in DOMAIN e.entries : e.entries[i] = <<f, k>>

\* What is cached and what was fetched.
CacheInv ==
    /\ \A f \in ListFolders : Steady \subseteq bucket[f]
    /\ \A f \in ListFolders : cache[f] # L!NoEntry => cache[f].token # -1
    /\ \A f \in ListFolders \ gap : cache[f] # L!NoEntry => Follows(cache[f], f, 0)
    /\ \A c \in ListCalls : listPc[c] \in {"merge", "read"} =>
          Follows(page[c], call[c].folder, call[c].token)
    /\ \A c \in ListCalls : listPc[c] = "answer" => result[c].token # -1

\* A refresh starts at the first page.  While no other call is on its folder, what it read and
\* what the cache has of it since is its own page, and that has no object that was gone.
FreshInv ==
    /\ listAlone \in [ListCalls -> BOOLEAN] /\ gone \in [ListCalls -> SUBSET L!Keys]
    /\ \A c \in ListCalls : call[c].refresh => call[c].token = 0
    /\ \A c \in ListCalls : listAlone[c] =>
          /\ listPc[c] # "idle"
          /\ \A d \in ListCalls \ {c} : listPc[d] # "idle" => call[d].folder # call[c].folder
    /\ \A c \in ListCalls : listPc[c] # "idle" => gone[c] \cap bucket[call[c].folder] = {}
    /\ \A c \in ListCalls : listPc[c] \in {"merge", "read"} =>
          \A i \in DOMAIN page[c].entries : page[c].entries[i][2] \notin gone[c]
    /\ \A c \in ListCalls : listPc[c] = "read" /\ call[c].refresh /\ listAlone[c] =>
          cache[call[c].folder].entries = page[c].entries
    /\ \A c \in ListCalls : listPc[c] = "answer" /\ call[c].refresh /\ listAlone[c] =>
          \A i \in DOMAIN result[c].entries : result[c].entries[i][2] \notin gone[c]

ListingInv == L!TypeOK /\ CacheInv /\ FreshInv

LEMMA ListingConstants ==
    /\ L!Keys \in SUBSET Nat /\ IsFiniteSet(L!Keys) /\ 0 \notin L!Keys
    /\ \A k \in L!Keys : k \in Nat
    /\ Steady \in SUBSET L!Keys /\ ListPageSize \in Nat \ {0}
    /\ MaxListActions \in Nat /\ MaxChanges \in Nat /\ folder \in ListFolders
BY ScreensAssumption, ListingUsesPages DEF L!ListingAssumption, L!Keys

\* A page of the bucket follows its token, and has no object that is not there.
LEMMA FetchedPageFollows ==
    ASSUME L!TypeOK, CacheInv, NEW f \in ListFolders, NEW t \in {0} \cup L!Keys
    PROVE  LET e == L!FetchedPage(f, t) IN
           /\ Follows(e, f, t) /\ e \in L!Entry
           /\ \A i \in DOMAIN e.entries : e.entries[i][2] \in bucket[f]
<1>. DEFINE S == PageAfter(bucket[f], t, ListPageSize)
            more == MoreAfter(bucket[f], t, ListPageSize)
            next == NextToken(bucket[f], t, ListPageSize)
            s == InOrder(S)
            n == Cardinality(S)
            e == L!FetchedPage(f, t)
<1>1. /\ t \in Nat /\ bucket[f] \in SUBSET L!Keys
      /\ bucket[f] \in SUBSET Nat /\ IsFiniteSet(bucket[f])
  <2>1. t \in Nat /\ bucket[f] \in SUBSET L!Keys
    BY ListingConstants DEF L!TypeOK
  <2> QED
    BY <2>1, ListingConstants, FS_Subset
<1>2. /\ S \in SUBSET bucket[f] /\ IsFiniteSet(S) /\ \A k \in S : t < k
      /\ \A k \in S, j \in bucket[f] : t < j /\ j < k => j \in S
      /\ ~more => \A k \in bucket[f] : t < k => k \in S
      /\ more => S # {}
  BY <1>1, ListingConstants, PageIsFirst
<1>3. S \in SUBSET Nat /\ S \in SUBSET L!Keys
  BY <1>1, <1>2
<1>4. more => next \in S /\ \A k \in S : k <= next
  BY <1>2, <1>3, MaxIsLargest DEF NextToken
<1>5. /\ n \in Nat /\ s \in [1 .. n -> S]
      /\ \A i, j \in 1 .. n : i < j => s[i] < s[j]
      /\ \A k \in S : \E i \in 1 .. n : s[i] = k
  BY <1>2, <1>3, Sorted
<1>6. e = [entries |-> [i \in DOMAIN s |-> <<f, s[i]>>],
           token |-> IF more THEN next ELSE 0, truncated |-> more]
  BY ListingUsesPages DEF L!FetchedPage, L!Object, L!NoToken
<1>. HIDE DEF S, more, next, s, n, e
<1>7. /\ DOMAIN e.entries = 1 .. n /\ e.token = IF more THEN next ELSE 0
      /\ e.truncated = more
      /\ \A i \in 1 .. n : e.entries[i] = <<f, s[i]>> /\ e.entries[i][2] = s[i]
  BY <1>5, <1>6
<1>8. more \in BOOLEAN
  BY DEF more, MoreAfter
<1>9. e.token \in {0} \cup L!Keys /\ (more => e.token \in Nat /\ e.token # 0)
  BY <1>3, <1>4, <1>7, ListingConstants
<1>10. e.entries \in Seq({f} \X L!Keys)
  <2>1. e.entries = [i \in 1 .. n |-> <<f, s[i]>>]
    BY <1>5, <1>6
  <2>2. e.entries \in [1 .. n -> {f} \X L!Keys]
    BY <1>3, <1>5, <2>1
  <2> QED
    BY <1>5, <2>2
<1>11. \A k \in Steady : t < k /\ (more => k <= e.token) => \E i \in 1 .. n : s[i] = k
  <2> SUFFICES ASSUME NEW k \in Steady, t < k, more => k <= e.token PROVE k \in S
    BY <1>5
  <2>1. k \in bucket[f] /\ k \in Nat
    BY ListingConstants DEF CacheInv
  <2>2. CASE ~more
    BY <1>2, <2>1, <2>2
  <2>3. CASE more
    <3>1. next \in S /\ next \in Nat /\ k <= next
      BY <1>3, <1>4, <1>7, <2>3
    <3>2. k = next \/ k < next
      BY <2>1, <3>1
    <3> QED
      BY <1>2, <2>1, <3>1, <3>2
  <2> QED
    BY <2>2, <2>3
<1>12. \A i \in 1 .. n : s[i] \in S /\ t < s[i] /\ (more => s[i] <= e.token)
  BY <1>2, <1>4, <1>5, <1>7
<1>13. more => t < e.token
  BY <1>2, <1>4, <1>7
<1>14. Follows(e, f, t)
  <2>1. e.truncated <=> e.token # 0
    BY <1>7, <1>8, <1>9
  <2>2. \A i \in DOMAIN e.entries :
           t < e.entries[i][2] /\ (e.truncated => e.entries[i][2] <= e.token)
    BY <1>7, <1>12
  <2>3. \A i, j \in DOMAIN e.entries : i < j => e.entries[i][2] < e.entries[j][2]
    BY <1>5, <1>7
  <2>4. \A k \in Steady : t < k /\ (e.truncated => k <= e.token) =>
           \E i \in DOMAIN e.entries : e.entries[i] = <<f, k>>
    BY <1>7, <1>11
  <2>5. e.truncated => t < e.token
    BY <1>7, <1>13
  <2> QED
    BY <1>9, <1>10, <2>1, <2>2, <2>3, <2>4, <2>5 DEF Follows
<1>15. e \in L!Entry
  <2>1. e.entries \in Seq(ListFolders \X L!Keys)
    <3>1. {f} \X L!Keys \subseteq ListFolders \X L!Keys
      OBVIOUS
    <3> QED
      BY <1>10, <3>1, SeqMonotonic
  <2> QED
    BY <1>6, <1>7, <1>8, <1>9, <2>1 DEF L!Entry, L!NoToken
<1>16. \A i \in DOMAIN e.entries : e.entries[i][2] \in bucket[f]
  BY <1>2, <1>7, <1>12
<1> QED
  BY <1>14, <1>15, <1>16 DEF e

\* What follows the first objects of a folder extends them.
LEMMA Appended ==
    ASSUME NEW f \in ListFolders, NEW a, NEW b, NEW e,
           Follows(a, f, 0), a.token # 0, Follows(b, f, a.token),
           e.entries = a.entries \o b.entries, e.token = b.token, e.truncated = b.truncated
    PROVE  Follows(e, f, 0)
<1>. DEFINE x == a.entries
            y == b.entries
            z == e.entries
            m == Len(x)
            n == Len(y)
            u == a.token
<1>1. /\ x \in Seq({f} \X L!Keys) /\ y \in Seq({f} \X L!Keys)
      /\ DOMAIN x = 1 .. m /\ DOMAIN y = 1 .. n /\ m \in Nat /\ n \in Nat
  BY DEF Follows
<1>2. /\ z \in Seq({f} \X L!Keys) /\ DOMAIN z = 1 .. m + n
      /\ \A i \in 1 .. m + n : z[i] = IF i <= m THEN x[i] ELSE y[i - m]
  <2>1. /\ x \o y \in Seq({f} \X L!Keys) /\ Len(x \o y) = Len(x) + Len(y)
        /\ \A i \in 1 .. Len(x) + Len(y) :
              (x \o y)[i] = IF i <= Len(x) THEN x[i] ELSE y[i - Len(x)]
    <3>. HIDE DEF m, n, x, y
    <3> QED
      BY <1>1, ConcatProperties, Zenon
  <2>2. z = x \o y
    OBVIOUS
  <2>. HIDE DEF x, y, z
  <2> QED
    BY <2>1, <2>2
<1>3. /\ \A i \in 1 .. m : 0 < x[i][2] /\ x[i][2] <= u
      /\ \A i, j \in 1 .. m : i < j => x[i][2] < x[j][2]
      /\ \A k \in Steady : 0 < k /\ k <= u => \E i \in 1 .. m : x[i] = <<f, k>>
      /\ u \in L!Keys
  BY <1>1 DEF Follows
<1>4. /\ \A i \in 1 .. n : u < y[i][2] /\ (e.truncated => y[i][2] <= e.token)
      /\ \A i, j \in 1 .. n : i < j => y[i][2] < y[j][2]
      /\ \A k \in Steady : u < k /\ (e.truncated => k <= e.token) =>
            \E i \in 1 .. n : y[i] = <<f, k>>
      /\ e.token \in {0} \cup L!Keys /\ (e.truncated <=> e.token # 0)
      /\ e.truncated => u < e.token
  BY <1>1 DEF Follows
<1>. HIDE DEF x, y, z, m, n, u
<1>5. /\ u \in Nat /\ e.token \in Nat
      /\ \A i \in 1 .. m : x[i][2] \in Nat
      /\ \A i \in 1 .. n : y[i][2] \in Nat
  <2>1. u \in Nat /\ e.token \in Nat
    <3>1. u \in L!Keys /\ (e.token \in L!Keys \/ e.token = 0)
      BY <1>3, <1>4
    <3>2. \A k \in L!Keys : k \in Nat
      BY ListingConstants
    <3>3. u \in Nat
      BY <3>1, <3>2
    <3>4. e.token \in Nat
      BY <3>1, <3>2
    <3> QED
      BY <3>3, <3>4
  <2>2. /\ \A i \in 1 .. m : x[i] \in {f} \X L!Keys
        /\ \A i \in 1 .. n : y[i] \in {f} \X L!Keys
    BY <1>1
  <2>3. \A p \in {f} \X L!Keys : p[2] \in Nat
    BY ListingConstants
  <2> QED
    BY <2>1, <2>2, <2>3
<1>6. \A i \in 1 .. m + n : \/ i \in 1 .. m /\ z[i] = x[i]
                            \/ \E j \in 1 .. n : i = m + j /\ z[i] = y[j]
  <2> SUFFICES ASSUME NEW i \in 1 .. m + n, i \notin 1 .. m
               PROVE  \E j \in 1 .. n : i = m + j /\ z[i] = y[j]
    BY <1>1, <1>2
  <2>1. i - m \in 1 .. n /\ i = m + (i - m) /\ ~ (i <= m)
    BY <1>1
  <2> QED
    BY <1>2, <2>1
<1>7. /\ \A i \in 1 .. m : i \in 1 .. m + n /\ z[i] = x[i]
      /\ \A j \in 1 .. n : m + j \in 1 .. m + n /\ z[m + j] = y[j]
  <2>1. \A i \in 1 .. m : i \in 1 .. m + n /\ i <= m
    BY <1>1
  <2>2. \A j \in 1 .. n : m + j \in 1 .. m + n /\ ~ (m + j <= m) /\ (m + j) - m = j
    BY <1>1
  <2> QED
    BY <1>2, <2>1, <2>2
<1>8. ASSUME NEW i \in 1 .. m + n
      PROVE  0 < z[i][2] /\ (e.truncated => z[i][2] <= e.token)
  <2>1. CASE i \in 1 .. m /\ z[i] = x[i]
    BY <1>3, <1>4, <1>5, <2>1
  <2>2. ASSUME NEW j \in 1 .. n, z[i] = y[j]
        PROVE  0 < z[i][2] /\ (e.truncated => z[i][2] <= e.token)
    BY <1>4, <1>5, <2>2
  <2> QED
    BY <1>6, <2>1, <2>2
<1>9. ASSUME NEW i \in 1 .. m + n, NEW j \in 1 .. m + n, i < j
      PROVE  z[i][2] < z[j][2]
  <2>1. CASE j \in 1 .. m /\ z[j] = x[j]
    <3>1. i \in 1 .. m /\ z[i] = x[i]
      BY <1>1, <1>7, <1>9, <2>1
    <3> QED
      BY <1>3, <1>9, <2>1, <3>1
  <2>2. ASSUME NEW b1 \in 1 .. n, j = m + b1, z[j] = y[b1] PROVE z[i][2] < z[j][2]
    <3>1. CASE i \in 1 .. m /\ z[i] = x[i]
      BY <1>3, <1>4, <1>5, <2>2, <3>1
    <3>2. ASSUME NEW a1 \in 1 .. n, i = m + a1, z[i] = y[a1] PROVE z[i][2] < z[j][2]
      <4>1. a1 < b1
        BY <1>1, <1>9, <2>2, <3>2
      <4> QED
        BY <1>4, <2>2, <3>2, <4>1
    <3> QED
      BY <1>6, <3>1, <3>2
  <2> QED
    BY <1>6, <2>1, <2>2
<1>10. ASSUME NEW k \in Steady, 0 < k, e.truncated => k <= e.token
       PROVE  \E i \in 1 .. m + n : z[i] = <<f, k>>
  <2>1. k \in Nat
    BY ListingConstants
  <2>2. CASE k <= u
    BY <1>3, <1>7, <1>10, <2>2
  <2>3. CASE u < k
    BY <1>4, <1>7, <1>10, <2>3
  <2> QED
    BY <1>5, <2>1, <2>2, <2>3
<1>11. e.truncated => 0 < e.token
  BY <1>4, <1>5
<1> QED
  BY <1>2, <1>4, <1>8, <1>9, <1>10, <1>11 DEF Follows, z

LEMMA InitListing == L!Init => ListingInv
<1> SUFFICES ASSUME L!Init PROVE ListingInv
  OBVIOUS
<1>1. /\ bucket \in [ListFolders -> SUBSET L!Keys]
      /\ \A f \in ListFolders : Steady \subseteq bucket[f]
  BY DEF L!Init, L!Keys
<1>2. /\ L!NoEntry \in L!Entry /\ \A f \in ListFolders : L!NoEntry.entries \in Seq({f} \X L!Keys)
  BY DEF L!NoEntry, L!Entry, L!NoToken
<1>3. L!NoCall \in [folder : ListFolders, token : {0} \cup L!Keys, refresh : BOOLEAN,
                    append : BOOLEAN]
      /\ L!NoCall.refresh = FALSE
  BY ListingConstants DEF L!NoCall, L!NoToken
<1>4. L!TypeOK
  <2>1. changes \in 0 .. MaxChanges /\ listActions \in 0 .. MaxListActions
    BY ListingConstants DEF L!Init
  <2>2. listAt \in ListFolders /\ entries \in Seq(ListFolders \X L!Keys)
    BY ListingConstants DEF L!Init
  <2>3. /\ cache \in [ListFolders -> L!Entry] /\ page \in [ListCalls -> L!Entry]
        /\ result \in [ListCalls -> L!Entry]
        /\ \A f \in ListFolders : cache[f].entries \in Seq({f} \X L!Keys)
    BY <1>2 DEF L!Init
  <2>4. /\ call \in [ListCalls -> [folder : ListFolders, token : {L!NoToken} \cup L!Keys,
                                   refresh : BOOLEAN, append : BOOLEAN]]
    BY <1>3 DEF L!Init, L!NoToken
  <2> QED
    BY <1>1, <2>1, <2>2, <2>3, <2>4 DEF L!Init, L!TypeOK
<1>5. CacheInv
  BY <1>1 DEF L!Init, CacheInv
<1>6. FreshInv
  BY <1>3 DEF L!Init, FreshInv
<1> QED
  BY <1>4, <1>5, <1>6 DEF ListingInv

\* Calls that have fetched nothing yet, or are over, change nothing of what is cached.
LEMMA SameCache ==
    ASSUME CacheInv, UNCHANGED <<bucket, cache, gap>>,
           \A d \in ListCalls : listPc'[d] \in {"merge", "read", "answer"} =>
               /\ listPc'[d] = listPc[d] /\ call'[d] = call[d] /\ page'[d] = page[d]
               /\ result'[d] = result[d]
    PROVE  CacheInv'
<1>1. \A f \in ListFolders \ gap' : cache'[f] # L!NoEntry => Follows(cache'[f], f, 0)
  BY DEF CacheInv
<1>2. \A c \in ListCalls : listPc'[c] \in {"merge", "read"} =>
         Follows(page'[c], call'[c].folder, call'[c].token)
  BY DEF CacheInv
<1>3. \A c \in ListCalls : listPc'[c] = "answer" => result'[c].token # -1
  BY DEF CacheInv
<1>4. /\ \A f \in ListFolders : Steady \subseteq bucket'[f]
      /\ \A f \in ListFolders : cache'[f] # L!NoEntry => cache'[f].token # -1
  BY DEF CacheInv
<1> QED
  BY <1>1, <1>2, <1>3, <1>4 DEF CacheInv

\* The user asks for a listing, of the state of the store.
LEMMA RequestInv ==
    ASSUME ListingInv, NEW c \in ListCalls, NEW f \in ListFolders,
           NEW more \in BOOLEAN, NEW again \in BOOLEAN, ~ (more /\ again),
           L!Request(c, f, more, again),
           listAt' \in ListFolders, entries' \in Seq(ListFolders \X L!Keys),
           token' \in {0} \cup L!Keys, truncated' \in BOOLEAN
    PROVE  ListingInv'
<1>. DEFINE wanted == [folder |-> f, token |-> IF more THEN token ELSE 0,
                       refresh |-> again, append |-> more]
            overlaps == {d \in ListCalls : L!Running(d) /\ call[d].folder = f}
<1>1. /\ listPc[c] = "idle" /\ listActions < MaxListActions /\ listActions' = listActions + 1
      /\ listPc' = [listPc EXCEPT ![c] = "lookup"] /\ call' = [call EXCEPT ![c] = wanted]
      /\ loading' = TRUE
      /\ listAlone' = [d \in ListCalls |-> IF d = c THEN overlaps = {}
                                                    ELSE listAlone[d] /\ d \notin overlaps]
      /\ gone' = [gone EXCEPT ![c] = L!Keys \ bucket[f]]
      /\ UNCHANGED <<bucket, changes, cache, page, result, gap>>
  BY DEF L!Request, L!NoToken
<1>. HIDE DEF overlaps
<1>2. wanted \in [folder : ListFolders, token : {0} \cup L!Keys, refresh : BOOLEAN,
                 append : BOOLEAN]
  BY DEF ListingInv, L!TypeOK, L!NoToken
<1>3. L!TypeOK'
  <2>1. listActions' \in 0 .. MaxListActions
    BY <1>1, ListingConstants DEF ListingInv, L!TypeOK
  <2>2. listPc' \in [ListCalls -> {"idle", "lookup", "list", "merge", "read", "answer", "failed"}]
    BY <1>1 DEF ListingInv, L!TypeOK
  <2>3. call' \in [ListCalls -> [folder : ListFolders, token : {L!NoToken} \cup L!Keys,
                                 refresh : BOOLEAN, append : BOOLEAN]]
    BY <1>1, <1>2 DEF ListingInv, L!TypeOK, L!NoToken
  <2>. HIDE DEF wanted
  <2> QED
    BY <1>1, <2>1, <2>2, <2>3 DEF ListingInv, L!TypeOK, L!NoToken
<1>4. /\ listPc'[c] = "lookup" /\ call'[c] = wanted
      /\ \A d \in ListCalls \ {c} :
            listPc'[d] = listPc[d] /\ call'[d] = call[d] /\ gone'[d] = gone[d]
      /\ gone'[c] = L!Keys \ bucket[f]
  BY <1>1 DEF ListingInv, FreshInv, L!TypeOK
<1>5. CacheInv'
  <2>1. \A d \in ListCalls : listPc'[d] \in {"merge", "read", "answer"} =>
           listPc'[d] = listPc[d] /\ call'[d] = call[d]
    BY <1>4
  <2>. HIDE DEF wanted
  <2> QED
    BY <1>1, <2>1, SameCache DEF ListingInv
<1>6. FreshInv'
  <2>1. listAlone' \in [ListCalls -> BOOLEAN] /\ gone' \in [ListCalls -> SUBSET L!Keys]
    BY <1>1 DEF ListingInv, FreshInv
  <2>2. \A d \in ListCalls : call'[d].refresh => call'[d].token = 0
    BY <1>4 DEF ListingInv, FreshInv
  <2>3. wanted.folder = f
    OBVIOUS
  <2>. HIDE DEF wanted
  <2>4. ASSUME NEW d \in ListCalls, listAlone'[d]
        PROVE  /\ listPc'[d] # "idle"
               /\ \A e \in ListCalls \ {d} : listPc'[e] # "idle" =>
                     call'[e].folder # call'[d].folder
    <3>1. CASE d = c
      <4>1. overlaps = {}
        BY <1>1, <2>4, <3>1
      <4> QED
        BY <1>4, <2>3, <3>1, <4>1 DEF overlaps, L!Running
    <3>2. CASE d # c
      <4>1. listAlone[d] /\ d \notin overlaps
        BY <1>1, <2>4, <3>2
      <4>2. listPc[d] # "idle" /\ call[d].folder # f
        BY <4>1 DEF overlaps, L!Running, ListingInv, FreshInv
      <4> QED
        BY <1>4, <2>3, <3>2, <4>1, <4>2 DEF ListingInv, FreshInv
    <3> QED
      BY <3>1, <3>2
  <2>5. \A d \in ListCalls : listPc'[d] # "idle" => gone'[d] \cap bucket'[call'[d].folder] = {}
    BY <1>1, <1>4, <2>3 DEF ListingInv, FreshInv
  <2>6. \A d \in ListCalls : listPc'[d] \in {"merge", "read", "answer"} =>
           /\ listPc'[d] = listPc[d] /\ call'[d] = call[d] /\ gone'[d] = gone[d]
           /\ listAlone'[d] => listAlone[d]
    BY <1>1, <1>4
  <2> QED
    BY <1>1, <2>1, <2>2, <2>4, <2>5, <2>6 DEF ListingInv, FreshInv
<1> QED
  BY <1>3, <1>5, <1>6 DEF ListingInv

LEMMA UserInv == ASSUME ListingInv, L!User PROVE ListingInv'
<1>1. PICK c \in ListCalls : (\E f \in ListFolders : L!Navigate(c, f)) \/ L!Resort(c)
                             \/ L!Refresh(c) \/ L!LoadMore(c)
  BY DEF L!User
<1>2. /\ listAt \in ListFolders /\ entries \in Seq(ListFolders \X L!Keys)
      /\ token \in {0} \cup L!Keys /\ truncated \in BOOLEAN
  BY DEF ListingInv, L!TypeOK, L!NoToken
<1>3. ASSUME NEW f \in ListFolders, L!Navigate(c, f) PROVE ListingInv'
  <2>1. /\ L!Request(c, f, FALSE, FALSE)
        /\ listAt' \in ListFolders /\ token' \in {0} \cup L!Keys /\ truncated' \in BOOLEAN
    BY <1>3 DEF L!Navigate, L!NoToken
  <2>2. entries' \in Seq(ListFolders \X L!Keys)
    BY <1>3 DEF L!Navigate
  <2> QED
    BY <2>1, <2>2, RequestInv
<1>4. CASE L!Resort(c)
  BY <1>2, <1>4, RequestInv DEF L!Resort
<1>5. CASE L!Refresh(c)
  BY <1>2, <1>5, RequestInv DEF L!Refresh
<1>6. CASE L!LoadMore(c)
  BY <1>2, <1>6, RequestInv DEF L!LoadMore
<1> QED
  BY <1>1, <1>3, <1>4, <1>5, <1>6

\* An answer leaves the calls that go on as they are.
LEMMA ReceiveInv == ASSUME ListingInv, NEW c \in ListCalls, L!Receive(c) PROVE ListingInv'
<1>1. /\ listPc[c] \in {"answer", "failed"} /\ listPc' = [listPc EXCEPT ![c] = "idle"]
      /\ loading' = FALSE /\ call' = [call EXCEPT ![c] = L!NoCall]
      /\ page' = [page EXCEPT ![c] = L!NoEntry] /\ result' = [result EXCEPT ![c] = L!NoEntry]
      /\ listAlone' = [listAlone EXCEPT ![c] = FALSE] /\ gone' = [gone EXCEPT ![c] = {}]
      /\ UNCHANGED <<bucket, changes, cache, listAt, listActions, gap>>
  BY DEF L!Receive
<1>2. /\ L!NoEntry \in L!Entry /\ L!NoCall.refresh = FALSE
      /\ L!NoCall \in [folder : ListFolders, token : {L!NoToken} \cup L!Keys,
                       refresh : BOOLEAN, append : BOOLEAN]
  BY ListingConstants DEF L!NoEntry, L!Entry, L!NoCall, L!NoToken
<1>3. /\ entries' \in Seq(ListFolders \X L!Keys) /\ token' \in {0} \cup L!Keys
      /\ truncated' \in BOOLEAN
  <2>1. CASE listPc[c] = "answer"
    <3>1. /\ result[c].entries \in Seq(ListFolders \X L!Keys)
          /\ entries \in Seq(ListFolders \X L!Keys)
          /\ result[c].token \in {-1, 0} \cup L!Keys /\ result[c].truncated \in BOOLEAN
      BY DEF ListingInv, L!TypeOK, L!Entry, L!NoToken
    <3>2. result[c].token # -1
      BY <2>1 DEF ListingInv, CacheInv
    <3>3. /\ entries' = IF call[c].append THEN entries \o result[c].entries ELSE result[c].entries
          /\ token' = result[c].token /\ truncated' = result[c].truncated
      BY <2>1 DEF L!Receive
    <3>4. entries \o result[c].entries \in Seq(ListFolders \X L!Keys)
      BY <3>1
    <3> QED
      BY <3>1, <3>2, <3>3, <3>4
  <2>2. CASE listPc[c] # "answer"
    BY <2>2 DEF L!Receive, ListingInv, L!TypeOK, L!NoToken
  <2> QED
    BY <2>1, <2>2
<1>4. L!TypeOK'
  <2>1. /\ page' \in [ListCalls -> L!Entry] /\ result' \in [ListCalls -> L!Entry]
    BY <1>1, <1>2 DEF ListingInv, L!TypeOK
  <2>2. /\ listPc' \in [ListCalls -> {"idle", "lookup", "list", "merge", "read", "answer",
                                      "failed"}]
        /\ call' \in [ListCalls -> [folder : ListFolders, token : {L!NoToken} \cup L!Keys,
                                    refresh : BOOLEAN, append : BOOLEAN]]
    BY <1>1, <1>2 DEF ListingInv, L!TypeOK
  <2> QED
    BY <1>1, <1>3, <2>1, <2>2 DEF ListingInv, L!TypeOK, L!NoToken
<1>5. /\ listPc'[c] = "idle" /\ call'[c] = L!NoCall /\ listAlone'[c] = FALSE
      /\ \A d \in ListCalls \ {c} :
            /\ listPc'[d] = listPc[d] /\ call'[d] = call[d] /\ gone'[d] = gone[d]
            /\ page'[d] = page[d] /\ result'[d] = result[d] /\ listAlone'[d] = listAlone[d]
  BY <1>1 DEF ListingInv, FreshInv, L!TypeOK
<1>6. CacheInv'
  <2>1. \A d \in ListCalls : listPc'[d] \in {"merge", "read", "answer"} =>
           /\ listPc'[d] = listPc[d] /\ call'[d] = call[d] /\ page'[d] = page[d]
           /\ result'[d] = result[d]
    BY <1>5
  <2> QED
    BY <1>1, <2>1, SameCache DEF ListingInv
<1>7. FreshInv'
  <2>1. listAlone' \in [ListCalls -> BOOLEAN] /\ gone' \in [ListCalls -> SUBSET L!Keys]
    BY <1>1 DEF ListingInv, FreshInv
  <2>2. \A d \in ListCalls : call'[d].refresh => call'[d].token = 0
    BY <1>2, <1>5 DEF ListingInv, FreshInv
  <2>3. \A d \in ListCalls : listPc'[d] # "idle" \/ listAlone'[d] =>
           /\ d # c /\ listPc'[d] = listPc[d] /\ call'[d] = call[d] /\ gone'[d] = gone[d]
           /\ page'[d] = page[d] /\ result'[d] = result[d] /\ listAlone'[d] = listAlone[d]
    BY <1>5
  <2>4. \A d \in ListCalls : listAlone'[d] =>
           /\ listPc'[d] # "idle"
           /\ \A e \in ListCalls \ {d} : listPc'[e] # "idle" => call'[e].folder # call'[d].folder
    BY <2>3 DEF ListingInv, FreshInv
  <2> QED
    BY <1>1, <2>1, <2>2, <2>3, <2>4 DEF ListingInv, FreshInv
<1> QED
  BY <1>4, <1>6, <1>7 DEF ListingInv

\* The first page from the cache: a refresh has discarded it.
LEMMA LookupInv == ASSUME ListingInv, NEW c \in ListCalls, L!Lookup(c) PROVE ListingInv'
<1>. DEFINE f == call[c].folder
            kept == IF call[c].refresh THEN L!NoEntry ELSE cache[f]
<1>1. /\ listPc[c] = "lookup" /\ cache' = [cache EXCEPT ![f] = kept]
      /\ \/ /\ call[c].token = 0 /\ kept # L!NoEntry
            /\ result' = [result EXCEPT ![c] = kept] /\ listPc' = [listPc EXCEPT ![c] = "answer"]
         \/ listPc' = [listPc EXCEPT ![c] = "list"] /\ UNCHANGED result
      /\ UNCHANGED <<bucket, changes, listAt, entries, token, truncated, loading, call, page,
                     listActions, listAlone, gone, gap>>
  BY DEF L!Lookup, L!CallUnchanged, L!store, L!NoToken
<1>2. /\ f \in ListFolders /\ kept \in L!Entry /\ kept \in {L!NoEntry, cache[f]}
      /\ kept.entries \in Seq({f} \X L!Keys)
      /\ kept # L!NoEntry => kept.token # -1 /\ ~call[c].refresh
  <2>1. /\ f \in ListFolders /\ cache[f] \in L!Entry
        /\ cache[f].entries \in Seq({f} \X L!Keys)
        /\ cache[f] # L!NoEntry => cache[f].token # -1
    BY DEF ListingInv, CacheInv, L!TypeOK
  <2>2. L!NoEntry \in L!Entry /\ L!NoEntry.entries \in Seq({f} \X L!Keys)
    BY DEF L!NoEntry, L!Entry, L!NoToken
  <2>. HIDE DEF f
  <2>3. kept = L!NoEntry \/ (kept = cache[f] /\ ~call[c].refresh)
    OBVIOUS
  <2>. HIDE DEF kept
  <2> QED
    BY <2>1, <2>2, <2>3
<1>3. /\ \A g \in ListFolders : cache'[g] \in {L!NoEntry, cache[g]}
      /\ \A g \in ListFolders \ {f} : cache'[g] = cache[g]
  BY <1>1, <1>2 DEF ListingInv, L!TypeOK
<1>4. /\ listPc'[c] \in {"answer", "list"}
      /\ listPc'[c] = "answer" => result'[c] = kept /\ kept # L!NoEntry
      /\ \A d \in ListCalls \ {c} : listPc'[d] = listPc[d] /\ result'[d] = result[d]
  BY <1>1 DEF ListingInv, L!TypeOK
<1>. HIDE DEF kept, f
<1>5. L!TypeOK'
  <2>1. /\ listPc' \in [ListCalls -> {"idle", "lookup", "list", "merge", "read", "answer",
                                      "failed"}]
        /\ result' \in [ListCalls -> L!Entry] /\ cache' \in [ListFolders -> L!Entry]
    BY <1>1, <1>2 DEF ListingInv, L!TypeOK
  <2>2. \A g \in ListFolders : cache'[g].entries \in Seq({g} \X L!Keys)
    BY <1>1, <1>2 DEF ListingInv, L!TypeOK
  <2> QED
    BY <1>1, <2>1, <2>2 DEF ListingInv, L!TypeOK
<1>6. CacheInv'
  <2>1. \A g \in ListFolders \ gap : cache'[g] # L!NoEntry => Follows(cache'[g], g, 0)
    BY <1>3 DEF ListingInv, CacheInv
  <2>2. \A d \in ListCalls : listPc'[d] \in {"merge", "read"} =>
           Follows(page[d], call[d].folder, call[d].token)
    BY <1>4 DEF ListingInv, CacheInv
  <2>3. \A d \in ListCalls : listPc'[d] = "answer" => result'[d].token # -1
    BY <1>2, <1>4 DEF ListingInv, CacheInv
  <2>4. \A g \in ListFolders : cache'[g] # L!NoEntry => cache'[g].token # -1
    BY <1>3 DEF ListingInv, CacheInv
  <2>5. \A g \in ListFolders : Steady \subseteq bucket'[g]
    BY <1>1 DEF ListingInv, CacheInv
  <2> QED
    BY <1>1, <2>1, <2>2, <2>3, <2>4, <2>5 DEF CacheInv
<1>7. FreshInv'
  <2>1. \A d \in ListCalls : listPc'[d] \in {"merge", "read"} => d # c /\ listPc'[d] = listPc[d]
    BY <1>4
  <2>2. \A d \in ListCalls : listPc[d] = "idle" <=> listPc'[d] = "idle"
    BY <1>1, <1>4
  <2>3. \A d \in ListCalls : listPc'[d] = "read" /\ call[d].refresh /\ listAlone[d] =>
           cache'[call[d].folder].entries = page[d].entries
    <3> SUFFICES ASSUME NEW d \in ListCalls, listPc'[d] = "read", call[d].refresh, listAlone[d]
                 PROVE  cache'[call[d].folder].entries = page[d].entries
      OBVIOUS
    <3>1. d # c /\ listPc[d] = "read"
      BY <2>1
    <3>2. call[d].folder # f
      BY <1>1, <3>1 DEF ListingInv, FreshInv, f
    <3>3. call[d].folder \in ListFolders
      BY DEF ListingInv, L!TypeOK
    <3> QED
      BY <1>3, <3>1, <3>2, <3>3 DEF ListingInv, FreshInv
  <2>4. \A d \in ListCalls : listPc'[d] = "answer" /\ call[d].refresh /\ listAlone[d] =>
           \A i \in DOMAIN result'[d].entries : result'[d].entries[i][2] \notin gone[d]
    BY <1>2, <1>4 DEF ListingInv, FreshInv
  <2>5. /\ \A d \in ListCalls : listAlone[d] =>
              /\ listPc'[d] # "idle"
              /\ \A e \in ListCalls \ {d} : listPc'[e] # "idle" => call[e].folder # call[d].folder
        /\ \A d \in ListCalls : listPc'[d] # "idle" => gone[d] \cap bucket[call[d].folder] = {}
        /\ \A d \in ListCalls : listPc'[d] \in {"merge", "read"} =>
              \A i \in DOMAIN page[d].entries : page[d].entries[i][2] \notin gone[d]
    BY <2>1, <2>2 DEF ListingInv, FreshInv
  <2> QED
    BY <1>1, <2>3, <2>4, <2>5 DEF ListingInv, FreshInv
<1> QED
  BY <1>5, <1>6, <1>7 DEF ListingInv

\* A page is of the bucket as it is.
LEMMA ListStepInv == ASSUME ListingInv, NEW c \in ListCalls, L!List(c) PROVE ListingInv'
<1>. DEFINE f == call[c].folder
            fetched == L!FetchedPage(f, call[c].token)
<1>1. /\ listPc[c] = "list"
      /\ \/ page' = [page EXCEPT ![c] = fetched] /\ listPc' = [listPc EXCEPT ![c] = "merge"]
         \/ listPc' = [listPc EXCEPT ![c] = "failed"] /\ UNCHANGED page
      /\ UNCHANGED <<bucket, changes, cache, listAt, entries, token, truncated, loading, call,
                     result, listActions, listAlone, gone, gap>>
  BY DEF L!List, L!CallUnchanged, L!store
<1>2. /\ f \in ListFolders /\ Follows(fetched, f, call[c].token) /\ fetched \in L!Entry
      /\ \A i \in DOMAIN fetched.entries : fetched.entries[i][2] \in bucket[f]
  <2>1. f \in ListFolders /\ call[c].token \in {0} \cup L!Keys
    BY DEF ListingInv, L!TypeOK, L!NoToken
  <2>. HIDE DEF f
  <2> QED
    BY <2>1, FetchedPageFollows DEF ListingInv
<1>. HIDE DEF fetched
<1>3. /\ listPc'[c] \in {"merge", "failed"} /\ (listPc'[c] = "merge" => page'[c] = fetched)
      /\ \A d \in ListCalls \ {c} : listPc'[d] = listPc[d] /\ page'[d] = page[d]
  BY <1>1 DEF ListingInv, L!TypeOK
<1>4. L!TypeOK'
  <2>1. /\ listPc' \in [ListCalls -> {"idle", "lookup", "list", "merge", "read", "answer",
                                      "failed"}]
        /\ page' \in [ListCalls -> L!Entry]
    BY <1>1, <1>2 DEF ListingInv, L!TypeOK
  <2> QED
    BY <1>1, <2>1 DEF ListingInv, L!TypeOK
<1>5. CacheInv'
  <2>1. \A d \in ListCalls : listPc'[d] \in {"merge", "read"} =>
           Follows(page'[d], call[d].folder, call[d].token)
    BY <1>2, <1>3 DEF ListingInv, CacheInv
  <2>2. /\ \A d \in ListCalls : listPc'[d] = "answer" => result[d].token # -1
        /\ \A g \in ListFolders : Steady \subseteq bucket[g]
        /\ \A g \in ListFolders : cache[g] # L!NoEntry => cache[g].token # -1
        /\ \A g \in ListFolders \ gap : cache[g] # L!NoEntry => Follows(cache[g], g, 0)
    BY <1>3 DEF ListingInv, CacheInv
  <2> QED
    BY <1>1, <2>1, <2>2 DEF CacheInv
<1>6. FreshInv'
  <2>1. gone[c] \cap bucket[f] = {}
    BY <1>1 DEF ListingInv, FreshInv
  <2>2. \A d \in ListCalls : listPc'[d] \in {"merge", "read"} =>
           \A i \in DOMAIN page'[d].entries : page'[d].entries[i][2] \notin gone[d]
    BY <1>2, <1>3, <2>1 DEF ListingInv, FreshInv
  <2>3. \A d \in ListCalls : listPc[d] = "idle" <=> listPc'[d] = "idle"
    BY <1>1, <1>3
  <2>4. \A d \in ListCalls : listPc'[d] \in {"read", "answer"} =>
           d # c /\ listPc'[d] = listPc[d] /\ page'[d] = page[d]
    BY <1>3
  <2>5. \A d \in ListCalls : listAlone[d] =>
              /\ listPc'[d] # "idle"
              /\ \A e \in ListCalls \ {d} : listPc'[e] # "idle" => call[e].folder # call[d].folder
    BY <2>3 DEF ListingInv, FreshInv
  <2> QED
    BY <1>1, <2>2, <2>3, <2>4, <2>5 DEF ListingInv, FreshInv
<1> QED
  BY <1>4, <1>5, <1>6 DEF ListingInv

\* A first page replaces the entry; a page that follows it extends it.
LEMMA MergeInv == ASSUME ListingInv, NEW c \in ListCalls, L!Merge(c) PROVE ListingInv'
<1>. DEFINE f == call[c].folder
            longer == L!appendPage(cache[f], page[c])
            entry == IF call[c].token # 0 THEN longer ELSE page[c]
<1>1. /\ listPc[c] = "merge" /\ listPc' = [listPc EXCEPT ![c] = "read"]
      /\ cache' = [cache EXCEPT ![f] = entry]
      /\ gap' = IF call[c].token # 0
                THEN IF cache[f].token = call[c].token THEN gap ELSE gap \cup {f}
                ELSE gap \ {f}
      /\ UNCHANGED <<bucket, changes, page, result, listAt, entries, token, truncated, loading,
                     call, listActions, listAlone, gone>>
  BY DEF L!Merge, L!CallUnchanged, L!store, L!NoToken
<1>2. /\ f \in ListFolders /\ page[c] \in L!Entry /\ cache[f] \in L!Entry
      /\ Follows(page[c], f, call[c].token)
      /\ call[c].token \in {0} \cup L!Keys
  BY <1>1 DEF ListingInv, CacheInv, L!TypeOK, L!NoToken
<1>3. /\ cache[f].entries \in Seq({f} \X L!Keys) /\ page[c].entries \in Seq({f} \X L!Keys)
      /\ page[c].token \in {0} \cup L!Keys /\ page[c].truncated \in BOOLEAN
  BY <1>2 DEF ListingInv, L!TypeOK, Follows, L!Entry
<1>. HIDE DEF f
<1>4. /\ longer.entries = cache[f].entries \o page[c].entries /\ longer.token = page[c].token
      /\ longer.truncated = page[c].truncated
      /\ longer = [entries |-> cache[f].entries \o page[c].entries, token |-> page[c].token,
                   truncated |-> page[c].truncated]
  BY DEF L!appendPage
<1>. HIDE DEF longer
<1>5. entry \in L!Entry /\ entry.entries \in Seq({f} \X L!Keys) /\ entry.token # -1
  <2>1. longer.entries \in Seq({f} \X L!Keys)
    BY <1>3, <1>4
  <2>2. {f} \X L!Keys \subseteq ListFolders \X L!Keys
    BY <1>2
  <2>3. longer.entries \in Seq(ListFolders \X L!Keys)
    BY <2>1, <2>2, SeqMonotonic
  <2>4. longer \in L!Entry
    BY <1>3, <1>4, <2>3 DEF L!Entry, L!NoToken
  <2>5. page[c].token # -1
    BY <1>3, ListingConstants
  <2> QED
    BY <1>2, <1>3, <1>4, <2>1, <2>4, <2>5
<1>6. f \notin gap' => Follows(entry, f, 0)
  <2>1. CASE call[c].token = 0
    BY <1>2, <2>1
  <2>2. CASE call[c].token # 0 /\ f \notin gap'
    <3>1. f \notin gap /\ cache[f].token = call[c].token
      BY <1>1, <2>2
    <3>2. cache[f] # L!NoEntry
      BY <1>2, <3>1, ListingConstants DEF L!NoEntry
    <3>3. Follows(cache[f], f, 0)
      BY <1>2, <3>1, <3>2 DEF ListingInv, CacheInv
    <3>4. Follows(longer, f, 0)
      BY <1>2, <1>4, <2>2, <3>1, <3>3, Appended
    <3> QED
      BY <2>2, <3>4
  <2> QED
    BY <2>1, <2>2
<1>7. call[c].token = 0 => entry = page[c]
  OBVIOUS
<1>. HIDE DEF entry
<1>8. /\ cache'[f] = entry /\ \A g \in ListFolders \ {f} :
            cache'[g] = cache[g] /\ (g \in gap' <=> g \in gap)
      /\ listPc'[c] = "read" /\ \A d \in ListCalls \ {c} : listPc'[d] = listPc[d]
  BY <1>1, <1>2 DEF ListingInv, L!TypeOK
<1>9. L!TypeOK'
  <2>1. /\ listPc' \in [ListCalls -> {"idle", "lookup", "list", "merge", "read", "answer",
                                      "failed"}]
        /\ cache' \in [ListFolders -> L!Entry] /\ gap' \subseteq ListFolders
    BY <1>1, <1>2, <1>5 DEF ListingInv, L!TypeOK
  <2>2. \A g \in ListFolders : cache'[g].entries \in Seq({g} \X L!Keys)
    BY <1>5, <1>8 DEF ListingInv, L!TypeOK
  <2> QED
    BY <1>1, <2>1, <2>2 DEF ListingInv, L!TypeOK
<1>10. CacheInv'
  <2>1. \A g \in ListFolders \ gap' : cache'[g] # L!NoEntry => Follows(cache'[g], g, 0)
    BY <1>6, <1>8 DEF ListingInv, CacheInv
  <2>2. \A d \in ListCalls : listPc'[d] \in {"merge", "read"} =>
           Follows(page[d], call[d].folder, call[d].token)
    BY <1>1, <1>8 DEF ListingInv, CacheInv
  <2>3. \A d \in ListCalls : listPc'[d] = "answer" => result[d].token # -1
    BY <1>8 DEF ListingInv, CacheInv
  <2>4. \A g \in ListFolders : cache'[g] # L!NoEntry => cache'[g].token # -1
    BY <1>5, <1>8 DEF ListingInv, CacheInv
  <2>5. \A g \in ListFolders : Steady \subseteq bucket[g]
    BY DEF ListingInv, CacheInv
  <2> QED
    BY <1>1, <2>1, <2>2, <2>3, <2>4, <2>5 DEF CacheInv
<1>11. FreshInv'
  <2>1. \A d \in ListCalls : listPc[d] = "idle" <=> listPc'[d] = "idle"
    BY <1>1, <1>8
  <2>2. \A d \in ListCalls : listPc'[d] \in {"merge", "read"} => listPc[d] \in {"merge", "read"}
    BY <1>1, <1>8
  <2>3. \A d \in ListCalls : listPc'[d] = "answer" => listPc[d] = "answer"
    BY <1>8
  <2>4. ASSUME NEW d \in ListCalls, listPc'[d] = "read", call[d].refresh, listAlone[d]
        PROVE  cache'[call[d].folder].entries = page[d].entries
    <3>1. CASE d = c
      <4>1. call[c].token = 0
        BY <2>4, <3>1 DEF ListingInv, FreshInv
      <4> QED
        BY <1>7, <1>8, <3>1, <4>1 DEF f
    <3>2. CASE d # c
      <4>1. listPc[d] = "read" /\ listPc[c] # "idle"
        BY <1>1, <1>8, <2>4, <3>2
      <4>2. call[d].folder # f
        BY <2>4, <3>2, <4>1 DEF ListingInv, FreshInv, f
      <4>3. call[d].folder \in ListFolders
        BY DEF ListingInv, L!TypeOK
      <4> QED
        BY <1>8, <2>4, <4>1, <4>2, <4>3 DEF ListingInv, FreshInv
    <3> QED
      BY <3>1, <3>2
  <2>5. \A d \in ListCalls : listAlone[d] =>
              /\ listPc'[d] # "idle"
              /\ \A e \in ListCalls \ {d} : listPc'[e] # "idle" => call[e].folder # call[d].folder
    BY <2>1 DEF ListingInv, FreshInv
  <2> QED
    BY <1>1, <2>1, <2>2, <2>3, <2>4, <2>5 DEF ListingInv, FreshInv
<1> QED
  BY <1>9, <1>10, <1>11 DEF ListingInv

\* The answer of a call that nobody disturbed is the page that it fetched.
LEMMA ReadBackInv == ASSUME ListingInv, NEW c \in ListCalls, L!ReadBack(c) PROVE ListingInv'
<1>. DEFINE f == call[c].folder
            answer == [page[c] EXCEPT !.entries = cache[f].entries]
<1>1. /\ listPc[c] = "read" /\ listPc' = [listPc EXCEPT ![c] = "answer"]
      /\ result' = [result EXCEPT ![c] = answer]
      /\ UNCHANGED <<bucket, changes, cache, page, listAt, entries, token, truncated, loading,
                     call, listActions, listAlone, gone, gap>>
  BY DEF L!ReadBack, L!CallUnchanged, L!store
<1>2. /\ f \in ListFolders /\ page[c] \in L!Entry /\ cache[f] \in L!Entry
      /\ page[c].token \in {0} \cup L!Keys
  BY <1>1 DEF ListingInv, CacheInv, Follows, L!TypeOK
<1>3. answer \in L!Entry /\ answer.entries = cache[f].entries /\ answer.token # -1
  <2>1. answer = [entries |-> cache[f].entries, token |-> page[c].token,
                  truncated |-> page[c].truncated]
    BY <1>2 DEF L!Entry
  <2>2. page[c].token # -1
    BY <1>2, ListingConstants
  <2> QED
    BY <1>2, <2>1, <2>2 DEF L!Entry
<1>. HIDE DEF answer, f
<1>4. /\ listPc'[c] = "answer" /\ result'[c] = answer
      /\ \A d \in ListCalls \ {c} : listPc'[d] = listPc[d] /\ result'[d] = result[d]
  BY <1>1 DEF ListingInv, L!TypeOK
<1>5. L!TypeOK'
  <2>1. /\ listPc' \in [ListCalls -> {"idle", "lookup", "list", "merge", "read", "answer",
                                      "failed"}]
        /\ result' \in [ListCalls -> L!Entry]
    BY <1>1, <1>3 DEF ListingInv, L!TypeOK
  <2> QED
    BY <1>1, <2>1 DEF ListingInv, L!TypeOK
<1>6. CacheInv'
  <2>1. \A d \in ListCalls : listPc'[d] \in {"merge", "read"} =>
           Follows(page[d], call[d].folder, call[d].token)
    BY <1>4 DEF ListingInv, CacheInv
  <2>2. \A d \in ListCalls : listPc'[d] = "answer" => result'[d].token # -1
    BY <1>3, <1>4 DEF ListingInv, CacheInv
  <2>3. /\ \A g \in ListFolders : Steady \subseteq bucket[g]
        /\ \A g \in ListFolders : cache[g] # L!NoEntry => cache[g].token # -1
        /\ \A g \in ListFolders \ gap : cache[g] # L!NoEntry => Follows(cache[g], g, 0)
    BY DEF ListingInv, CacheInv
  <2> QED
    BY <1>1, <2>1, <2>2, <2>3 DEF CacheInv
<1>7. FreshInv'
  <2>1. \A d \in ListCalls : listPc[d] = "idle" <=> listPc'[d] = "idle"
    BY <1>1, <1>4
  <2>2. \A d \in ListCalls : listPc'[d] \in {"merge", "read"} => listPc'[d] = listPc[d]
    BY <1>4
  <2>3. ASSUME NEW d \in ListCalls, listPc'[d] = "answer", call[d].refresh, listAlone[d],
               NEW i \in DOMAIN result'[d].entries
        PROVE  result'[d].entries[i][2] \notin gone[d]
    <3>1. CASE d = c
      <4>1. answer.entries = page[c].entries
        BY <1>1, <1>3, <2>3, <3>1 DEF ListingInv, FreshInv, f
      <4> QED
        BY <1>1, <1>4, <2>3, <3>1, <4>1 DEF ListingInv, FreshInv
    <3>2. CASE d # c
      BY <1>4, <2>3, <3>2 DEF ListingInv, FreshInv
    <3> QED
      BY <3>1, <3>2
  <2>4. \A d \in ListCalls : listAlone[d] =>
              /\ listPc'[d] # "idle"
              /\ \A e \in ListCalls \ {d} : listPc'[e] # "idle" => call[e].folder # call[d].folder
    BY <2>1 DEF ListingInv, FreshInv
  <2> QED
    BY <1>1, <2>1, <2>2, <2>3, <2>4 DEF ListingInv, FreshInv
<1> QED
  BY <1>5, <1>6, <1>7 DEF ListingInv

LEMMA BucketInv == ASSUME ListingInv, NEW f \in ListFolders, L!ChangeBucket(f) PROVE ListingInv'
<1>1. /\ changes < MaxChanges /\ changes' = changes + 1
      /\ gone' = [c \in ListCalls |-> IF L!Running(c) /\ call[c].folder = f
                                      THEN gone[c] \ bucket'[f] ELSE gone[c]]
      /\ UNCHANGED <<cache, listAt, entries, token, truncated, loading, listPc, call, page,
                     result, listActions, listAlone, gap>>
  BY DEF L!ChangeBucket, L!store
<1>2. PICK k \in Volatile :
         bucket' = [bucket EXCEPT ![f] = IF k \in bucket[f] THEN bucket[f] \ {k}
                                                            ELSE bucket[f] \cup {k}]
  BY DEF L!ChangeBucket
<1>3. k \in L!Keys /\ k \notin Steady
  BY ScreensAssumption DEF L!ListingAssumption, L!Keys
<1>4. /\ bucket' \in [ListFolders -> SUBSET L!Keys]
      /\ \A g \in ListFolders : Steady \subseteq bucket'[g]
      /\ \A g \in ListFolders \ {f} : bucket'[g] = bucket[g]
  BY <1>2, <1>3 DEF ListingInv, CacheInv, L!TypeOK
<1>5. L!TypeOK'
  <2>1. changes' \in 0 .. MaxChanges
    BY <1>1, ListingConstants DEF ListingInv, L!TypeOK
  <2> QED
    BY <1>1, <1>4, <2>1 DEF ListingInv, L!TypeOK
<1>6. CacheInv'
  <2>1. /\ \A d \in ListCalls : listPc[d] \in {"merge", "read"} =>
              Follows(page[d], call[d].folder, call[d].token)
        /\ \A d \in ListCalls : listPc[d] = "answer" => result[d].token # -1
        /\ \A g \in ListFolders : cache[g] # L!NoEntry => cache[g].token # -1
        /\ \A g \in ListFolders \ gap : cache[g] # L!NoEntry => Follows(cache[g], g, 0)
    BY DEF ListingInv, CacheInv
  <2> QED
    BY <1>1, <1>4, <2>1 DEF CacheInv
<1>7. FreshInv'
  <2>1. gone' \in [ListCalls -> SUBSET L!Keys] /\ \A d \in ListCalls : gone'[d] \subseteq gone[d]
    BY <1>1 DEF ListingInv, FreshInv
  <2>2. ASSUME NEW d \in ListCalls, listPc[d] # "idle"
        PROVE  gone'[d] \cap bucket'[call[d].folder] = {}
    <3>1. CASE call[d].folder = f
      BY <1>1, <2>2, <3>1 DEF L!Running
    <3>2. CASE call[d].folder # f
      <4>1. call[d].folder \in ListFolders
        BY DEF ListingInv, L!TypeOK
      <4> QED
        BY <1>4, <2>1, <2>2, <3>2, <4>1 DEF ListingInv, FreshInv
    <3> QED
      BY <3>1, <3>2
  <2>3. /\ \A d \in ListCalls : listPc[d] \in {"merge", "read"} =>
              \A i \in DOMAIN page[d].entries : page[d].entries[i][2] \notin gone'[d]
        /\ \A d \in ListCalls : listPc[d] = "answer" /\ call[d].refresh /\ listAlone[d] =>
              \A i \in DOMAIN result[d].entries : result[d].entries[i][2] \notin gone'[d]
    BY <2>1 DEF ListingInv, FreshInv
  <2> QED
    BY <1>1, <2>1, <2>2, <2>3 DEF ListingInv, FreshInv
<1> QED
  BY <1>5, <1>6, <1>7 DEF ListingInv

LEMMA NextListing == ListingInv /\ [L!Next]_(L!vars) => ListingInv'
<1> SUFFICES ASSUME ListingInv, [L!Next]_(L!vars) PROVE ListingInv'
  OBVIOUS
<1>1. CASE UNCHANGED L!vars
  <2>1. UNCHANGED <<bucket, changes, cache, listAt, entries, token, truncated, loading, listPc,
                    call, page, result, listActions, listAlone, gone, gap>>
    BY <1>1 DEF L!vars, L!store, L!history
  <2>2. L!TypeOK'
    BY <2>1 DEF ListingInv, L!TypeOK
  <2>3. CacheInv'
    BY <2>1, SameCache DEF ListingInv
  <2>4. FreshInv'
    BY <2>1 DEF ListingInv, FreshInv
  <2> QED
    BY <2>2, <2>3, <2>4 DEF ListingInv
<1> QED
  BY <1>1, LookupInv, ListStepInv, MergeInv, ReadBackInv, ReceiveInv, UserInv, BucketInv
  DEF L!Next, L!Work

\* Each object has one place in an entry.
LEMMA ListedOnce ==
    ASSUME NEW e, NEW f, NEW k, Follows(e, f, 0)
    PROVE  Cardinality({i \in DOMAIN e.entries : e.entries[i] = L!Object(f, k)}) <= 1
<1>. DEFINE places == {i \in DOMAIN e.entries : e.entries[i] = L!Object(f, k)}
<1>1. /\ DOMAIN e.entries \subseteq Nat
      /\ \A i \in DOMAIN e.entries : e.entries[i][2] \in Nat
  <2>1. e.entries \in Seq({f} \X L!Keys)
    BY DEF Follows
  <2>2. DOMAIN e.entries = 1 .. Len(e.entries) /\ \A i \in 1 .. Len(e.entries) :
           e.entries[i] \in {f} \X L!Keys
    BY <2>1
  <2> QED
    BY <2>2, ListingConstants
<1>2. \A i, j \in places : i = j
  <2> SUFFICES ASSUME NEW i \in places, NEW j \in places PROVE i = j
    OBVIOUS
  <2>1. i \in DOMAIN e.entries /\ j \in DOMAIN e.entries /\ e.entries[i][2] = e.entries[j][2]
    OBVIOUS
  <2>2. ~ (i < j) /\ ~ (j < i)
    BY <1>1, <2>1 DEF Follows
  <2> QED
    BY <1>1, <2>1, <2>2
<1>3. CASE places = {}
  BY <1>3, FS_EmptySet
<1>4. CASE places # {}
  <2>1. PICK i \in places : TRUE
    BY <1>4
  <2>2. places = {i}
    BY <1>2, <2>1
  <2>3. Cardinality({i}) = 1
    BY FS_Singleton
  <2> QED
    BY <2>2, <2>3
<1> QED
  BY <1>3, <1>4

\* What the cache of listings holds of a folder misses nothing that stays and repeats nothing,
\* as long as no page was appended that does not follow it; and a refresh that no other call of
\* its folder overlaps shows nothing that was deleted before (list_cache.go, list.go).
THEOREM ListingIsTrueAlways == MCSpec => []ListingIsTrue
<1>1. ListingInv => ListingIsTrue
  <2> SUFFICES ASSUME ListingInv PROVE ListingIsTrue
    OBVIOUS
  <2>1. ASSUME NEW f \in ListFolders \ gap PROVE L!Covers(f)
    <3> SUFFICES ASSUME cache[f] # L!NoEntry PROVE L!Covers(f)
      BY DEF L!Covers
    <3>1. Follows(cache[f], f, 0)
      BY <2>1 DEF ListingInv, CacheInv
    <3>2. ASSUME NEW k \in Steady, ~ (cache[f].truncated /\ k > cache[f].token)
          PROVE  \E i \in DOMAIN cache[f].entries : cache[f].entries[i] = L!Object(f, k)
      <4>1. k \in Nat /\ 0 < k
        BY ListingConstants
      <4>2. cache[f].token \in Nat
        <5>1. cache[f].token \in {0} \cup L!Keys
          BY <3>1 DEF Follows
        <5>2. \A j \in L!Keys : j \in Nat
          BY ListingConstants
        <5> QED
          BY <5>1, <5>2
      <4>3. cache[f].truncated => k <= cache[f].token
        BY <3>2, <4>1, <4>2
      <4> QED
        BY <3>1, <4>1, <4>3 DEF Follows, L!Object
    <3>3. ASSUME NEW k \in Steady
          PROVE  LET places == {i \in DOMAIN cache[f].entries :
                                   cache[f].entries[i] = L!Object(f, k)}
                 IN  L!Cardinality(places) <= 1
      BY <3>1, ListedOnce, ListingUsesPages
    <3> QED
      BY <3>2, <3>3 DEF L!Covers
  <2>2. L!RefreshIsFresh
    <3> SUFFICES ASSUME NEW c \in ListCalls, listPc[c] = "answer", call[c].refresh,
                        listAlone[c], NEW k \in gone[c]
                 PROVE  L!Object(call[c].folder, k) \notin L!ToSet(result[c].entries)
      BY DEF L!RefreshIsFresh
    <3>1. \A i \in DOMAIN result[c].entries : result[c].entries[i][2] # k
      BY DEF ListingInv, FreshInv
    <3> QED
      BY <3>1 DEF L!Object, L!ToSet
  <2> QED
    BY <2>1, <2>2 DEF ListingInv, ListingIsTrue, L!CacheCoversUnlessGap
<1> QED
  BY <1>1, InitListing, NextListing, SpecIsBrowsing, PTL DEF L!Spec

=============================================================================
