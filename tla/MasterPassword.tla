---------------------------- MODULE MasterPassword ----------------------------
(***************************************************************************)
(* The key that encrypts stored credentials: SetMasterPassword,            *)
(* RemoveMasterPassword and Unlock (security.go), the KeyBox (keybox.go),  *)
(* SaveProfile, DeleteProfile and ImportProfiles (connection package), and *)
(* the start of the process (app.go).                                      *)
(*                                                                         *)
(* A key is what crypto.DeriveKey makes of this machine and a password:    *)
(* the password stands for it, and Machine for the key without one (the    *)
(* frontend refuses an empty password).  Of a stored secret or session     *)
(* token only the key it is encrypted with matters.  Every call is a       *)
(* thread; each statement or transaction of the database is atomic, for it *)
(* has a single connection; an import of several profiles is several calls *)
(* that import one.  Calls overlap as they like: nothing orders them in    *)
(* the backend, and a dialog of the frontend can be closed over a call.    *)
(***************************************************************************)
EXTENDS Naturals

CONSTANTS
    Callers, Passwords, Profiles,
    Machine, NoKey,           \* the key without a password; no key or no verifier
    Absent, Blank,            \* no such profile; a field that holds no ciphertext
    MaxCalls, MaxRestarts     \* bounds

Keys == Passwords \cup {Machine}

\* What an instance gives.
PasswordAssumption ==
    /\ NoKey \notin Keys /\ Machine \notin Passwords
    /\ {Absent, Blank} \cap (Keys \cup {NoKey}) = {} /\ Absent # Blank
    /\ MaxCalls \in Nat /\ MaxRestarts \in Nat

VARIABLES
    keyBox,                   \* the key in memory
    verifier,                 \* the password whose verifier is stored, or NoKey
    secret, token,            \* the stored fields of every profile
    call,                     \* what every caller is doing
    overtaken,                \* history: the callers whose call rests on a key, or a verified
                              \* password, that the commit of another call has replaced
    spoiled,                  \* history: such a call has taken effect
    calls, restarts

stored == <<verifier, secret, token>>
history == <<overtaken, spoiled>>
vars == <<keyBox, stored, call, history, calls, restarts>>

\* A call: its next step, the key it works with, the key to install, its profile and
\* the fields it is going to write.
Steps == {"idle", "commit", "install", "load", "encrypt", "write"}
CallType == [step: Steps, key: Keys \cup {NoKey}, newKey: Keys \cup {NoKey},
             profile: Profiles \cup {Absent}, secret: Keys \cup {Blank}, token: Keys \cup {Blank}]
Doing(step, key, newKey, i, s, t) ==
    [step |-> step, key |-> key, newKey |-> newKey, profile |-> i, secret |-> s, token |-> t]
NoCall == Doing("idle", NoKey, NoKey, Absent, Blank, Blank)

Idle(c) == call[c] = NoCall
Exists(i) == secret[i] # Absent

TypeOK ==
    /\ keyBox \in Keys \cup {NoKey}
    /\ verifier \in Passwords \cup {NoKey}
    /\ secret \in [Profiles -> Keys \cup {Absent, Blank}]
    /\ token \in [Profiles -> Keys \cup {Blank}]
    /\ call \in [Callers -> CallType]
    /\ overtaken \subseteq Callers /\ spoiled \in BOOLEAN
    /\ calls \in 0 .. MaxCalls /\ restarts \in 0 .. MaxRestarts

\* The first start: no password, no profile, and the machine's key in the KeyBox.
Init ==
    /\ keyBox = Machine /\ verifier = NoKey
    /\ secret = [i \in Profiles |-> Absent] /\ token = [i \in Profiles |-> Blank]
    /\ call = [c \in Callers |-> NoCall] /\ overtaken = {} /\ spoiled = FALSE
    /\ calls = 0 /\ restarts = 0

-----------------------------------------------------------------------------

Begin(c) == Idle(c) /\ calls < MaxCalls /\ calls' = calls + 1

At(c, step) == call[c].step = step
Goto(c, step) == call' = [call EXCEPT ![c].step = step]
Return(c) == call' = [call EXCEPT ![c] = NoCall] /\ overtaken' = overtaken \ {c}
Unchanged == UNCHANGED <<calls, restarts>>

\* A call of c takes effect.
TakesEffect(c) == spoiled' = (spoiled \/ c \in overtaken)

\* A call of c reads the key: the one in the KeyBox is replaced already while the call that
\* committed another has yet to install it.
ReadsKey(c) ==
    overtaken' = IF \E d \in Callers \ overtaken : At(d, "install") /\ call[d].newKey # keyBox
                 THEN overtaken \cup {c} ELSE overtaken

\* SetMasterPassword: refused while locked.
SetMasterPassword(c, p) ==
    /\ Begin(c) /\ keyBox # NoKey
    /\ call' = [call EXCEPT ![c] = Doing("commit", keyBox, p, Absent, Blank, Blank)]
    /\ ReadsKey(c)
    /\ UNCHANGED <<keyBox, stored, spoiled, restarts>>

\* verifyCandidate
Verified(p) == verifier = p

\* RemoveMasterPassword: refused unless p is the password.
RemoveMasterPassword(c, p) ==
    /\ Begin(c) /\ Verified(p)
    /\ call' = [call EXCEPT ![c] = Doing("commit", p, Machine, Absent, Blank, Blank)]
    /\ UNCHANGED <<keyBox, stored, history, restarts>>

\* Unlock: refused unless p is the password.
Unlock(c, p) ==
    /\ Begin(c) /\ Verified(p)
    /\ call' = [call EXCEPT ![c] = Doing("install", NoKey, p, Absent, Blank, Blank)]
    /\ UNCHANGED <<keyBox, stored, history, restarts>>

\* ReencryptSecretsTx decrypts every profile's secret, and its token if it has one.
Reencryptable(c) ==
    \A i \in Profiles :
       Exists(i) => secret[i] = call[c].key /\ token[i] \in {call[c].key, Blank}

VerifierOf(k) == IF k = Machine THEN NoKey ELSE k

\* A commit takes effect, and overtakes every other call under way.
Overtakes(c) ==
    /\ TakesEffect(c)
    /\ overtaken' = {d \in Callers \ {c} : ~Idle(d)}

\* A fault: the verifier is written by Install, outside the transaction.
CommitSecretsOnly(c) ==
    /\ At(c, "commit") /\ Reencryptable(c)
    /\ secret' = [i \in Profiles |-> IF Exists(i) THEN call[c].newKey ELSE Absent]
    /\ token' = [i \in Profiles |-> IF token[i] = Blank THEN Blank ELSE call[c].newKey]
    /\ Goto(c, "install") /\ Overtakes(c)
    /\ UNCHANGED <<keyBox, verifier>> /\ Unchanged

\* reencryptTx commits: every profile is under the new key, and the verifier is its ...
Commit(c) ==
    /\ At(c, "commit") /\ Reencryptable(c)
    /\ secret' = [i \in Profiles |-> IF Exists(i) THEN call[c].newKey ELSE Absent]
    /\ token' = [i \in Profiles |-> IF token[i] = Blank THEN Blank ELSE call[c].newKey]
    /\ verifier' = VerifierOf(call[c].newKey)
    /\ Goto(c, "install") /\ Overtakes(c)
    /\ UNCHANGED keyBox /\ Unchanged

\* ... or is rolled back: a secret does not decrypt (a blank one never does), or
\* the database fails.
Rollback(c) ==
    /\ At(c, "commit")
    /\ Return(c)
    /\ UNCHANGED <<keyBox, stored, spoiled>> /\ Unchanged

\* A fault: a key that is there is kept.
InstallFirst(c) ==
    /\ At(c, "install")
    /\ keyBox' = IF keyBox = NoKey THEN call[c].newKey ELSE keyBox
    /\ TakesEffect(c) /\ Return(c)
    /\ UNCHANGED stored /\ Unchanged

\* KeyBox.Set
Install(c) ==
    /\ At(c, "install")
    /\ keyBox' = call[c].newKey
    /\ TakesEffect(c) /\ Return(c)
    /\ UNCHANGED stored /\ Unchanged

\* SaveProfile reads the key; i is Absent for a new profile.
SaveProfile(c, i) ==
    /\ Begin(c) /\ keyBox # NoKey
    /\ \E step \in IF i = Absent THEN {"encrypt"} ELSE {"encrypt", "load"} :
         call' = [call EXCEPT ![c] = Doing(step, keyBox, NoKey, i, Blank, Blank)]
    /\ ReadsKey(c)
    /\ UNCHANGED <<keyBox, stored, spoiled, restarts>>

\* The fields to write: secret s, and a token that is encrypted now if there is one.
Prepared(c, s) ==
    \E t \in {call[c].key, Blank} :
       call' = [call EXCEPT ![c] = Doing("write", call[c].key, NoKey, call[c].profile, s, t)]

\* A new secret is encrypted.
Encrypt(c) ==
    /\ At(c, "encrypt")
    /\ Prepared(c, call[c].key)
    /\ UNCHANGED <<keyBox, stored, history>> /\ Unchanged

\* The secret was left blank: the existing one is kept as it is stored, and a blank
\* one is rejected.
LoadExisting(c) ==
    /\ At(c, "load")
    /\ LET s == secret[call[c].profile] IN
         IF s \in {Absent, Blank} THEN Return(c) ELSE Prepared(c, s) /\ UNCHANGED overtaken
    /\ UNCHANGED <<keyBox, stored, spoiled>> /\ Unchanged

\* ProfileRepository.Create or Update, which fails when the profile was deleted.
Write(c) ==
    /\ At(c, "write")
    /\ \/ \E i \in Profiles :
            /\ IF call[c].profile = Absent THEN ~Exists(i) ELSE i = call[c].profile /\ Exists(i)
            /\ secret' = [secret EXCEPT ![i] = call[c].secret]
            /\ token' = [token EXCEPT ![i] = call[c].token]
            /\ TakesEffect(c)
       \/ UNCHANGED <<secret, token, spoiled>>
    /\ Return(c)
    /\ UNCHANGED <<keyBox, verifier>> /\ Unchanged

DeleteProfile(c, i) ==
    /\ Begin(c) /\ Exists(i)
    /\ secret' = [secret EXCEPT ![i] = Absent] /\ token' = [token EXCEPT ![i] = Blank]
    /\ UNCHANGED <<keyBox, verifier, call, history, restarts>>

\* A fault: an import replaces the profile of that name.
ImportReplaces(c) ==
    /\ Begin(c)
    /\ \E i \in Profiles : secret' = [secret EXCEPT ![i] = Blank]
    /\ UNCHANGED <<keyBox, verifier, token, call, history, restarts>>

\* ImportProfiles creates a profile with blank credentials, locked or not.
ImportProfiles(c) ==
    /\ Begin(c)
    /\ \E i \in Profiles : ~Exists(i) /\ secret' = [secret EXCEPT ![i] = Blank]
    /\ UNCHANGED <<keyBox, verifier, token, call, history, restarts>>

\* The process ends at any point and starts again: newApp installs the machine's key
\* when there is no verifier, and none when there is one or it cannot tell.
Restart ==
    /\ restarts < MaxRestarts /\ restarts' = restarts + 1
    /\ \E k \in IF verifier = NoKey THEN {Machine, NoKey} ELSE {NoKey} : keyBox' = k
    /\ call' = [c \in Callers |-> NoCall] /\ overtaken' = {}
    /\ UNCHANGED <<stored, spoiled, calls>>

Next ==
    \/ \E c \in Callers :
         \/ \E p \in Passwords :
              SetMasterPassword(c, p) \/ RemoveMasterPassword(c, p) \/ Unlock(c, p)
         \/ Commit(c) \/ Rollback(c) \/ Install(c)
         \/ \E i \in Profiles \cup {Absent} : SaveProfile(c, i)
         \/ Encrypt(c) \/ LoadExisting(c) \/ Write(c)
         \/ \E i \in Profiles : DeleteProfile(c, i)
         \/ ImportProfiles(c)
    \/ Restart

Spec == Init /\ [][Next]_vars

-----------------------------------------------------------------------------
(* Properties *)

\* The key that the stored verifier, or its absence, stands for: what the next start
\* of the process, and the right password, will install.
CurrentKey == IF verifier = NoKey THEN Machine ELSE verifier

\* Every stored credential is under that key.
AllUnderCurrentKey ==
    \A i \in Profiles : Exists(i) => secret[i] \in {CurrentKey, Blank}
                                     /\ token[i] \in {CurrentKey, Blank}

\* It is, at every moment and so after every crash, as long as no call took effect that a
\* password change had overtaken: whatever else overlaps, fails or is cut (the comment of
\* SetMasterPassword: both are durable, or neither is).
NoMixedKeys == ~spoiled => AllUnderCurrentKey

\* Between the calls the application is then locked or has the key of what is stored, so
\* that GetProfile and every transfer can read each profile.
UnlockedIsReadable ==
    ~spoiled /\ (\A c \in Callers : Idle(c)) /\ keyBox # NoKey => keyBox = CurrentKey

\* A password change that nobody overtook has the key of what is stored, so only a profile
\* that was imported without a secret refuses it (ReencryptSecretsTx decrypts that one too),
\* or the database.
OnlyBlankRefuses ==
    \A c \in Callers \ overtaken :
       ~spoiled /\ At(c, "commit") /\ (\A i \in Profiles : secret[i] # Blank) => Reencryptable(c)

\* A locked application gets a key only from the right password; a start gets the
\* machine's key only when no password is set.
LockedUntilVerified ==
    [][~spoiled' /\ keyBox' # keyBox /\ keyBox' # NoKey => keyBox' = CurrentKey]_vars

=============================================================================
