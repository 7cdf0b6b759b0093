------------------------------ MODULE MCSecrets ------------------------------
(***************************************************************************)
(* Instances of DatabaseOpening and MasterPassword for TLC: what keeps the *)
(* stored credentials readable, the salt and the schema that a start finds *)
(* or makes, and the key that the user's password changes afterwards.  The *)
(* two models share nothing, so a behaviour is one of either and the other *)
(* one rests.                                                              *)
(***************************************************************************)
EXTENDS DatabaseOpening

CONSTANTS
    Callers, Passwords, Profiles, Machine, NoKey, Absent, Blank, MaxCalls, MaxRestarts

VARIABLES
    subject,                  \* "database" or "password"
    keyBox, verifier, secret, token, call, overtaken, spoiled, calls, restarts

M == INSTANCE MasterPassword

ASSUME SecretsAssumption == M!PasswordAssumption

password == <<keyBox, verifier, secret, token, call, overtaken, spoiled, calls, restarts>>
all == <<subject, vars, password>>

OfDatabase(A) == subject = "database" /\ A /\ UNCHANGED <<subject, password>>
OfPassword(A) == subject = "password" /\ A /\ UNCHANGED <<subject, vars>>

\* The one that rests has a single initial state.
MCInit ==
    /\ Init /\ M!Init
    /\ \/ subject = "database"
       \/ subject = "password" /\ db = Empty
MCNext == OfDatabase(Next) \/ OfPassword(M!Next)

MCSpec ==
    /\ MCInit /\ [][MCNext]_all
    /\ \A i \in Instances : WF_all(OfDatabase(Opening(i)))

\* Every stored credential is under the current key, unless an overtaken call took effect,
\* see MasterPassword ...
NoMixedKeys == M!TypeOK /\ M!NoMixedKeys

\* ... which the application has between the calls, unless it is locked, and a password
\* change has to the end: nothing stored refuses it but a blank imported secret.
UnlockedIsReadable == M!UnlockedIsReadable /\ M!OnlyBlankRefuses

\* What ResolveProfile reads of a profile with the current key: a blank field is no ciphertext.
Credential(i) ==
    IF secret[i] = Absent THEN "none"
    ELSE IF secret[i] = Blank THEN "blank"
    ELSE IF secret[i] = M!CurrentKey /\ token[i] \in {M!CurrentKey, Blank} THEN "kept"
    ELSE "lost"

Vault == INSTANCE CredentialVault
           WITH Keys <- M!Keys, key <- M!CurrentKey, hand <- keyBox,
                credential <- [i \in Profiles |-> Credential(i)]

\* The credentials lie in a vault until a call takes effect that a password change has
\* overtaken: whatever calls, faults and crashes come together, a password change keeps
\* each of them readable and all at once, one is stored only by who has the current key
\* (SaveProfile) and goes only with its profile, and a locked application gets the key
\* from the right password only (Unlock), or at a start without one (newApp).
ImplementsVault == Vault!Init /\ [][spoiled' \/ Vault!Next]_(Vault!vault)

\* What SaveProfile's comment says, "encrypting a new/changed SecretAccessKey or
\* SessionToken requires the current encryption key" (connection/service.go), of all that
\* is stored and with nothing excluded.
SavedUnderCurrentKey == M!AllUnderCurrentKey

=============================================================================
