---------------------------- MODULE ProfileClients ----------------------------
(***************************************************************************)
(* How a stored profile becomes the S3 clients of a call: the file         *)
(* browser resolves the profile and builds a client for itself             *)
(* (filemanager/service.go resolveClient), a transfer also takes the pair  *)
(* of pooled and fresh clients that ConnectionManager caches               *)
(* (s3client/manager.go), while the profile is saved, renamed, imported    *)
(* and deleted and the key that seals its secret changes.                  *)
(*                                                                         *)
(* One profile.  Its configuration (endpoint, region, credentials,         *)
(* headers, proxy: all that profileHash covers) is one value; its secret   *)
(* is sealed under a key, numbered, or blank.  A save is one step here:    *)
(* MasterPassword has its steps.                                           *)
(***************************************************************************)
EXTENDS Integers, FiniteSets

CONSTANTS
    Callers,
    Configs,
    Unusable,                 \* configurations whose proxy URL cannot be used
    MaxEdits, MaxKeys         \* bounds on what the user does, and on keys

NoKey == 0
Blank == 0
Keys == 1..MaxKeys

NoConfig == "no config"

ASSUME ClientsAssumption ==
    /\ Unusable \subseteq Configs /\ NoConfig \notin Configs
    /\ MaxEdits \in Nat /\ MaxKeys \in Nat \ {0}

NoRow == [cfg |-> NoConfig, secret |-> Blank]
Row == [cfg : Configs, secret : Keys \cup {Blank}]

VARIABLES
    row, box, edits,          \* the profile's row, the key in the KeyBox
    entry, open,              \* the cached configuration, and the pairs closeEntry did not get
    pc, kind,                 \* each call, and whether it browses or transfers
    key, host, loaded,        \* what it has read: the key, then the profile twice
    got,                      \* the configuration of the clients it returned
    \* history of a call: the configurations stored while it ran, and whether there was
    \* a reason for it to fail
    seen, cause

store == <<row, box, edits>>
cache == <<entry, open>>
call == <<kind, key, host, loaded, got>>
history == <<seen, cause>>
vars == <<store, cache, pc, call, history>>

Active(c) == pc[c] \notin {"idle", "done", "failed"}

\* What a state of the store offers to the calls that are running.
Offers(r) == IF r = NoRow THEN {} ELSE {r.cfg}
Hinders(r, b, k) ==
    \/ r = NoRow \/ b = NoKey \/ r.cfg \in Unusable
    \/ r.secret # b /\ ~(k = "browse" /\ r.secret = Blank)

Watch ==
    /\ seen' = [c \in Callers |-> IF Active(c) THEN seen[c] \cup Offers(row') ELSE seen[c]]
    /\ cause' = [c \in Callers |-> cause[c] \/ (Active(c) /\ Hinders(row', box', kind[c]))]

-----------------------------------------------------------------------------
(* The profile and the key. *)

Edit == edits < MaxEdits /\ edits' = edits + 1

\* A new profile, or the form's fields with a new secret.
SaveProfile ==
    /\ Edit /\ box # NoKey
    /\ \E g \in Configs : row' = [cfg |-> g, secret |-> box]
    /\ UNCHANGED <<box, cache, pc, call>> /\ Watch

\* A save whose secret is left empty keeps the stored one, which must not be blank.
SaveKeepingSecret ==
    /\ Edit /\ box # NoKey /\ row # NoRow /\ row.secret # Blank
    /\ \E g \in Configs : row' = [row EXCEPT !.cfg = g]
    /\ UNCHANGED <<box, cache, pc, call>> /\ Watch

\* An imported profile has no credentials.
ImportProfile ==
    /\ Edit /\ row = NoRow
    /\ \E g \in Configs \ Unusable : row' = [cfg |-> g, secret |-> Blank]
    /\ UNCHANGED <<box, cache, pc, call>> /\ Watch

\* Nobody tells the connection manager.
DeleteProfile ==
    /\ Edit /\ row # NoRow /\ row' = NoRow
    /\ UNCHANGED <<box, cache, pc, call>> /\ Watch

\* The password that was set verifies, or there is none.
Unlock ==
    /\ box = NoKey /\ row # NoRow /\ row.secret # Blank
    /\ box' = row.secret
    /\ UNCHANGED <<row, edits, cache, pc, call>> /\ Watch

\* Setting or removing the master password: the new secrets are committed, and then the
\* KeyBox gets the new key.
Reencrypt ==
    /\ Edit /\ row # NoRow /\ row.secret # Blank /\ row.secret = box /\ box < MaxKeys
    /\ row' = [row EXCEPT !.secret = box + 1]
    /\ UNCHANGED <<box, cache, pc, call>> /\ Watch

InstallKey ==
    /\ box # NoKey /\ row # NoRow /\ row.secret > box
    /\ box' = row.secret
    /\ UNCHANGED <<row, edits, cache, pc, call>> /\ Watch

-----------------------------------------------------------------------------
(* A call. *)

\* A transport can be built for the configuration's proxy.
applyProxy(g) == g \notin Unusable

Fails(c) == pc' = [pc EXCEPT ![c] = "failed"]
GoesTo(c, step) == pc' = [pc EXCEPT ![c] = step]

Begin(c) ==
    /\ ~Active(c)
    /\ \E k \in {"browse", "transfer"} :
        /\ kind' = [kind EXCEPT ![c] = k]
        /\ cause' = [cause EXCEPT ![c] = Hinders(row, box, k)]
    /\ GoesTo(c, "asking")
    /\ key' = [key EXCEPT ![c] = NoKey]
    /\ host' = [host EXCEPT ![c] = NoConfig] /\ loaded' = [loaded EXCEPT ![c] = NoConfig]
    /\ got' = [got EXCEPT ![c] = NoConfig]
    /\ seen' = [seen EXCEPT ![c] = Offers(row)]
    /\ UNCHANGED <<store, cache>>

\* While the application is locked there is no key.
ReadKey(c) ==
    /\ pc[c] = "asking"
    /\ IF box = NoKey THEN Fails(c) /\ UNCHANGED key
       ELSE GoesTo(c, "resolving") /\ key' = [key EXCEPT ![c] = box]
    /\ UNCHANGED <<store, cache, kind, host, loaded, got>> /\ Watch

\* A fault: a blank secret is opened too.
ResolvesSealed(r, k) == r # NoRow /\ r.secret = k

\* connection.ResolveProfile leaves a blank secret alone.
Resolves(r, k) == r # NoRow /\ r.secret \in {k, Blank}

ResolveProfile(c) ==
    /\ pc[c] = "resolving"
    /\ IF ~Resolves(row, key[c]) THEN Fails(c) /\ UNCHANGED host
       ELSE /\ GoesTo(c, IF kind[c] = "browse" THEN "building" ELSE "fetching")
            /\ host' = [host EXCEPT ![c] = row.cfg]
    /\ UNCHANGED <<store, cache, kind, key, loaded, got>> /\ Watch

\* The file browser's own client.
NewS3Client(c) ==
    /\ pc[c] = "building"
    /\ IF ~applyProxy(host[c]) THEN Fails(c) /\ UNCHANGED got
       ELSE GoesTo(c, "done") /\ got' = [got EXCEPT ![c] = host[c]]
    /\ UNCHANGED <<store, cache, kind, key, host, loaded>> /\ Watch

\* ConnectionManager.Get reads the key again, ...
GetKey(c) ==
    /\ pc[c] = "fetching"
    /\ IF box = NoKey THEN Fails(c) /\ UNCHANGED key
       ELSE GoesTo(c, "loading") /\ key' = [key EXCEPT ![c] = box]
    /\ UNCHANGED <<store, cache, kind, host, loaded, got>> /\ Watch

\* ... loads the profile, whose secret it opens even when it is blank, ...
ManagerResolves(r, k) == r # NoRow /\ r.secret = k

ManagerResolveProfile(c) ==
    /\ pc[c] = "loading"
    /\ IF ~ManagerResolves(row, key[c]) THEN Fails(c) /\ UNCHANGED loaded
       ELSE GoesTo(c, "taking") /\ loaded' = [loaded EXCEPT ![c] = row.cfg]
    /\ UNCHANGED <<store, cache, kind, key, host, got>> /\ Watch

\* A fault: whatever is cached is current.
GetCached(c) ==
    /\ pc[c] = "taking"
    /\ \/ /\ entry # NoConfig
          /\ GoesTo(c, "done") /\ got' = [got EXCEPT ![c] = entry] /\ UNCHANGED cache
       \/ /\ entry = NoConfig /\ ~applyProxy(loaded[c])
          /\ Fails(c) /\ UNCHANGED <<got, cache>>
       \/ /\ entry = NoConfig /\ applyProxy(loaded[c])
          /\ entry' = loaded[c] /\ open' = open + 1
          /\ GoesTo(c, "done") /\ got' = [got EXCEPT ![c] = loaded[c]]
    /\ UNCHANGED <<store, kind, key, host, loaded>> /\ Watch

\* ... and, under the mutex, takes the cached pair or closes it and builds another.
closeEntry == IF entry = NoConfig THEN open ELSE open - 1

Get(c) ==
    /\ pc[c] = "taking"
    /\ \/ /\ entry = loaded[c]
          /\ GoesTo(c, "done") /\ got' = [got EXCEPT ![c] = entry] /\ UNCHANGED cache
       \/ /\ entry # loaded[c] /\ applyProxy(loaded[c])
          /\ entry' = loaded[c] /\ open' = closeEntry + 1
          /\ GoesTo(c, "done") /\ got' = [got EXCEPT ![c] = loaded[c]]
       \/ /\ entry # loaded[c] /\ ~applyProxy(loaded[c])
          /\ entry' = NoConfig /\ open' = closeEntry
          /\ Fails(c) /\ UNCHANGED got
    /\ UNCHANGED <<store, kind, key, host, loaded>> /\ Watch

-----------------------------------------------------------------------------

Init ==
    /\ row \in {NoRow} \cup [cfg : Configs \ Unusable, secret : {1}] /\ box \in {NoKey, 1}
    /\ edits = 0 /\ entry = NoConfig /\ open = 0
    /\ pc = [c \in Callers |-> "idle"] /\ kind = [c \in Callers |-> "browse"]
    /\ key = [c \in Callers |-> NoKey]
    /\ host = [c \in Callers |-> NoConfig] /\ loaded = [c \in Callers |-> NoConfig]
    /\ got = [c \in Callers |-> NoConfig]
    /\ seen = [c \in Callers |-> {}] /\ cause = [c \in Callers |-> FALSE]

Call(c) ==
    \/ Begin(c) \/ ReadKey(c) \/ ResolveProfile(c) \/ NewS3Client(c)
    \/ GetKey(c) \/ ManagerResolveProfile(c) \/ Get(c)

Next ==
    \/ SaveProfile \/ SaveKeepingSecret \/ ImportProfile \/ DeleteProfile
    \/ Unlock \/ Reencrypt \/ InstallKey
    \/ \E c \in Callers : Call(c)

Spec == Init /\ [][Next]_vars

-----------------------------------------------------------------------------
(* Properties. *)

\* The shape of the state.
TypeOK ==
    /\ row \in Row \cup {NoRow} /\ box \in Keys \cup {NoKey} /\ edits \in 0..MaxEdits
    /\ entry \in (Configs \ Unusable) \cup {NoConfig} /\ open \in Nat
    /\ pc \in [Callers -> {"idle", "asking", "resolving", "building", "fetching", "loading",
                           "taking", "done", "failed"}]
    /\ kind \in [Callers -> {"browse", "transfer"}]
    /\ key \in [Callers -> Keys \cup {NoKey}]
    /\ {host, loaded, got} \subseteq [Callers -> Configs \cup {NoConfig}]
    /\ seen \in [Callers -> SUBSET Configs] /\ cause \in [Callers -> BOOLEAN]

\* Clients that a call returns were built from the profile as it was stored at some
\* moment of that call, however the cache was filled and the profile edited meanwhile: no
\* call works with an endpoint or credentials that were replaced before it (Get's
\* comparison of hashes, which is the only invalidation there is).
ReturnsCurrent == \A c \in Callers : pc[c] = "done" => got[c] \in seen[c]

\* A call fails only if at some moment of it the application was locked, the profile was
\* missing, its proxy could not be used, or (for a transfer) its secret was blank, or the
\* password change had committed secrets whose key the KeyBox did not hold yet.
FailsForCause == \A c \in Callers : pc[c] = "failed" => cause[c]

\* The idle connections of clients that were replaced are closed: at any time only the cached
\* pair was not told to (closeEntry).  Those a call still uses are not idle and stay with it.
ReplacedAreClosed == open = IF entry = NoConfig THEN 0 ELSE 1

\* A profile opens for a transfer exactly when it opens for the file browser ("functionally
\* identical to connection.ResolveProfile", ConnectionManager.resolveProfile).
ResolvesAlike == \A k \in Keys : ManagerResolves(row, k) <=> Resolves(row, k)

\* Calls fail for a cause and leave no replaced clients open, in every typed state.
CallsAreServed == TypeOK /\ FailsForCause /\ ReplacedAreClosed

=============================================================================
