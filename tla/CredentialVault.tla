--------------------------- MODULE CredentialVault ---------------------------
(***************************************************************************)
(* What the master password promises, without saying how: credentials lie  *)
(* in a vault that one key opens.  Changing the key keeps every credential *)
(* readable, at once for all of them; only who has the key puts one in;    *)
(* one leaves only when its profile is deleted; and the key comes to hand  *)
(* as the one that opens the vault, or not at all.  Losing the process     *)
(* loses the key in hand, nothing else.                                    *)
(***************************************************************************)

CONSTANTS
    Keys, Machine,            \* every key; the one that needs no password
    NoKey,                    \* no key in hand
    Profiles

VARIABLES
    key,                      \* the key that opens the vault
    hand,                     \* the key in hand
    credential                \* per profile: none, blank (imported) or kept

vault == <<key, hand, credential>>

Open == hand = key

Init ==
    /\ key = Machine /\ hand = Machine
    /\ credential = [i \in Profiles |-> "none"]

\* A new password needs an open vault; the one to remove is its own proof.  The key in
\* hand is the old one until the next TakeKey.
ChangeKey(k) ==
    /\ Open \/ k = Machine
    /\ key' = k
    /\ UNCHANGED <<hand, credential>>

TakeKey ==
    /\ hand' = key
    /\ UNCHANGED <<key, credential>>

LoseKey ==
    /\ hand' = NoKey
    /\ UNCHANGED <<key, credential>>

Put(i) ==
    /\ Open
    /\ credential' = [credential EXCEPT ![i] = "kept"]
    /\ UNCHANGED <<key, hand>>

Import(i) ==
    /\ credential[i] = "none"
    /\ credential' = [credential EXCEPT ![i] = "blank"]
    /\ UNCHANGED <<key, hand>>

Delete(i) ==
    /\ credential' = [credential EXCEPT ![i] = "none"]
    /\ UNCHANGED <<key, hand>>

Next ==
    \/ \E k \in Keys : ChangeKey(k)
    \/ TakeKey \/ LoseKey
    \/ \E i \in Profiles : Put(i) \/ Import(i) \/ Delete(i)

Spec == Init /\ [][Next]_vault

=============================================================================
