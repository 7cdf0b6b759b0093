---------------------------- MODULE ClientsProofs ----------------------------
(***************************************************************************)
(* What a call gets from the s3client package, for any number of callers,  *)
(* requests and configurations, any failure limit and any retry policy.    *)
(*                                                                         *)
(* The clients: while a call runs, the row's configuration, and whatever   *)
(* the call has read of it, are among those it has seen, and whatever      *)
(* hinders it has been noted.  The breaker: the trials are empty unless    *)
(* the host is half-open and being probed, so that a grant always adds the *)
(* first one.                                                              *)
(***************************************************************************)
EXTENDS MCClients, FiniteSetTheorems, TLAPS

-----------------------------------------------------------------------------
(* A behaviour is one of each component. *)

LEMMA SpecIsClients == MCSpec => Spec
<1>1. MCInit => Init
  BY DEF MCInit
<1>2. [MCNext]_all => [Next]_vars
  BY DEF MCNext, OfClients, OfBreaker, all
<1> QED
  BY <1>1, <1>2, PTL DEF MCSpec, Spec

LEMMA SpecIsBreaker == MCSpec => B!Spec
<1>1. MCInit => B!Init
  BY DEF MCInit
<1>2. [MCNext]_all => [B!Next]_(B!vars)
  BY DEF MCNext, OfClients, OfBreaker, all, breaker, B!vars, B!host
<1> QED
  BY <1>1, <1>2, PTL DEF MCSpec, B!Spec

-----------------------------------------------------------------------------
(* A call gets a client of the current profile *)

Shape ==
    /\ DOMAIN pc = Callers /\ DOMAIN host = Callers /\ DOMAIN loaded = Callers
    /\ DOMAIN got = Callers /\ DOMAIN seen = Callers /\ DOMAIN kind = Callers

CurrentFor(c) ==
    /\ Active(c) => Offers(row) \subseteq seen[c]
    /\ pc[c] \in {"building", "fetching", "loading", "taking"} => host[c] \in seen[c]
    /\ pc[c] = "taking" => loaded[c] \in seen[c]
    /\ pc[c] = "done" => got[c] \in seen[c]

IInv == Shape /\ \A c \in Callers : CurrentFor(c)

-----------------------------------------------------------------------------

\* Nobody calls at the start.
LEMMA InitInvariant == Init => IInv
BY DEF Init, IInv, Shape, CurrentFor, Active

\* The user's steps do not touch the calls.
LEMMA StoreInvariant ==
    ASSUME IInv, Watch, UNCHANGED <<pc, call>>
    PROVE IInv'
<1>1. Shape' BY DEF Watch, IInv, Shape, call
<1>2. ASSUME NEW c \in Callers PROVE CurrentFor(c)'
  <2>1. CurrentFor(c) BY DEF IInv
  <2>2. seen[c] \subseteq seen'[c] /\ (Active(c) => Offers(row') \subseteq seen'[c])
    <3>1. Shape BY DEF IInv
    <3>2. QED BY <3>1 DEF Watch, Shape
  <2>3. Offers(row)' = Offers(row') BY DEF Offers
  <2>4. QED BY <2>1, <2>2, <2>3 DEF CurrentFor, Active, call
<1>3. QED BY <1>1, <1>2 DEF IInv

\* A step of one call leaves what the invariant says of the others.
LEMMA OthersInvariant ==
    ASSUME IInv, NEW c \in Callers, NEW d \in Callers, d # c,
           Watch, row' = row, pc'[d] = pc[d], host'[d] = host[d],
           loaded'[d] = loaded[d], got'[d] = got[d]
    PROVE CurrentFor(d)'
<1>1. CurrentFor(d) BY DEF IInv
<1>2. seen[d] \subseteq seen'[d] /\ (Active(d) => Offers(row') \subseteq seen'[d])
  <2>1. Shape BY DEF IInv
  <2>2. QED BY <2>1 DEF Watch, Shape
<1>3. Offers(row)' = Offers(row') BY DEF Offers
<1>4. QED BY <1>1, <1>2, <1>3 DEF CurrentFor, Active

\* Reading the key reads nothing of the profile.
LEMMA ReadKeyInvariant ==
    ASSUME IInv, NEW c \in Callers, ReadKey(c) PROVE IInv'
<1>1. Shape'
  BY DEF ReadKey, Fails, GoesTo, Watch, IInv, Shape
<1>2. CurrentFor(c)'
  <2>1. CurrentFor(c) /\ Shape BY DEF IInv
  <2>2. seen[c] \subseteq seen'[c] /\ (Active(c) => Offers(row) \subseteq seen'[c])
    BY <2>1 DEF ReadKey, Watch, Shape, store
  <2>3. Offers(row)' = Offers(row) BY DEF Offers, ReadKey, store
  <2>4. QED BY <2>1, <2>2, <2>3 DEF ReadKey, CurrentFor, Active, Shape, Fails, GoesTo
<1>3. ASSUME NEW d \in Callers, d # c PROVE CurrentFor(d)'
  <2>1. Watch /\ row' = row /\ pc'[d] = pc[d] /\ host'[d] = host[d]
        /\ loaded'[d] = loaded[d] /\ got'[d] = got[d]
    BY <1>3 DEF ReadKey, Fails, GoesTo, IInv, Shape, store
  <2>2. QED BY <1>3, <2>1, OthersInvariant
<1>4. QED BY <1>1, <1>2, <1>3 DEF IInv

\* The profile that is resolved is the one that is stored.
LEMMA ResolveProfileInvariant ==
    ASSUME IInv, NEW c \in Callers, ResolveProfile(c) PROVE IInv'
<1>1. Shape'
  BY DEF ResolveProfile, Fails, GoesTo, Watch, IInv, Shape
<1>2. CurrentFor(c)'
  <2>1. CurrentFor(c) /\ Shape BY DEF IInv
  <2>2. seen[c] \subseteq seen'[c] /\ (Active(c) => Offers(row) \subseteq seen'[c])
    BY <2>1 DEF ResolveProfile, Watch, Shape, store
  <2>3. Offers(row)' = Offers(row) BY DEF Offers, ResolveProfile, store
  <2>4. QED BY <2>1, <2>2, <2>3
            DEF ResolveProfile, CurrentFor, Active, Shape, Fails, GoesTo, Offers, Resolves
<1>3. ASSUME NEW d \in Callers, d # c PROVE CurrentFor(d)'
  <2>1. Watch /\ row' = row /\ pc'[d] = pc[d] /\ host'[d] = host[d]
        /\ loaded'[d] = loaded[d] /\ got'[d] = got[d]
    BY <1>3 DEF ResolveProfile, Fails, GoesTo, IInv, Shape, store
  <2>2. QED BY <1>3, <2>1, OthersInvariant
<1>4. QED BY <1>1, <1>2, <1>3 DEF IInv

\* The file browser's client is built from what was resolved.
LEMMA NewS3ClientInvariant ==
    ASSUME IInv, NEW c \in Callers, NewS3Client(c) PROVE IInv'
<1>1. Shape'
  BY DEF NewS3Client, Fails, GoesTo, Watch, IInv, Shape
<1>2. CurrentFor(c)'
  <2>1. CurrentFor(c) /\ Shape BY DEF IInv
  <2>2. seen[c] \subseteq seen'[c] /\ (Active(c) => Offers(row) \subseteq seen'[c])
    BY <2>1 DEF NewS3Client, Watch, Shape, store
  <2>3. Offers(row)' = Offers(row) BY DEF Offers, NewS3Client, store
  <2>4. QED BY <2>1, <2>2, <2>3 DEF NewS3Client, CurrentFor, Active, Shape, Fails, GoesTo
<1>3. ASSUME NEW d \in Callers, d # c PROVE CurrentFor(d)'
  <2>1. Watch /\ row' = row /\ pc'[d] = pc[d] /\ host'[d] = host[d]
        /\ loaded'[d] = loaded[d] /\ got'[d] = got[d]
    BY <1>3 DEF NewS3Client, Fails, GoesTo, IInv, Shape, store
  <2>2. QED BY <1>3, <2>1, OthersInvariant
<1>4. QED BY <1>1, <1>2, <1>3 DEF IInv

\* Get reads the key again.
LEMMA GetKeyInvariant ==
    ASSUME IInv, NEW c \in Callers, GetKey(c) PROVE IInv'
<1>1. Shape'
  BY DEF GetKey, Fails, GoesTo, Watch, IInv, Shape
<1>2. CurrentFor(c)'
  <2>1. CurrentFor(c) /\ Shape BY DEF IInv
  <2>2. seen[c] \subseteq seen'[c] /\ (Active(c) => Offers(row) \subseteq seen'[c])
    BY <2>1 DEF GetKey, Watch, Shape, store
  <2>3. Offers(row)' = Offers(row) BY DEF Offers, GetKey, store
  <2>4. QED BY <2>1, <2>2, <2>3 DEF GetKey, CurrentFor, Active, Shape, Fails, GoesTo
<1>3. ASSUME NEW d \in Callers, d # c PROVE CurrentFor(d)'
  <2>1. Watch /\ row' = row /\ pc'[d] = pc[d] /\ host'[d] = host[d]
        /\ loaded'[d] = loaded[d] /\ got'[d] = got[d]
    BY <1>3 DEF GetKey, Fails, GoesTo, IInv, Shape, store
  <2>2. QED BY <1>3, <2>1, OthersInvariant
<1>4. QED BY <1>1, <1>2, <1>3 DEF IInv

\* Get loads what is stored.
LEMMA ManagerResolveProfileInvariant ==
    ASSUME IInv, NEW c \in Callers, ManagerResolveProfile(c) PROVE IInv'
<1>1. Shape'
  BY DEF ManagerResolveProfile, Fails, GoesTo, Watch, IInv, Shape
<1>2. CurrentFor(c)'
  <2>1. CurrentFor(c) /\ Shape BY DEF IInv
  <2>2. seen[c] \subseteq seen'[c] /\ (Active(c) => Offers(row) \subseteq seen'[c])
    BY <2>1 DEF ManagerResolveProfile, Watch, Shape, store
  <2>3. Offers(row)' = Offers(row) BY DEF Offers, ManagerResolveProfile, store
  <2>4. QED BY <2>1, <2>2, <2>3
            DEF ManagerResolveProfile, CurrentFor, Active, Shape, Fails, GoesTo, Offers,
                ManagerResolves
<1>3. ASSUME NEW d \in Callers, d # c PROVE CurrentFor(d)'
  <2>1. Watch /\ row' = row /\ pc'[d] = pc[d] /\ host'[d] = host[d]
        /\ loaded'[d] = loaded[d] /\ got'[d] = got[d]
    BY <1>3 DEF ManagerResolveProfile, Fails, GoesTo, IInv, Shape, store
  <2>2. QED BY <1>3, <2>1, OthersInvariant
<1>4. QED BY <1>1, <1>2, <1>3 DEF IInv

\* The cached clients are returned only when they match what was loaded.
LEMMA GetInvariant ==
    ASSUME IInv, NEW c \in Callers, Get(c) PROVE IInv'
<1>1. Shape'
  BY DEF Get, Fails, GoesTo, Watch, IInv, Shape
<1>2. CurrentFor(c)'
  <2>1. CurrentFor(c) /\ Shape BY DEF IInv
  <2>2. seen[c] \subseteq seen'[c] /\ (Active(c) => Offers(row) \subseteq seen'[c])
    BY <2>1 DEF Get, Watch, Shape, store
  <2>3. Offers(row)' = Offers(row) BY DEF Offers, Get, store
  <2>4. QED BY <2>1, <2>2, <2>3 DEF Get, CurrentFor, Active, Shape, Fails, GoesTo
<1>3. ASSUME NEW d \in Callers, d # c PROVE CurrentFor(d)'
  <2>1. Watch /\ row' = row /\ pc'[d] = pc[d] /\ host'[d] = host[d]
        /\ loaded'[d] = loaded[d] /\ got'[d] = got[d]
    BY <1>3 DEF Get, Fails, GoesTo, IInv, Shape, store
  <2>2. QED BY <1>3, <2>1, OthersInvariant
<1>4. QED BY <1>1, <1>2, <1>3 DEF IInv

\* A call that begins has seen what is stored.
LEMMA BeginInvariant ==
    ASSUME IInv, NEW c \in Callers, Begin(c) PROVE IInv'
<1>1. Shape'
  BY DEF Begin, GoesTo, IInv, Shape
<1>2. Offers(row)' = Offers(row) BY DEF Offers, Begin, store
<1>3. CurrentFor(c)'
  BY <1>2 DEF Begin, GoesTo, CurrentFor, IInv, Shape
<1>4. ASSUME NEW d \in Callers, d # c PROVE CurrentFor(d)'
  <2>1. CurrentFor(d) BY DEF IInv
  <2>2. /\ pc'[d] = pc[d] /\ host'[d] = host[d] /\ loaded'[d] = loaded[d]
        /\ got'[d] = got[d] /\ seen'[d] = seen[d]
    BY <1>4 DEF Begin, GoesTo, IInv, Shape
  <2>3. QED BY <1>2, <2>1, <2>2 DEF CurrentFor, Active
<1>5. QED BY <1>1, <1>3, <1>4 DEF IInv

\* IInv is inductive.
LEMMA NextInvariant == IInv /\ [Next]_vars => IInv'
<1> SUFFICES ASSUME IInv, [Next]_vars PROVE IInv'
  OBVIOUS
<1>1. CASE SaveProfile \/ SaveKeepingSecret \/ ImportProfile \/ DeleteProfile
  <2>1. Watch /\ UNCHANGED <<pc, call>>
    BY <1>1 DEF SaveProfile, SaveKeepingSecret, ImportProfile, DeleteProfile
  <2>2. QED BY <2>1, StoreInvariant
<1>2. CASE Unlock \/ Reencrypt \/ InstallKey
  <2>1. Watch /\ UNCHANGED <<pc, call>>
    BY <1>2 DEF Unlock, Reencrypt, InstallKey
  <2>2. QED BY <2>1, StoreInvariant
<1>3. ASSUME NEW c \in Callers, Call(c) PROVE IInv'
  BY <1>3, BeginInvariant, ReadKeyInvariant, ResolveProfileInvariant, NewS3ClientInvariant,
     GetKeyInvariant, ManagerResolveProfileInvariant, GetInvariant DEF Call
<1>4. CASE UNCHANGED vars
  <2>1. Offers(row)' = Offers(row) BY <1>4 DEF Offers, vars, store
  <2>2. QED BY <1>4, <2>1 DEF vars, call, history, IInv, Shape, CurrentFor, Active
<1>5. QED BY <1>1, <1>2, <1>3, <1>4 DEF Next

\* Clients that a call returns were built from the profile as it was stored at some moment
\* of that call, for any number of callers and edits (ConnectionManager.Get, resolveClient).
THEOREM AlwaysReturnsCurrent == MCSpec => []ReturnsCurrent
<1>1. IInv => ReturnsCurrent BY DEF IInv, CurrentFor, ReturnsCurrent
<1>2. QED BY InitInvariant, NextInvariant, SpecIsClients, <1>1, PTL DEF Spec

-----------------------------------------------------------------------------
(* Calls fail for a cause, and replaced clients are closed *)

\* What hinders a call now has been noted, and so has what made its key, or what it has read
\* of the profile, useless since.
CauseFor(c) ==
    /\ Active(c) /\ Hinders(row, box, kind[c]) => cause[c]
    /\ pc[c] \in {"resolving", "loading"} => key[c] = box \/ cause[c]
    /\ pc[c] = "building" => host[c] \notin Unusable \/ cause[c]
    /\ pc[c] = "taking" => loaded[c] \in Configs /\ (loaded[c] \notin Unusable \/ cause[c])
    /\ pc[c] \in {"fetching", "loading", "taking"} => kind[c] = "transfer"
    /\ pc[c] = "failed" => cause[c]

ServedInv == TypeOK /\ ReplacedAreClosed /\ \A c \in Callers : CauseFor(c)

\* TypeOK in parts.
StoreType ==
    /\ row \in Row \cup {NoRow} /\ box \in Keys \cup {NoKey} /\ edits \in 0..MaxEdits
    /\ entry \in (Configs \ Unusable) \cup {NoConfig} /\ open \in Nat

CallType ==
    /\ pc \in [Callers -> {"idle", "asking", "resolving", "building", "fetching", "loading",
                           "taking", "done", "failed"}]
    /\ kind \in [Callers -> {"browse", "transfer"}]
    /\ key \in [Callers -> Keys \cup {NoKey}]
    /\ host \in [Callers -> Configs \cup {NoConfig}]
    /\ loaded \in [Callers -> Configs \cup {NoConfig}]
    /\ got \in [Callers -> Configs \cup {NoConfig}]

HistoryType == seen \in [Callers -> SUBSET Configs] /\ cause \in [Callers -> BOOLEAN]

LEMMA TypeParts == TypeOK <=> StoreType /\ CallType /\ HistoryType
BY DEF TypeOK, StoreType, CallType, HistoryType

LEMMA InitServed == Init => ServedInv
<1>. SUFFICES ASSUME Init  PROVE ServedInv
  OBVIOUS
<1>1. TypeOK
  BY ClientsAssumption DEF Init, TypeOK, ClientsAssumption, Row, NoRow, Keys, NoKey
<1>. QED  BY <1>1 DEF Init, ServedInv, ReplacedAreClosed, CauseFor, Active

LEMMA StoreTypeStays == ASSUME ServedInv, [Next]_vars  PROVE StoreType'
<1>0. StoreType /\ CallType /\ (\A c \in Callers : CauseFor(c)) /\ NoConfig \notin Configs
  BY TypeParts, ClientsAssumption DEF ServedInv, ClientsAssumption
<1>1. CASE SaveProfile \/ SaveKeepingSecret \/ ImportProfile \/ DeleteProfile
  <2>1. row' \in Row \cup {NoRow}
    BY <1>0, <1>1
    DEF SaveProfile, SaveKeepingSecret, ImportProfile, DeleteProfile, StoreType, Row, NoKey
  <2>2. edits' \in 0..MaxEdits /\ UNCHANGED <<box, cache>>
    BY <1>0, <1>1, ClientsAssumption
    DEF SaveProfile, SaveKeepingSecret, ImportProfile, DeleteProfile, Edit, StoreType,
        ClientsAssumption
  <2>. QED  BY <1>0, <2>1, <2>2 DEF StoreType, cache
<1>2. CASE Unlock \/ InstallKey
  BY <1>0, <1>2
  DEF Unlock, InstallKey, StoreType, Row, NoRow, NoKey, Blank, cache
<1>3. CASE Reencrypt
  BY <1>0, <1>3, ClientsAssumption
  DEF Reencrypt, Edit, StoreType, Row, NoRow, NoKey, Blank, Keys, cache, ClientsAssumption
<1>4. ASSUME NEW c \in Callers, Get(c)
      PROVE  StoreType'
  <2>1. closeEntry = 0
    BY DEF ServedInv, ReplacedAreClosed, closeEntry
  <2>. QED  BY <1>0, <1>4, <2>1 DEF Get, StoreType, store, cache, CauseFor, applyProxy
<1>5. CASE UNCHANGED <<store, cache>>
  BY <1>0, <1>5 DEF StoreType, store, cache
<1>. QED
  BY <1>1, <1>2, <1>3, <1>4, <1>5
  DEF Next, Call, Begin, ReadKey, ResolveProfile, NewS3Client, GetKey, ManagerResolveProfile,
      vars

LEMMA CallTypeStays == ASSUME ServedInv, [Next]_vars  PROVE CallType'
<1>0. StoreType /\ CallType
  BY TypeParts DEF ServedInv
<1>1. CASE UNCHANGED <<pc, call>>
  BY <1>0, <1>1 DEF CallType, call
<1>2. ASSUME NEW c \in Callers, Begin(c) \/ ReadKey(c) \/ ResolveProfile(c) \/ NewS3Client(c)
      PROVE  CallType'
  BY <1>0, <1>2
  DEF Begin, ReadKey, ResolveProfile, NewS3Client, GoesTo, Fails, CallType, StoreType, Row,
      NoRow, Resolves, NoKey
<1>3. ASSUME NEW c \in Callers, GetKey(c) \/ ManagerResolveProfile(c) \/ Get(c)
      PROVE  CallType'
  BY <1>0, <1>3
  DEF GetKey, ManagerResolveProfile, Get, GoesTo, Fails, CallType, StoreType, Row, NoRow,
      ManagerResolves, NoKey
<1>. QED
  BY <1>1, <1>2, <1>3
  DEF Next, Call, SaveProfile, SaveKeepingSecret, ImportProfile, DeleteProfile, Unlock,
      Reencrypt,
      InstallKey, vars

LEMMA HistoryTypeStays == ASSUME ServedInv, [Next]_vars  PROVE HistoryType'
<1>0. HistoryType /\ StoreType /\ StoreType'
  BY TypeParts, StoreTypeStays DEF ServedInv
<1>1. CASE Watch
  <2>1. Offers(row') \in SUBSET Configs
    BY <1>0 DEF StoreType, Offers, Row
  <2>. QED  BY <1>0, <1>1, <2>1 DEF HistoryType, Watch
<1>2. ASSUME NEW c \in Callers, Begin(c)
      PROVE  HistoryType'
  <2>1. Offers(row) \in SUBSET Configs /\ \A k : Hinders(row, box, k) \in BOOLEAN
    BY <1>0 DEF StoreType, Offers, Row, Hinders
  <2>. QED  BY <1>0, <1>2, <2>1 DEF HistoryType, Begin
<1>3. CASE UNCHANGED vars
  BY <1>0, <1>3 DEF vars, history, HistoryType
<1>. QED
  BY <1>1, <1>2, <1>3
  DEF Next, Call, SaveProfile, SaveKeepingSecret, ImportProfile, DeleteProfile, Unlock,
      Reencrypt,
      InstallKey, ReadKey, ResolveProfile, NewS3Client, GetKey, ManagerResolveProfile, Get

LEMMA ClosedStays == ASSUME ServedInv, [Next]_vars  PROVE ReplacedAreClosed'
<1>1. ASSUME NEW c \in Callers, Get(c)
      PROVE  ReplacedAreClosed'
  <2>1. loaded[c] # NoConfig
    BY <1>1, ClientsAssumption DEF Get, ServedInv, CauseFor, ClientsAssumption
  <2>2. open = IF entry = NoConfig THEN 0 ELSE 1
    BY DEF ServedInv, ReplacedAreClosed
  <2>3. \/ entry' = entry /\ open' = open
        \/ entry' = loaded[c] /\ open' = closeEntry + 1
        \/ entry' = NoConfig /\ open' = closeEntry
    BY <1>1 DEF Get, cache
  <2>4. closeEntry = 0
    BY <2>2 DEF closeEntry
  <2>. QED  BY <2>1, <2>2, <2>3, <2>4 DEF ReplacedAreClosed
<1>2. CASE UNCHANGED cache
  BY <1>2 DEF cache, ServedInv, ReplacedAreClosed
<1>. QED
  BY <1>1, <1>2
  DEF Next, SaveProfile, SaveKeepingSecret, ImportProfile, DeleteProfile, Unlock, Reencrypt,
      InstallKey,
      Call, Begin, ReadKey, ResolveProfile, NewS3Client, GetKey, ManagerResolveProfile, vars

LEMMA CauseStays ==
    ASSUME ServedInv, [Next]_vars, NEW c \in Callers
    PROVE  CauseFor(c)'
<1>0. TypeOK /\ CauseFor(c)
  BY DEF ServedInv
<1>. USE DEF store, cache, call, history
<1>1. CASE UNCHANGED <<pc, call>> /\ Watch /\ UNCHANGED box
  BY <1>0, <1>1 DEF TypeOK, CauseFor, Watch, Active
<1>2. CASE Unlock \/ InstallKey
  BY <1>0, <1>2 DEF Unlock, InstallKey, TypeOK, CauseFor, Watch, Active, Hinders, NoKey, Blank
<1>3. ASSUME NEW d \in Callers, d # c, Call(d)
      PROVE  CauseFor(c)'
  <2>1. /\ pc'[c] = pc[c] /\ kind'[c] = kind[c] /\ key'[c] = key[c] /\ host'[c] = host[c]
        /\ loaded'[c] = loaded[c] /\ row' = row /\ box' = box
    BY <1>0, <1>3
    DEF Call, Begin, ReadKey, ResolveProfile, NewS3Client, GetKey, ManagerResolveProfile, Get,
        Fails,
        GoesTo, TypeOK
  <2>2. cause[c] => cause'[c]
    BY <1>0, <1>3
    DEF Call, Begin, ReadKey, ResolveProfile, NewS3Client, GetKey, ManagerResolveProfile, Get,
        Watch,
        TypeOK
  <2>. QED  BY <1>0, <2>1, <2>2 DEF CauseFor, Active, Hinders
<1>4. CASE Begin(c)
  BY <1>0, <1>4 DEF Begin, GoesTo, CauseFor, Active, TypeOK, Hinders
<1>5. ASSUME Watch, UNCHANGED <<row, box, kind>>, Active(c)
      PROVE  Hinders(row, box, kind[c]) \/ cause[c] => cause'[c]
  BY <1>0, <1>5 DEF Watch, TypeOK, Hinders
<1>6. CASE ReadKey(c) \/ ResolveProfile(c) \/ NewS3Client(c)
  <2>1. Hinders(row, box, kind[c]) \/ cause[c] => cause'[c]
    BY <1>5, <1>6 DEF ReadKey, ResolveProfile, NewS3Client, Active
  <2>. QED
    BY <1>0, <1>6, <2>1
    DEF ReadKey, ResolveProfile, NewS3Client, Fails, GoesTo, CauseFor, Active, TypeOK, Hinders,
        Resolves, applyProxy
<1>7. CASE GetKey(c) \/ ManagerResolveProfile(c) \/ Get(c)
  <2>1. Hinders(row, box, kind[c]) \/ cause[c] => cause'[c]
    BY <1>5, <1>7 DEF GetKey, ManagerResolveProfile, Get, Active
  <2>. QED
    BY <1>0, <1>7, <2>1
    DEF GetKey, ManagerResolveProfile, Get, Fails, GoesTo, CauseFor, Active, TypeOK, Hinders,
        ManagerResolves, applyProxy, Row, NoRow
<1>8. CASE UNCHANGED vars
  BY <1>0, <1>8 DEF vars, CauseFor, Active, Hinders
<1>9. CASE SaveProfile \/ SaveKeepingSecret \/ ImportProfile \/ DeleteProfile \/ Reencrypt
  BY <1>1, <1>9 DEF SaveProfile, SaveKeepingSecret, ImportProfile, DeleteProfile, Reencrypt
<1>. QED  BY <1>2, <1>3, <1>4, <1>6, <1>7, <1>8, <1>9 DEF Next, Call

LEMMA NextServed == ServedInv /\ [Next]_vars => ServedInv'
<1>1. ServedInv /\ [Next]_vars => TypeOK'
  <2>1. TypeOK' <=> StoreType' /\ CallType' /\ HistoryType'
    BY DEF TypeOK, StoreType, CallType, HistoryType
  <2>. QED  BY <2>1, StoreTypeStays, CallTypeStays, HistoryTypeStays
<1>. QED  BY <1>1, ClosedStays, CauseStays DEF ServedInv

\* A call fails only for a cause that held at some moment of it, and only the cached pair of
\* clients is open (ConnectionManager.Get, closeEntry).
THEOREM CallsAreServedAlways == MCSpec => []CallsAreServed
<1>1. ServedInv => CallsAreServed
  BY DEF ServedInv, CauseFor, FailsForCause, CallsAreServed
<1>. QED  BY InitServed, NextServed, SpecIsClients, <1>1, PTL DEF Spec

-----------------------------------------------------------------------------
(* The breaker *)

\* A set from which at most one element is left, stated without Cardinality.
AtMostOne(S) == \A a, b \in S : a = b

LEMMA CardinalityAtMostOne ==
    ASSUME NEW S, AtMostOne(S)
    PROVE  B!Cardinality(S) <= 1
<1>1. B!Cardinality(S) = Cardinality(S)
    BY DEF B!Cardinality, Cardinality
<1>2. CASE S = {}
    BY <1>1, <1>2, FS_EmptySet
<1>3. CASE S # {}
    <2>1. PICK x : x \in S
        BY <1>3
    <2>2. S = {x}
        BY <2>1 DEF AtMostOne
    <2>3. Cardinality({x}) = 1
        BY FS_Singleton
    <2>. QED  BY <1>1, <2>2, <2>3
<1>. QED  BY <1>2, <1>3

\* OneTrial in the form that is proved to be inductive.
OneTrialInv ==
    /\ AtMostOne(trials)
    /\ trials # {} => status = "halfopen" /\ probing

BreakerInv == B!TypeOK /\ B!OpenIffTooManyFailures /\ OneTrialInv

LEMMA InitBreaker == B!Init => BreakerInv
<1>. SUFFICES ASSUME B!Init PROVE BreakerInv
    OBVIOUS
<1>. USE BreakerAssumption DEF B!PolicyAssumption, B!Init
<1>1. B!TypeOK
    <2>1. step \in [Requests -> {"idle", "allow", "backoff", "attempt"}]
        OBVIOUS
    <2>2. attemptNum \in [Requests -> 1 .. MaxAttempts]
        OBVIOUS
    <2>3. /\ status \in {"closed", "open", "halfopen"}
          /\ consecutiveFailures \in 0 .. MaxConsecutiveFailures
          /\ trials \in SUBSET Requests
        OBVIOUS
    <2>4. probing \in BOOLEAN /\ elapsed \in BOOLEAN
        OBVIOUS
    <2>. QED  BY <2>1, <2>2, <2>3, <2>4 DEF B!TypeOK
<1>2. B!OpenIffTooManyFailures
    BY DEF B!OpenIffTooManyFailures
<1>3. OneTrialInv
    BY DEF OneTrialInv, AtMostOne
<1>. QED  BY <1>1, <1>2, <1>3 DEF BreakerInv

LEMMA WithRetryKeeps ==
    ASSUME BreakerInv, NEW r \in Requests, B!WithRetryStep(r)
    PROVE  BreakerInv'
<1>. USE BreakerAssumption DEF B!PolicyAssumption, BreakerInv, B!TypeOK,
          B!OpenIffTooManyFailures, OneTrialInv,
          AtMostOne, B!Goto, B!host
<1>1. CASE B!Allow(r)
    <2>. USE <1>1 DEF B!Allow, B!Allows, B!Grant
    <2>1. B!TypeOK'
        BY DEF B!Categories
    <2>2. B!OpenIffTooManyFailures'
        OBVIOUS
    <2>3. OneTrialInv'
        OBVIOUS
    <2>. QED  BY <2>1, <2>2, <2>3
<1>2. CASE B!Backoff(r)
    BY <1>2 DEF B!Backoff
<1>3. CASE B!Succeed(r)
    <2>. USE <1>3 DEF B!Succeed, B!RecordSuccess
    <2>1. B!TypeOK'
        <3>1. status' \in {"closed", "open", "halfopen"}
              /\ consecutiveFailures' \in 0 .. MaxConsecutiveFailures
            OBVIOUS
        <3>2. probing' \in BOOLEAN /\ elapsed' \in BOOLEAN
            OBVIOUS
        <3>3. step' \in [Requests -> {"idle", "allow", "backoff", "attempt"}]
              /\ attemptNum' \in [Requests -> 1 .. MaxAttempts]
              /\ trials' \in SUBSET Requests
            OBVIOUS
        <3>. QED  BY <3>1, <3>2, <3>3
    <2>2. B!OpenIffTooManyFailures'
        OBVIOUS
    <2>3. OneTrialInv'
        OBVIOUS
    <2>. QED  BY <2>1, <2>2, <2>3
<1>4. CASE B!Cancelled(r)
    BY <1>4 DEF B!Cancelled
<1>5. ASSUME NEW category \in B!Categories, B!Retry(r, category)
      PROVE  BreakerInv'
    BY <1>5 DEF B!Retry
<1>6. ASSUME NEW category \in B!Categories, B!GiveUp(r, category)
      PROVE  BreakerInv'
    <2>1. CASE category \notin B!CountsTowardBreaker
        BY <1>6, <2>1 DEF B!GiveUp, B!RecordFailure
    <2>2. CASE category \in B!CountsTowardBreaker
        <3>. USE <1>6, <2>2 DEF B!GiveUp, B!RecordFailure
        <3>1. B!TypeOK'
            <4>1. status' \in {"closed", "open", "halfopen"}
                OBVIOUS
            <4>2. consecutiveFailures' \in 0 .. MaxConsecutiveFailures
                OBVIOUS
            <4>3. probing' \in BOOLEAN /\ elapsed' \in BOOLEAN
                OBVIOUS
            <4>4. step' \in [Requests -> {"idle", "allow", "backoff", "attempt"}]
                  /\ attemptNum' \in [Requests -> 1 .. MaxAttempts]
                  /\ trials' \in SUBSET Requests
                OBVIOUS
            <4>. QED  BY <4>1, <4>2, <4>3, <4>4
        <3>2. B!OpenIffTooManyFailures'
            OBVIOUS
        <3>3. OneTrialInv'
            OBVIOUS
        <3>. QED  BY <3>1, <3>2, <3>3
    <2>. QED  BY <2>1, <2>2
<1>. QED  BY <1>1, <1>2, <1>3, <1>4, <1>5, <1>6 DEF B!WithRetryStep

LEMMA NextBreaker == BreakerInv /\ [B!Next]_(B!vars) => BreakerInv'
<1>. SUFFICES ASSUME BreakerInv, [B!Next]_(B!vars) PROVE BreakerInv'
    OBVIOUS
<1>. USE BreakerAssumption DEF B!PolicyAssumption, BreakerInv, B!TypeOK,
          B!OpenIffTooManyFailures, OneTrialInv, AtMostOne
<1>1. CASE B!Elapse
    BY <1>1 DEF B!Elapse
<1>2. ASSUME NEW r \in Requests, B!Call(r)
      PROVE  BreakerInv'
    BY <1>2 DEF B!Call, B!Goto, B!host
<1>3. ASSUME NEW r \in Requests, B!WithRetryStep(r)
      PROVE  BreakerInv'
    BY <1>3, WithRetryKeeps
<1>4. CASE UNCHANGED B!vars
    BY <1>4 DEF B!vars, B!host
<1>. QED  BY <1>1, <1>2, <1>3, <1>4 DEF B!Next

\* The breaker is typed, and it is open or half-open exactly when the limit of consecutive
\* failures has been reached, for any number of requests (RecordSuccess, RecordFailure).
THEOREM OpenIffTooManyFailuresAlways == MCSpec => []OpenIffTooManyFailures
<1>1. BreakerInv => OpenIffTooManyFailures
    BY DEF BreakerInv, OpenIffTooManyFailures
<1>. QED  BY <1>1, InitBreaker, NextBreaker, SpecIsBreaker, PTL DEF B!Spec

\* At most one request at a time probes a half-open host (Allow, probing).
THEOREM OneTrialAlways == MCSpec => []OneTrial
<1>1. BreakerInv => OneTrial
    BY CardinalityAtMostOne DEF BreakerInv, OneTrialInv, OneTrial, B!OneTrial
<1>. QED  BY <1>1, InitBreaker, NextBreaker, SpecIsBreaker, PTL DEF B!Spec

=============================================================================
