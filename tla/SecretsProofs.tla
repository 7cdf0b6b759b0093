---------------------------- MODULE SecretsProofs ----------------------------
(***************************************************************************)
(* What keeps the stored credentials readable.                             *)
(*                                                                         *)
(* For any number of processes, an open program has the newest schema, and *)
(* a saved secret stays readable unless two processes raced to be first.   *)
(* Until a call takes effect that a password change has overtaken, the     *)
(* stored credentials are always under the key that the verifier stands    *)
(* for, for any number of callers, passwords, profiles, calls and restarts *)
(* and however the calls overlap.                                          *)
(***************************************************************************)
EXTENDS MCSecrets, TLAPS

-----------------------------------------------------------------------------
(* A behaviour is one of each component. *)

LEMMA SpecIsDatabase == MCSpec => Spec
<1>1. MCInit => Init
  BY DEF MCInit
<1>2. [MCNext]_all => [Next]_vars
  BY DEF MCNext, OfDatabase, OfPassword, all
<1> QED
  BY <1>1, <1>2, PTL DEF MCSpec, Spec

LEMMA SpecIsPassword == MCSpec => M!Spec
<1>1. MCInit => M!Init
  BY DEF MCInit
<1>2. [MCNext]_all => [M!Next]_(M!vars)
  BY DEF MCNext, OfDatabase, OfPassword, all, password, M!vars, M!stored, M!history
<1> QED
  BY <1>1, <1>2, PTL DEF MCSpec, M!Spec

-----------------------------------------------------------------------------
(* Opening the database *)

\* Of a database only that it is a record of its fields is needed.
IsDatabase(d) ==
    d = [applied |-> d.applied, tables |-> d.tables, types |-> d.types, columns |-> d.columns,
         salt |-> d.salt, secrets |-> d.secrets, row |-> d.row]

Past == {"salt", "create", "recover", "open"}

\* What makes OpenIsCurrent inductive: the transaction extends what is
\* committed, and a process only counts committed versions as seen.
IInv ==
    /\ IsDatabase(db)
    /\ db.applied \subseteq Versions
    /\ db.salt \in 0 .. MaxStarts + 1
    /\ starts \in 0 .. MaxStarts
    /\ inst \in [Instances -> Process]
    /\ tx.by # None =>
         /\ tx = [by |-> tx.by, version |-> tx.version, db |-> tx.db]
         /\ IsDatabase(tx.db)
         /\ tx.version \in Versions
         /\ db.applied \subseteq tx.db.applied /\ tx.db.applied \subseteq Versions
         /\ tx.db.salt = db.salt /\ tx.db.secrets = db.secrets
    /\ \A i \in Instances :
         /\ inst[i].pc \in {"record", "commit"} <=> tx.by = i
         /\ inst[i].pc = "commit" => tx.version \in tx.db.applied
         /\ inst[i].seen \subseteq db.applied
         /\ inst[i].pc \in Past => Versions \subseteq db.applied

\* A migration changes neither the versions recorded nor the settings.
LEMMA MigratedKeeps ==
    ASSUME NEW d, NEW v \in Versions, IsDatabase(d)
    PROVE  /\ IsDatabase(Migrated(d, v))
           /\ Migrated(d, v).applied = d.applied
           /\ Migrated(d, v).salt = d.salt
           /\ Migrated(d, v).secrets = d.secrets
<1>1. CASE v = 1
  BY <1>1 DEF Migrated, IsDatabase
<1>2. CASE v = 2
  BY <1>2 DEF Migrated, IsDatabase
<1>3. CASE v = 3
  BY <1>3 DEF Migrated, IsDatabase
<1>4. CASE v = 4
  BY <1>4 DEF Migrated, IsDatabase
<1>5. CASE v = 5
  BY <1>5 DEF Migrated, IsDatabase
<1> QED
  BY <1>1, <1>2, <1>3, <1>4, <1>5 DEF Versions

LEMMA RecordedKeeps ==
    ASSUME NEW d, NEW v, IsDatabase(d)
    PROVE  LET e == [d EXCEPT !.applied = @ \cup {v}] IN
           /\ IsDatabase(e)
           /\ e.applied = d.applied \cup {v}
           /\ e.salt = d.salt
           /\ e.secrets = d.secrets
BY DEF IsDatabase

\* A process record with some of its fields replaced.
LEMMA SeenStep ==
    ASSUME NEW r \in Process, NEW seen \in SUBSET Versions
    PROVE  [r EXCEPT !.pc = "migrate", !.seen = seen] \in Process
BY DEF Process

LEMMA SaltStep ==
    ASSUME NEW r \in Process, NEW salt \in 0 .. MaxStarts + 1
    PROVE  /\ [r EXCEPT !.pc = "recover", !.salt = salt] \in Process
           /\ [r EXCEPT !.pc = "recover", !.salt = salt].pc = "recover"
           /\ [r EXCEPT !.pc = "recover", !.salt = salt].seen = r.seen
           /\ [r EXCEPT !.pc = "create"] \in Process
           /\ [r EXCEPT !.pc = "create"].pc = "create"
           /\ [r EXCEPT !.pc = "create"].seen = r.seen
BY DEF Process

\* A non-empty set of versions has a lowest one.
LEMMA LowestVersion ==
    ASSUME NEW S, S \subseteq Versions, S # {}
    PROVE  (CHOOSE p \in S : \A q \in S : p <= q) \in S
<1>1. \A p \in S : p = 1 \/ p = 2 \/ p = 3 \/ p = 4 \/ p = 5
  BY DEF Versions
<1>2. 1 \in S \/ 2 \in S \/ 3 \in S \/ 4 \in S \/ 5 \in S
  BY <1>1
<1>3. \E p \in S : \A q \in S : p <= q
  <2>1. CASE 1 \in S
    BY <1>1, <2>1
  <2>2. CASE 1 \notin S /\ 2 \in S
    BY <1>1, <2>2
  <2>3. CASE 1 \notin S /\ 2 \notin S /\ 3 \in S
    BY <1>1, <2>3
  <2>4. CASE 1 \notin S /\ 2 \notin S /\ 3 \notin S /\ 4 \in S
    BY <1>1, <2>4
  <2>5. CASE 1 \notin S /\ 2 \notin S /\ 3 \notin S /\ 4 \notin S
    BY <1>1, <1>2, <2>5
  <2> QED
    BY <2>1, <2>2, <2>3, <2>4, <2>5
<1> QED
  BY <1>3

LEMMA InitIInv == Init => IInv
<1> SUFFICES ASSUME Init
             PROVE  IInv
  OBVIOUS
<1>1. /\ IsDatabase(db)
      /\ db.applied \subseteq Versions
      /\ db.salt \in 0 .. MaxStarts + 1
  BY StartsAssumption DEF Init, IsDatabase, Versions, NoSalt
<1>2. tx = NoTx /\ inst = [i \in Instances |-> Idle] /\ starts = 0
  BY DEF Init
<1> QED
  BY <1>1, <1>2, InstancesAssumption, StartsAssumption
  DEF IInv, NoTx, Idle, Process, Past, NoSalt

LEMMA ExitIInv ==
    ASSUME IInv, NEW i \in Instances, Exit(i)
    PROVE  IInv'
<1>1. tx.by = i => tx' = NoTx
  BY DEF Exit
<1>2. tx.by # i => tx' = tx
  BY DEF Exit
<1>3. db' = db /\ starts' = starts /\ inst' = [inst EXCEPT ![i] = Idle]
  BY DEF Exit
<1>4. Idle \in Process
  BY StartsAssumption DEF Idle, Process, NoSalt
<1> QED
  BY <1>1, <1>2, <1>3, <1>4, InstancesAssumption DEF IInv, NoTx, Idle, Past

\* A step of process i outside of its transaction that writes nothing but
\* what the argument of IInv does not mention.
LEMMA QuietIInv ==
    ASSUME IInv, NEW i \in Instances,
           tx' = tx, starts' = starts,
           IsDatabase(db'), db'.applied = db.applied,
           tx.by # None => db' = db,
           db'.salt \in 0 .. MaxStarts + 1,
           inst' = [inst EXCEPT ![i] = inst'[i]], inst'[i] \in Process,
           inst'[i].pc \in {"record", "commit"} <=> inst[i].pc \in {"record", "commit"},
           inst'[i].pc = "commit" => inst[i].pc = "commit",
           inst'[i].seen \subseteq db.applied,
           inst'[i].pc \in Past => Versions \subseteq db.applied
    PROVE  IInv'
<1>1. inst' \in [Instances -> Process]
  BY DEF IInv
<1>2. /\ tx'.by # None =>
           /\ tx' = [by |-> tx'.by, version |-> tx'.version, db |-> tx'.db]
           /\ IsDatabase(tx'.db)
           /\ tx'.version \in Versions
           /\ db'.applied \subseteq tx'.db.applied /\ tx'.db.applied \subseteq Versions
           /\ tx'.db.salt = db'.salt /\ tx'.db.secrets = db'.secrets
  BY DEF IInv
<1>3. ASSUME NEW j \in Instances
      PROVE  /\ inst'[j].pc \in {"record", "commit"} <=> tx'.by = j
             /\ inst'[j].pc = "commit" => tx'.version \in tx'.db.applied
             /\ inst'[j].seen \subseteq db'.applied
             /\ inst'[j].pc \in Past => Versions \subseteq db'.applied
  BY DEF IInv
<1> QED
  BY <1>1, <1>2, <1>3 DEF IInv

LEMMA NextIInv == IInv /\ [Next]_vars => IInv'
<1> SUFFICES ASSUME IInv, [Next]_vars
             PROVE  IInv'
  OBVIOUS
<1>1. CASE UNCHANGED vars
  BY <1>1 DEF vars, IInv
<1>2. ASSUME NEW i \in Instances, Start(i)
      PROVE  IInv'
  <2>1. starts' \in 0 .. MaxStarts /\ db' = db /\ tx' = tx
    BY <1>2, StartsAssumption DEF Start, IInv
  <2> DEFINE r == [Idle EXCEPT !.pc = "apply", !.start = starts']
  <2>2. inst' = [inst EXCEPT ![i] = r] /\ inst[i].pc = "off"
    BY <1>2 DEF Start, At
  <2>3. Idle \in Process /\ Idle.seen = {}
    BY StartsAssumption DEF Idle, Process, NoSalt
  <2>4. r \in Process /\ r.pc = "apply" /\ r.seen = {}
    BY <2>1, <2>3 DEF Process
  <2> HIDE DEF r
  <2> QED
    BY <2>1, <2>2, <2>4 DEF IInv, Past
<1>3. ASSUME NEW i \in Instances, ReadApplied(i)
      PROVE  IInv'
  <2>1. /\ inst' = [inst EXCEPT ![i] = [inst[i] EXCEPT !.pc = "migrate", !.seen = db.applied]]
        /\ inst[i].pc = "apply" /\ inst[i] \in Process
        /\ db' = db /\ tx' = tx /\ starts' = starts
    BY <1>3 DEF ReadApplied, At, IInv
  <2>2. [inst[i] EXCEPT !.pc = "migrate", !.seen = db.applied] \in Process
    BY <2>1, SeenStep DEF IInv
  <2>3. /\ inst'[i] \in Process /\ inst'[i].pc = "migrate" /\ inst'[i].seen = db.applied
        /\ inst' = [inst EXCEPT ![i] = inst'[i]]
    BY <2>1, <2>2 DEF IInv, Process
  <2> QED
    BY <2>1, <2>3, QuietIInv DEF IInv, Past
<1>4. ASSUME NEW i \in Instances, ExecMigration(i)
      PROVE  IInv'
  <2> DEFINE v == CHOOSE p \in Pending(i) : \A q \in Pending(i) : p <= q
  <2>1. v \in Pending(i)
    <3>1. Pending(i) # {} /\ Pending(i) \subseteq Versions
      BY <1>4 DEF ExecMigration, Pending
    <3> QED
      BY <3>1, LowestVersion
  <2>2. v \in Versions
    BY <2>1 DEF Pending
  <2>3. CASE Executes(db, v)
    <3> DEFINE d == Migrated(db, v)
    <3>1. /\ IsDatabase(d)
          /\ d.applied = db.applied /\ d.salt = db.salt /\ d.secrets = db.secrets
      BY <2>2, MigratedKeeps DEF IInv
    <3>2. /\ tx' = [by |-> i, version |-> v, db |-> d]
          /\ inst' = [inst EXCEPT ![i].pc = "record"]
          /\ db' = db /\ starts' = starts /\ tx.by = None /\ inst[i].pc = "migrate"
      BY <1>4, <2>3 DEF ExecMigration, At, Unlocked
    <3> HIDE DEF d, v
    <3> QED
      BY <2>2, <3>1, <3>2, InstancesAssumption DEF IInv, Process, Past
  <2>4. CASE ~Executes(db, v)
    <3>1. Exit(i)
      BY <1>4, <2>4 DEF ExecMigration
    <3> QED
      BY <3>1, ExitIInv
  <2> QED
    BY <2>3, <2>4
<1>5. ASSUME NEW i \in Instances, RecordVersion(i)
      PROVE  IInv'
  <2>1. CASE tx.version \in tx.db.applied
    <3>1. Exit(i)
      BY <1>5, <2>1 DEF RecordVersion
    <3> QED
      BY <3>1, ExitIInv
  <2>2. CASE tx.version \notin tx.db.applied
    <3> DEFINE d == [tx.db EXCEPT !.applied = @ \cup {tx.version}]
    <3>1. /\ tx' = [tx EXCEPT !.db = d]
          /\ inst' = [inst EXCEPT ![i].pc = "commit"]
          /\ db' = db /\ starts' = starts /\ inst[i].pc = "record"
      BY <1>5, <2>2 DEF RecordVersion, At
    <3>2. tx.by = i /\ i # None
      BY <3>1, InstancesAssumption DEF IInv
    <3>3. /\ IsDatabase(d)
          /\ d.applied = tx.db.applied \cup {tx.version}
          /\ d.salt = tx.db.salt /\ d.secrets = tx.db.secrets
      BY <3>2, RecordedKeeps DEF IInv
    <3>4. tx' = [by |-> i, version |-> tx.version, db |-> d]
      BY <3>1, <3>2 DEF IInv
    <3> HIDE DEF d
    <3> QED
      BY <3>1, <3>2, <3>3, <3>4 DEF IInv, Process, Past
  <2> QED
    BY <2>1, <2>2
<1>6. ASSUME NEW i \in Instances, Commit(i)
      PROVE  IInv'
  <2>1. /\ db' = tx.db /\ tx' = NoTx /\ starts' = starts
        /\ inst' = [inst EXCEPT ![i].pc = "migrate", ![i].seen = @ \cup {tx.version}]
        /\ inst[i].pc = "commit"
    BY <1>6 DEF Commit, At
  <2>2. tx.by = i /\ i # None
    BY <2>1, InstancesAssumption DEF IInv
  <2>3. /\ IsDatabase(db') /\ db'.applied \subseteq Versions
        /\ db'.salt \in 0 .. MaxStarts + 1
        /\ db.applied \subseteq db'.applied
        /\ tx.version \in db'.applied /\ tx.version \in Versions
    BY <2>1, <2>2 DEF IInv
  <2>4. inst' \in [Instances -> Process]
    <3>1. inst[i] \in Process /\ inst[i].seen \cup {tx.version} \in SUBSET Versions
      BY <2>3 DEF IInv
    <3>2. [inst[i] EXCEPT !.pc = "migrate", !.seen = inst[i].seen \cup {tx.version}] \in Process
      BY <3>1, SeenStep
    <3>3. inst' = [inst EXCEPT ![i] =
                     [inst[i] EXCEPT !.pc = "migrate", !.seen = inst[i].seen \cup {tx.version}]]
      BY <2>1 DEF IInv
    <3> QED
      BY <3>2, <3>3 DEF IInv
  <2>5. ASSUME NEW j \in Instances
        PROVE  /\ inst'[j].pc \notin {"record", "commit"}
               /\ inst'[j].seen \subseteq db'.applied
               /\ inst'[j].pc \in Past => Versions \subseteq db'.applied
    BY <2>1, <2>2, <2>3 DEF IInv, Past, Process
  <2> QED
    BY <2>1, <2>3, <2>4, <2>5, InstancesAssumption DEF IInv, NoTx
<1>7. ASSUME NEW i \in Instances, Applied(i)
      PROVE  IInv'
  BY <1>7, QuietIInv DEF Applied, At, Pending, IInv, Process, Past
<1>8. ASSUME NEW i \in Instances, GetSalt(i)
      PROVE  IInv'
  <2>1. /\ inst' = [inst EXCEPT ![i] = inst'[i]]
        /\ \/ inst'[i] = [inst[i] EXCEPT !.pc = "create"]
           \/ inst'[i] = [inst[i] EXCEPT !.pc = "recover", !.salt = db.salt]
        /\ inst[i].pc = "salt" /\ inst[i] \in Process
        /\ db' = db /\ tx' = tx /\ starts' = starts
    BY <1>8 DEF GetSalt, At, IInv
  <2>2. /\ inst'[i] \in Process /\ inst'[i].pc \in {"create", "recover"}
        /\ inst'[i].seen = inst[i].seen
    <3> DEFINE r == inst[i]
    <3>1. r \in Process /\ db.salt \in 0 .. MaxStarts + 1
      BY <2>1 DEF IInv
    <3> HIDE DEF r
    <3>2. /\ [r EXCEPT !.pc = "recover", !.salt = db.salt] \in Process
          /\ [r EXCEPT !.pc = "recover", !.salt = db.salt].pc = "recover"
          /\ [r EXCEPT !.pc = "recover", !.salt = db.salt].seen = r.seen
          /\ [r EXCEPT !.pc = "create"] \in Process
          /\ [r EXCEPT !.pc = "create"].pc = "create"
          /\ [r EXCEPT !.pc = "create"].seen = r.seen
      BY <3>1, SaltStep
    <3> USE DEF r
    <3>3. CASE inst'[i] = [inst[i] EXCEPT !.pc = "create"]
      BY <3>2, <3>3
    <3>4. CASE inst'[i] = [inst[i] EXCEPT !.pc = "recover", !.salt = db.salt]
      BY <3>2, <3>4
    <3> QED
      BY <2>1, <3>3, <3>4
  <2> QED
    BY <2>1, <2>2, QuietIInv DEF IInv, Past
<1>9. ASSUME NEW i \in Instances, CreateSalt(i)
      PROVE  IInv'
  <2>1. /\ db' = [db EXCEPT !.salt = inst[i].start]
        /\ inst' = [inst EXCEPT ![i].pc = "recover", ![i].salt = inst[i].start]
        /\ tx' = tx /\ starts' = starts /\ tx.by = None /\ inst[i].pc = "create"
    BY <1>9 DEF CreateSalt, At, Unlocked
  <2>2. IsDatabase(db') /\ db'.applied = db.applied /\ db'.salt = inst[i].start
    BY <2>1 DEF IInv, IsDatabase
  <2>3. inst[i] \in Process /\ inst[i].start \in 0 .. MaxStarts + 1
    BY StartsAssumption DEF IInv, Process
  <2>4. inst' = [inst EXCEPT ![i] = inst'[i]]
        /\ inst'[i] = [inst[i] EXCEPT !.pc = "recover", !.salt = inst[i].start]
    BY <2>1 DEF IInv
  <2>5. inst'[i] \in Process /\ inst'[i].pc = "recover" /\ inst'[i].seen = inst[i].seen
    BY <2>3, <2>4 DEF Process
  <2> QED
    BY <2>1, <2>2, <2>3, <2>4, <2>5, QuietIInv DEF IInv, Past
<1>10. ASSUME NEW i \in Instances, RecoverOrphanedTasks(i)
       PROVE  IInv'
  <2>1. IsDatabase(db') /\ db'.applied = db.applied /\ db'.salt = db.salt
    BY <1>10 DEF IInv, IsDatabase, RecoverOrphanedTasks
  <2> QED
    BY <1>10, <2>1, QuietIInv DEF RecoverOrphanedTasks, At, Unlocked, IInv, Process, Past
<1>11. ASSUME NEW i \in Instances, SaveConnection(i)
       PROVE  IInv'
  <2>1. IsDatabase(db') /\ db'.applied = db.applied /\ db'.salt = db.salt
    BY <1>11 DEF IInv, IsDatabase, SaveConnection
  <2> QED
    BY <1>11, <2>1, QuietIInv DEF SaveConnection, At, Unlocked, IInv, Process, Past
<1>12. ASSUME NEW i \in Instances, QueueTask(i)
       PROVE  IInv'
  <2>1. IsDatabase(db') /\ db'.applied = db.applied /\ db'.salt = db.salt
    BY <1>12 DEF IInv, IsDatabase, QueueTask
  <2> QED
    BY <1>12, <2>1, QuietIInv DEF QueueTask, At, Unlocked, IInv, Process, Past
<1>13. ASSUME NEW i \in Instances, RunTask(i) \/ TaskCompletes(i)
       PROVE  IInv'
  <2>1. IsDatabase(db') /\ db'.applied = db.applied /\ db'.salt = db.salt
    BY <1>13 DEF IInv, IsDatabase, RunTask, TaskCompletes
  <2> QED
    <3>1. /\ inst' = [inst EXCEPT ![i] = inst'[i]]
          /\ \E b \in BOOLEAN : inst'[i] = [inst[i] EXCEPT !.runs = b]
          /\ inst[i] \in Process
          /\ tx' = tx /\ starts' = starts /\ tx.by = None
      BY <1>13 DEF RunTask, TaskCompletes, Unlocked, IInv
    <3>2. /\ inst'[i] \in Process /\ inst'[i].pc = inst[i].pc
          /\ inst'[i].seen = inst[i].seen
      BY <3>1 DEF Process
    <3> QED
      BY <2>1, <3>1, <3>2, QuietIInv DEF IInv
<1>14. ASSUME NEW i \in Instances, Exit(i)
       PROVE  IInv'
  BY <1>14, ExitIInv
<1> QED
  BY <1>1, <1>2, <1>3, <1>4, <1>5, <1>6, <1>7, <1>8, <1>9, <1>10,
     <1>11, <1>12, <1>13, <1>14 DEF Next, Opening

\* However many processes open the file, and wherever they die, one that is
\* past Apply finds every migration recorded.
THEOREM OpenedCurrent == MCSpec => []OpenIsCurrent
<1>1. IInv => OpenIsCurrent
  BY DEF IInv, OpenIsCurrent, Past
<1> QED
  BY <1>1, InitIInv, NextIInv, SpecIsDatabase, PTL DEF Spec

-----------------------------------------------------------------------------
(* The salt is written once *)

\* What makes SecretsReadable inductive: unless two processes raced, only one
\* is up while there is no salt, a process that is about to write one found
\* none, and no secret is stored under a salt that is not there.
SaltInv ==
    /\ db.secrets \subseteq {db.salt}
    /\ db.salt = NoSalt => db.secrets = {}
    /\ db.salt = NoSalt => \A i, j \in Instances :
                             inst[i].pc # "off" /\ inst[j].pc # "off" => i = j
    /\ \A i \in Instances :
         /\ inst[i].pc = "create" => db.salt = NoSalt
         /\ inst[i].pc \in {"recover", "open"} => inst[i].salt = db.salt /\ db.salt # NoSalt

Started == \A i \in Instances : inst[i].pc # "off" => inst[i].start \in 1 .. MaxStarts

SInv == Started /\ (~raced => SaltInv)

LEMMA InitSInv == Init => SInv
<1> SUFFICES ASSUME Init
             PROVE  SInv
  OBVIOUS
<1>1. db.secrets = {db.salt} \ {NoSalt}
  BY DEF Init
<1>2. inst = [i \in Instances |-> Idle]
  BY DEF Init
<1> QED
  BY <1>1, <1>2 DEF SInv, SaltInv, Started, Idle

\* A step that leaves the salt and the secrets as they are.
LEMMA SaltKept ==
    ASSUME SInv, IInv, NEW i \in Instances,
           db'.salt = db.salt, db'.secrets = db.secrets, raced' = raced,
           inst' = [inst EXCEPT ![i] = inst'[i]],
           inst'[i].pc # "off" => inst[i].pc # "off" /\ inst'[i].start \in 1 .. MaxStarts,
           ~raced => /\ inst'[i].pc = "create" => db.salt = NoSalt
                     /\ inst'[i].pc \in {"recover", "open"} =>
                          inst'[i].salt = db.salt /\ db.salt # NoSalt
    PROVE  SInv'
<1>1. inst'[i] = inst'[i] /\ \A j \in Instances : j # i => inst'[j] = inst[j]
  BY DEF IInv
<1>2. Started'
  BY <1>1 DEF SInv, Started
<1>3. ASSUME ~raced PROVE SaltInv'
  BY <1>1, <1>3 DEF SInv, SaltInv
<1> QED
  BY <1>2, <1>3 DEF SInv

LEMMA ExitSInv ==
    ASSUME SInv, IInv, NEW i \in Instances, Exit(i)
    PROVE  SInv'
<1>1. db' = db /\ inst' = [inst EXCEPT ![i] = Idle] /\ raced' = raced
  BY DEF Exit
<1>2. inst'[i] = Idle /\ Idle.pc = "off"
  BY <1>1 DEF IInv, Idle
<1> QED
  BY <1>1, <1>2, SaltKept

\* Only the place of a process moves, to one before the salt is read.
LEMMA MovesEarly ==
    ASSUME SInv, IInv, NEW i \in Instances, NEW p \in {"migrate", "record", "commit", "salt"},
           NEW seen, inst[i].pc # "off",
           db'.salt = db.salt, db'.secrets = db.secrets, raced' = raced,
           \/ inst' = [inst EXCEPT ![i].pc = p]
           \/ inst' = [inst EXCEPT ![i].pc = p, ![i].seen = seen]
    PROVE  SInv'
<1>1. inst[i] \in Process /\ inst[i].start \in 1 .. MaxStarts
  BY DEF SInv, Started, IInv
<1>2. inst' = [inst EXCEPT ![i] = inst'[i]] /\ inst'[i].pc = p /\ inst'[i].start = inst[i].start
  BY <1>1 DEF IInv, Process
<1> QED
  BY <1>1, <1>2, SaltKept

LEMMA NextSInv == IInv /\ SInv /\ [Next]_vars => SInv'
<1> SUFFICES ASSUME IInv, SInv, [Next]_vars
             PROVE  SInv'
  OBVIOUS
<1>1. CASE UNCHANGED vars
  BY <1>1 DEF vars, SInv, SaltInv, Started
<1>2. ASSUME NEW i \in Instances, Start(i)
      PROVE  SInv'
  <2> DEFINE r == [Idle EXCEPT !.pc = "apply", !.start = starts']
  <2>1. inst' = [inst EXCEPT ![i] = r] /\ db' = db /\ starts' \in 1 .. MaxStarts
    BY <1>2, StartsAssumption DEF Start, IInv
  <2>2. r.pc = "apply" /\ r.start = starts'
    BY DEF Idle
  <2> HIDE DEF r
  <2>3. inst'[i] = r /\ \A j \in Instances : j # i => inst'[j] = inst[j]
    BY <2>1 DEF IInv
  <2>4. Started'
    BY <2>1, <2>2, <2>3 DEF SInv, Started
  <2>5. ASSUME ~raced' PROVE SaltInv'
    <3>1. ~raced /\ (db.salt = NoSalt => \A j \in Instances : inst[j].pc = "off")
      BY <1>2, <2>5 DEF Start, At
    <3> QED
      BY <2>1, <2>2, <2>3, <3>1 DEF SInv, SaltInv
  <2> QED
    BY <2>4, <2>5 DEF SInv
<1>3. ASSUME NEW i \in Instances, ReadApplied(i)
      PROVE  SInv'
  BY <1>3, MovesEarly DEF ReadApplied, At
<1>4. ASSUME NEW i \in Instances, ExecMigration(i)
      PROVE  SInv'
  <2>1. CASE Exit(i)
    BY <2>1, ExitSInv
  <2>2. CASE ~Exit(i)
    <3>1. inst' = [inst EXCEPT ![i].pc = "record"] /\ db' = db /\ inst[i].pc = "migrate"
          /\ raced' = raced
      BY <1>4, <2>2 DEF ExecMigration, At
    <3> QED
      BY <3>1, MovesEarly
  <2> QED
    BY <2>1, <2>2
<1>5. ASSUME NEW i \in Instances, RecordVersion(i)
      PROVE  SInv'
  <2>1. CASE Exit(i)
    BY <2>1, ExitSInv
  <2>2. CASE ~Exit(i)
    <3>1. inst' = [inst EXCEPT ![i].pc = "commit"] /\ db' = db /\ inst[i].pc = "record"
          /\ raced' = raced
      BY <1>5, <2>2 DEF RecordVersion, At
    <3> QED
      BY <3>1, MovesEarly
  <2> QED
    BY <2>1, <2>2
<1>6. ASSUME NEW i \in Instances, Commit(i)
      PROVE  SInv'
  <2>1. db' = tx.db /\ inst[i].pc = "commit" /\ raced' = raced
        /\ inst' = [inst EXCEPT ![i].pc = "migrate", ![i].seen = @ \cup {tx.version}]
    BY <1>6 DEF Commit, At
  <2>2. tx.by = i /\ i # None
    BY <2>1, InstancesAssumption DEF IInv
  <2>3. db'.salt = db.salt /\ db'.secrets = db.secrets
    BY <2>1, <2>2 DEF IInv
  <2>4. inst' = [inst EXCEPT ![i].pc = "migrate", ![i].seen = inst[i].seen \cup {tx.version}]
    BY <2>1 DEF IInv
  <2> QED
    BY <2>1, <2>3, <2>4, MovesEarly
<1>7. ASSUME NEW i \in Instances, Applied(i)
      PROVE  SInv'
  BY <1>7, MovesEarly DEF Applied, At
<1>8. ASSUME NEW i \in Instances, GetSalt(i)
      PROVE  SInv'
  <2>1. inst[i] \in Process /\ inst[i].pc = "salt" /\ inst[i].start \in 1 .. MaxStarts
        /\ db' = db /\ raced' = raced
    BY <1>8 DEF GetSalt, At, IInv, SInv, Started
  <2>2. CASE db.salt = NoSalt
    <3>1. inst' = [inst EXCEPT ![i].pc = "create"]
      BY <1>8, <2>2 DEF GetSalt
    <3>2. inst' = [inst EXCEPT ![i] = inst'[i]] /\ inst'[i].pc = "create"
          /\ inst'[i].start = inst[i].start
      BY <2>1, <3>1 DEF IInv, Process
    <3> QED
      BY <2>1, <2>2, <3>2, SaltKept
  <2>3. CASE db.salt # NoSalt
    <3>1. inst' = [inst EXCEPT ![i].pc = "recover", ![i].salt = db.salt]
      BY <1>8, <2>3 DEF GetSalt
    <3>2. inst' = [inst EXCEPT ![i] = inst'[i]] /\ inst'[i].pc = "recover"
          /\ inst'[i].start = inst[i].start /\ inst'[i].salt = db.salt
      BY <2>1, <3>1 DEF IInv, Process
    <3> QED
      BY <2>1, <2>3, <3>2, SaltKept
  <2> QED
    BY <2>2, <2>3
<1>9. ASSUME NEW i \in Instances, CreateSalt(i)
      PROVE  SInv'
  <2>1. /\ db' = [db EXCEPT !.salt = inst[i].start]
        /\ inst' = [inst EXCEPT ![i].pc = "recover", ![i].salt = inst[i].start]
        /\ inst[i].pc = "create" /\ raced' = raced
    BY <1>9 DEF CreateSalt, At
  <2>2. inst[i] \in Process /\ inst[i].start \in 1 .. MaxStarts
    BY <2>1 DEF IInv, SInv, Started
  <2>3. db'.salt = inst[i].start /\ db'.secrets = db.secrets
    BY <2>1, <2>2 DEF IInv, IsDatabase
  <2>4. inst'[i].pc = "recover" /\ inst'[i].salt = inst[i].start /\ inst'[i].start = inst[i].start
    BY <2>1, <2>2 DEF IInv, Process
  <2>5. inst[i].start # NoSalt
    BY <2>2, StartsAssumption DEF NoSalt
  <2>6. \A j \in Instances : j # i => inst'[j] = inst[j]
    BY <2>1 DEF IInv
  <2>7. Started'
    BY <2>2, <2>4, <2>6 DEF SInv, Started
  <2>8. ASSUME ~raced PROVE SaltInv'
    <3>1. SaltInv
      BY <2>8 DEF SInv
    <3>2. db.salt = NoSalt /\ db'.secrets = {}
      BY <2>1, <2>3, <3>1 DEF SaltInv
    <3>3. \A j \in Instances : j # i => inst'[j].pc = "off"
      BY <2>1, <2>6, <3>1, <3>2 DEF SaltInv
    <3> QED
      BY <2>3, <2>4, <2>5, <3>2, <3>3 DEF SaltInv
  <2> QED
    BY <2>1, <2>7, <2>8 DEF SInv
<1>10. ASSUME NEW i \in Instances, RecoverOrphanedTasks(i)
       PROVE  SInv'
  <2>1. db'.salt = db.salt /\ db'.secrets = db.secrets
    BY <1>10 DEF IInv, IsDatabase, RecoverOrphanedTasks
  <2>2. inst[i].pc = "recover" /\ inst' = [inst EXCEPT ![i].pc = "open"] /\ inst[i] \in Process
        /\ raced' = raced
    BY <1>10 DEF RecoverOrphanedTasks, At, IInv
  <2>3. inst' = [inst EXCEPT ![i] = inst'[i]] /\ inst'[i].pc = "open"
        /\ inst'[i].start = inst[i].start /\ inst'[i].salt = inst[i].salt
    BY <2>2 DEF IInv, Process
  <2>4. /\ inst[i].start \in 1 .. MaxStarts
        /\ ~raced => inst[i].salt = db.salt /\ db.salt # NoSalt
    BY <2>2 DEF SInv, SaltInv, Started
  <2> QED
    BY <2>1, <2>2, <2>3, <2>4, SaltKept
<1>11. ASSUME NEW i \in Instances, SaveConnection(i)
       PROVE  SInv'
  <2>1. db' = [db EXCEPT !.secrets = @ \cup {inst[i].salt}] /\ inst' = inst /\ inst[i].pc = "open"
        /\ raced' = raced
    BY <1>11 DEF SaveConnection, At
  <2>2. db'.salt = db.salt /\ db'.secrets = db.secrets \cup {inst[i].salt}
    BY <2>1 DEF IInv, IsDatabase
  <2> QED
    BY <2>1, <2>2 DEF SInv, SaltInv, Started
<1>12. ASSUME NEW i \in Instances, QueueTask(i)
       PROVE  SInv'
  <2>1. db'.salt = db.salt /\ db'.secrets = db.secrets /\ inst' = inst
        /\ raced' = raced
    BY <1>12 DEF IInv, IsDatabase, QueueTask
  <2> QED
    BY <2>1 DEF SInv, SaltInv, Started
<1>13. ASSUME NEW i \in Instances, RunTask(i) \/ TaskCompletes(i)
       PROVE  SInv'
  <2>1. db'.salt = db.salt /\ db'.secrets = db.secrets /\ raced' = raced
    BY <1>13 DEF IInv, IsDatabase, RunTask, TaskCompletes
  <2>2. inst[i] \in Process /\ \E b \in BOOLEAN : inst' = [inst EXCEPT ![i].runs = b]
    BY <1>13 DEF RunTask, TaskCompletes, IInv
  <2>3. inst' = [inst EXCEPT ![i] = inst'[i]] /\ inst'[i].pc = inst[i].pc
        /\ inst'[i].start = inst[i].start /\ inst'[i].salt = inst[i].salt
    BY <2>2 DEF IInv, Process
  <2> QED
    BY <2>1, <2>3, SaltKept DEF SInv, SaltInv, Started
<1>14. ASSUME NEW i \in Instances, Exit(i)
       PROVE  SInv'
  BY <1>14, ExitSInv
<1> QED
  BY <1>1, <1>2, <1>3, <1>4, <1>5, <1>6, <1>7, <1>8, <1>9, <1>10,
     <1>11, <1>12, <1>13, <1>14 DEF Next, Opening

\* However many processes are started and killed, if none was started beside
\* another before there was a salt, every secret ever stored is under the
\* stored salt.
THEOREM SecretsStayReadable == MCSpec => []SecretsReadable
<1>1. IInv /\ SInv => SecretsReadable
  BY DEF SInv, SaltInv, SecretsReadable
<1>2. IInv /\ SInv /\ [Next]_vars => (IInv /\ SInv)'
  BY NextIInv, NextSInv
<1>3. Init => IInv /\ SInv
  BY InitIInv, InitSInv
<1> QED
  BY <1>1, <1>2, <1>3, SpecIsDatabase, PTL DEF Spec

-----------------------------------------------------------------------------
(* The committed schema is that of one release *)

\* SchemaOf, computed.
TablesOf(k) == IF k = 0 THEN {} ELSE IF k = 1 THEN Tables \ {"favorites"} ELSE Tables
TypesOf(k) ==
    IF k = 0 THEN {} ELSE IF k <= 2 THEN {"upload"}
    ELSE IF k <= 4 THEN {"upload", "download_zip"} ELSE Types
ColumnsOf(k) == IF k <= 3 THEN {} ELSE IF k = 4 THEN {"proxy_url"} ELSE Columns

IsVersion(d, k) ==
    /\ d.applied = 1 .. k
    /\ d.tables = TablesOf(k) /\ d.types = TypesOf(k) /\ d.columns = ColumnsOf(k)

Recorded(d, v) == [Migrated(d, v) EXCEPT !.applied = @ \cup {v}]

\* A migration of version k + 1, with its record, makes version k + 1 of version k.
LEMMA RecordedVersion ==
    ASSUME NEW d, IsDatabase(d), NEW k \in 0 .. 4, IsVersion(d, k)
    PROVE  IsVersion(Recorded(d, k + 1), k + 1) /\ IsDatabase(Recorded(d, k + 1))
<1>. DEFINE m == Migrated(d, k + 1)
<1>1. k + 1 \in Versions /\ (1 .. k) \cup {k + 1} = 1 .. k + 1
    BY DEF Versions
<1>2. IsDatabase(m) /\ m.applied = d.applied
    BY <1>1, MigratedKeeps
<1>3. /\ k = 0 => m.tables = d.tables \cup (Tables \ {"favorites"})
      /\ k = 1 => m.tables = d.tables \cup {"favorites"}
      /\ k > 1 => m.tables = d.tables
    BY DEF Migrated, IsDatabase
<1>4. m.tables = TablesOf(k + 1)
    <2>1. (Tables \ {"favorites"}) \cup {"favorites"} = Tables
        BY DEF Tables
    <2>2. CASE k = 0
        <3>1. d.tables = {} /\ TablesOf(k + 1) = Tables \ {"favorites"}
            BY <2>2 DEF IsVersion, TablesOf
        <3>. QED  BY <1>3, <2>2, <3>1
    <2>3. CASE k = 1
        <3>1. d.tables = Tables \ {"favorites"} /\ TablesOf(k + 1) = Tables
            BY <2>3 DEF IsVersion, TablesOf
        <3>. QED  BY <1>3, <2>1, <2>3, <3>1
    <2>4. CASE k > 1
        <3>1. d.tables = Tables /\ TablesOf(k + 1) = Tables
            BY <2>4 DEF IsVersion, TablesOf
        <3>. QED  BY <1>3, <2>4, <3>1
    <2>. QED  BY <2>2, <2>3, <2>4
<1>5. /\ k = 0 => m.types = {"upload"}
      /\ k = 2 => m.types = {"upload", "download_zip"}
      /\ k = 4 => m.types = Types
      /\ k \in {1, 3} => m.types = d.types
    BY DEF Migrated, IsDatabase
<1>6. m.types = TypesOf(k + 1)
    <2>1. d.types = TypesOf(k) /\ k \in {0, 1, 2, 3, 4}
        BY DEF IsVersion
    <2>2. /\ k = 1 => TypesOf(k) = TypesOf(k + 1)
          /\ k = 3 => TypesOf(k) = TypesOf(k + 1)
        BY DEF TypesOf
    <2>3. /\ k = 0 => TypesOf(k + 1) = {"upload"}
          /\ k = 2 => TypesOf(k + 1) = {"upload", "download_zip"}
          /\ k = 4 => TypesOf(k + 1) = Types
        BY DEF TypesOf
    <2>. QED  BY <1>5, <2>1, <2>2, <2>3
<1>7. /\ k \in {0, 1} => m.columns = d.columns
      /\ k = 2 => m.columns = d.columns \ {"dest_profile_id"}
      /\ k = 3 => m.columns = d.columns \cup {"proxy_url"}
      /\ k = 4 => m.columns = d.columns \cup {"dest_profile_id"}
    BY DEF Migrated, IsDatabase
<1>8. m.columns = ColumnsOf(k + 1)
    <2>1. d.columns = ColumnsOf(k) /\ k \in {0, 1, 2, 3, 4}
        BY DEF IsVersion
    <2>2. k <= 3 => d.columns = {}
        BY <2>1 DEF ColumnsOf
    <2>3. k = 4 => d.columns = {"proxy_url"}
        BY <2>1 DEF ColumnsOf
    <2>4. /\ k <= 2 => ColumnsOf(k + 1) = {}
          /\ k = 3 => ColumnsOf(k + 1) = {"proxy_url"}
          /\ k = 4 => ColumnsOf(k + 1) = Columns
        BY DEF ColumnsOf
    <2>5. {"proxy_url"} \cup {"dest_profile_id"} = Columns
        BY DEF Columns
    <2>6. CASE k \in {0, 1}
        BY <1>7, <2>2, <2>4, <2>6
    <2>7. CASE k = 2
        <3>1. m.columns = {} \ {"dest_profile_id"}
            BY <1>7, <2>2, <2>7
        <3>. QED  BY <2>4, <2>7, <3>1
    <2>8. CASE k = 3
        <3>1. m.columns = {} \cup {"proxy_url"}
            BY <1>7, <2>2, <2>8
        <3>. QED  BY <2>4, <2>8, <3>1
    <2>9. CASE k = 4
        BY <1>7, <2>3, <2>4, <2>5, <2>9
    <2>. QED  BY <2>1, <2>6, <2>7, <2>8, <2>9
<1>. HIDE DEF m
<1>9. LET e == [m EXCEPT !.applied = @ \cup {k + 1}] IN
      /\ IsDatabase(e) /\ e.applied = m.applied \cup {k + 1}
      /\ e.tables = m.tables /\ e.types = m.types /\ e.columns = m.columns
    BY <1>2 DEF IsDatabase
<1>. QED  BY <1>1, <1>2, <1>4, <1>6, <1>8, <1>9 DEF IsVersion, Recorded, m

LEMMA SchemaIsVersion ==
    \A k \in {0} \cup Versions : IsVersion(SchemaOf[k], k)
<1>. DEFINE r1 == Recorded(Empty, 1)
            r2 == Recorded(r1, 2)
            r3 == Recorded(r2, 3)
            r4 == Recorded(r3, 4)
            r5 == Recorded(r4, 5)
            f == [k \in {0} \cup Versions |->
                    IF k = 0 THEN Empty ELSE IF k = 1 THEN r1 ELSE IF k = 2 THEN r2
                    ELSE IF k = 3 THEN r3 ELSE IF k = 4 THEN r4 ELSE r5]
            g == [k \in {0} \cup Versions |-> IF k = 0 THEN Empty ELSE Recorded(f[k - 1], k)]
<1>1. r1 = Recorded(Empty, 1) /\ r2 = Recorded(r1, 2) /\ r3 = Recorded(r2, 3)
      /\ r4 = Recorded(r3, 4) /\ r5 = Recorded(r4, 5)
    OBVIOUS
<1>. HIDE DEF r1, r2, r3, r4, r5
<1>2. f = g
    BY <1>1 DEF Versions
<1>3. SchemaOf = [k \in {0} \cup Versions |->
                    IF k = 0 THEN Empty
                    ELSE [Migrated(SchemaOf[k - 1], k) EXCEPT !.applied = @ \cup {k}]]
    BY <1>2 DEF SchemaOf, Recorded
<1>4. SchemaOf[0] = Empty
    BY <1>3
<1>5. IsDatabase(SchemaOf[0]) /\ IsVersion(SchemaOf[0], 0)
    BY <1>4 DEF Empty, IsDatabase, IsVersion, TablesOf, TypesOf, ColumnsOf
<1>6. ASSUME NEW k \in 0 .. 4, IsDatabase(SchemaOf[k]), IsVersion(SchemaOf[k], k)
      PROVE  IsDatabase(SchemaOf[k + 1]) /\ IsVersion(SchemaOf[k + 1], k + 1)
    <2>1. k + 1 \in {0} \cup Versions /\ k + 1 # 0 /\ (k + 1) - 1 = k
        BY DEF Versions
    <2>2. SchemaOf[k + 1] = Recorded(SchemaOf[k], k + 1)
        BY <1>3, <2>1 DEF Recorded
    <2>. QED  BY <1>6, <2>2, RecordedVersion
<1>. DEFINE Good(k) == IsDatabase(SchemaOf[k]) /\ IsVersion(SchemaOf[k], k)
<1>7. Good(1) /\ Good(2) /\ Good(3)
    BY <1>5, <1>6
<1>8. Good(4) /\ Good(5)
    BY <1>6, <1>7
<1>. QED  BY <1>5, <1>7, <1>8 DEF Versions

\* The queued row fits the schema: its type is one the release knows, and exactly a task
\* between two connections has a destination.
RowFits(d) ==
    /\ d.row \in Rows /\ d.row.type \in d.types \cup {"none"}
    /\ d.row.type = "copy_cross" => d.row.dest = TRUE
    /\ d.row.type # "copy_cross" => d.row.dest = FALSE

InTx(i) ==
    /\ inst[i].seen = 1 .. tx.version - 1
    /\ inst[i].pc = "record" => tx.db = Migrated(db, tx.version)
    /\ inst[i].pc = "commit" => /\ IsVersion(db, tx.version - 1)
                               /\ tx.db = Recorded(db, tx.version)

\* What makes the schema an invariant: a process has seen an initial segment of the
\* versions, so the migration it runs is the first it has not seen, and what gets past the
\* primary key of schema_migrations is the first that is not committed either.
KInv ==
    /\ \E k \in 0 .. 5 : IsVersion(db, k)
    /\ RowFits(db)
    /\ db.secrets \subseteq 1 .. MaxStarts + 1
    /\ raced \in BOOLEAN
    /\ tx.by \in Instances \cup {None}
    /\ \A i \in Instances : \E j \in 0 .. 5 : inst[i].seen = 1 .. j
    /\ \A i \in Instances :
         /\ inst[i].runs => db.row # NoRow
         /\ inst[i].pc \in {"recover", "open"} => inst[i].salt # NoSalt
    /\ \A i \in Instances : inst[i].pc \in {"record", "commit"} => InTx(i)

RowStep == db.row # NoRow => /\ db'.row.type = db.row.type
                             /\ db'.row.dest = db.row.dest

\* A row that changes its status stays the same task.
LEMMA StatusStep ==
    ASSUME NEW d, NEW e, RowFits(d), d.row # NoRow, e.types = d.types,
           NEW s \in {"pending", "running", "paused", "completed"},
           e.row = [d.row EXCEPT !.status = s]
    PROVE  /\ RowFits(e) /\ e.row # NoRow
           /\ e.row.type = d.row.type /\ e.row.dest = d.row.dest
<1>1. d.row \in [type : Types, dest : BOOLEAN, status : {"pending", "running", "paused",
"completed"}]
  BY DEF RowFits, Rows
<1>2. e.row \in [type : Types, dest : BOOLEAN, status : {"pending", "running", "paused",
"completed"}]
      /\ e.row.type = d.row.type /\ e.row.dest = d.row.dest
  BY <1>1
<1>3. e.row # NoRow
  BY <1>2 DEF NoRow, Types
<1> QED
  BY <1>2, <1>3 DEF RowFits, Rows

\* A process reads: nothing but its own record changes.
LEMMA ReadKInv ==
    ASSUME IInv, KInv, NEW i \in Instances, db' = db, tx' = tx, raced' \in BOOLEAN,
           inst' = [inst EXCEPT ![i] = inst'[i]],
           \E j \in 0 .. 5 : inst'[i].seen = 1 .. j,
           inst'[i].runs => inst[i].runs,
           inst'[i].pc \notin {"record", "commit"},
           inst'[i].pc \in {"recover", "open"} => inst'[i].salt # NoSalt
    PROVE  KInv' /\ RowStep
<1>1. \A j \in Instances : j # i => inst'[j] = inst[j]
  BY DEF IInv
<1>2. /\ \E k \in 0 .. 5 : IsVersion(db', k)
      /\ RowFits(db') /\ db'.secrets \subseteq 1 .. MaxStarts + 1
      /\ tx'.by \in Instances \cup {None}
  BY DEF KInv
<1>3. ASSUME NEW j \in Instances
      PROVE  \E k \in 0 .. 5 : inst'[j].seen = 1 .. k
  <2>1. CASE j = i
    BY <2>1
  <2>2. CASE j # i
    BY <1>1, <2>2 DEF KInv
  <2> QED
    BY <2>1, <2>2
<1>4. ASSUME NEW j \in Instances
      PROVE  /\ inst'[j].runs => db'.row # NoRow
             /\ inst'[j].pc \in {"recover", "open"} => inst'[j].salt # NoSalt
  BY <1>1 DEF KInv
<1>5. ASSUME NEW j \in Instances, inst'[j].pc \in {"record", "commit"}
      PROVE  InTx(j)'
  BY <1>1, <1>5 DEF KInv, InTx
<1> QED
  BY <1>2, <1>3, <1>4, <1>5 DEF KInv, RowStep

\* Nobody holds the write lock, and a process writes something else than the schema.
LEMMA WriteKInv ==
    ASSUME IInv, KInv, NEW i \in Instances, Unlocked, tx' = tx, raced' = raced,
           db'.applied = db.applied, db'.tables = db.tables, db'.types = db.types,
           db'.columns = db.columns, db'.secrets \subseteq 1 .. MaxStarts + 1,
           RowFits(db'), db.row # NoRow => db'.row # NoRow, RowStep,
           inst' = [inst EXCEPT ![i] = inst'[i]],
           inst'[i].seen = inst[i].seen,
           inst'[i].runs => db'.row # NoRow,
           inst'[i].pc \notin {"record", "commit"},
           inst'[i].pc \in {"recover", "open"} => inst'[i].salt # NoSalt
    PROVE  KInv' /\ RowStep
<1>1. \A j \in Instances : j # i => inst'[j] = inst[j]
  BY DEF IInv
<1>2. \A j \in Instances : inst[j].pc \notin {"record", "commit"}
  BY InstancesAssumption DEF Unlocked, IInv
<1>3. \A j \in Instances : inst'[j].pc \notin {"record", "commit"}
  BY <1>1, <1>2
<1>4. \E k \in 0 .. 5 : IsVersion(db', k)
  BY DEF KInv, IsVersion
<1>5. \A j \in Instances : inst'[j].seen = inst[j].seen
  BY <1>1
<1>6. \A j \in Instances : /\ inst'[j].runs => db'.row # NoRow
                           /\ inst'[j].pc \in {"recover", "open"} => inst'[j].salt # NoSalt
  BY <1>1 DEF KInv
<1> QED
  <2>1. RowFits(db') /\ db'.secrets \subseteq 1 .. MaxStarts + 1 /\ raced' \in BOOLEAN
        /\ tx'.by \in Instances \cup {None}
    BY DEF KInv
  <2>2. \A j \in Instances : \E k \in 0 .. 5 : inst'[j].seen = 1 .. k
    BY <1>5 DEF KInv
  <2>3. \A j \in Instances : inst'[j].pc \in {"record", "commit"} => InTx(j)'
    BY <1>3
  <2>4. KInv'
    <3>1. (\E k \in 0 .. 5 : IsVersion(db, k))'
      BY <1>4
    <3>2. /\ RowFits(db)'
          /\ (db.secrets \subseteq 1 .. MaxStarts + 1)'
          /\ (raced \in BOOLEAN)'
          /\ (tx.by \in Instances \cup {None})'
      BY <2>1
    <3>3. (\A j \in Instances : \E k \in 0 .. 5 : inst[j].seen = 1 .. k)'
      BY <2>2
    <3>4. (\A j \in Instances :
         /\ inst[j].runs => db.row # NoRow
         /\ inst[j].pc \in {"recover", "open"} => inst[j].salt # NoSalt)'
      BY <1>6
    <3> QED
      BY <3>1, <3>2, <3>3, <3>4, <2>3 DEF KInv
  <2> QED
    BY <2>4

LEMMA InitKInv == Init => KInv
<1> SUFFICES ASSUME Init
             PROVE  KInv
  OBVIOUS
<1>1. PICK k \in {0} \cup Versions :
         \E row \in {r \in Rows : /\ r.type \in SchemaOf[k].types \cup {"none"}
                                  /\ r.dest = (r.type = "copy_cross")
                                  /\ r.status \in {"none", "pending", "running"}} :
           LET made == IF k = 0 THEN NoSalt ELSE MaxStarts + 1 IN
             db = [applied |-> 1 .. k, tables |-> SchemaOf[k].tables,
                   types |-> SchemaOf[k].types, columns |-> SchemaOf[k].columns,
                   salt |-> made, secrets |-> {made} \ {NoSalt}, row |-> row]
  BY DEF Init
<1>2. PICK row \in Rows :
           /\ row.type \in SchemaOf[k].types \cup {"none"}
           /\ row.dest = (row.type = "copy_cross")
           /\ db = [applied |-> 1 .. k, tables |-> SchemaOf[k].tables,
                   types |-> SchemaOf[k].types, columns |-> SchemaOf[k].columns,
                   salt |-> IF k = 0 THEN NoSalt ELSE MaxStarts + 1,
                   secrets |-> {IF k = 0 THEN NoSalt ELSE MaxStarts + 1} \ {NoSalt},
                   row |-> row]
  BY <1>1
<1>3. k \in 0 .. 5 /\ IsVersion(SchemaOf[k], k)
  BY SchemaIsVersion DEF Versions
<1>4. IsVersion(db, k)
  BY <1>2, <1>3 DEF IsVersion
<1>5. RowFits(db)
  BY <1>2 DEF RowFits
<1>6. db.secrets \subseteq 1 .. MaxStarts + 1
  BY <1>2, StartsAssumption DEF NoSalt
<1>7. tx = NoTx /\ inst = [i \in Instances |-> Idle] /\ raced = FALSE
  BY DEF Init
<1>8. Idle.seen = 1 .. 0 /\ Idle.runs = FALSE /\ Idle.pc = "off"
  BY DEF Idle
<1> QED
  <2>1. \E n \in 0 .. 5 : IsVersion(db, n)
    BY <1>3, <1>4
  <2>2. \A i \in Instances : inst[i] = Idle
    BY <1>7
  <2>3. \A i \in Instances : \E j \in 0 .. 5 : inst[i].seen = 1 .. j
    BY <1>8, <2>2
  <2>4. tx.by = None /\ raced \in BOOLEAN
    BY <1>7 DEF NoTx
  <2> QED
    BY <1>5, <1>6, <1>8, <2>1, <2>2, <2>3, <2>4 DEF KInv

LEMMA ExitKInv ==
    ASSUME IInv, KInv, NEW i \in Instances, Exit(i)
    PROVE  KInv' /\ RowStep
<1>1. db' = db /\ raced' = raced /\ inst' = [inst EXCEPT ![i] = Idle]
      /\ tx' = IF tx.by = i THEN NoTx ELSE tx
  BY DEF Exit
<1>2. Idle.seen = 1 .. 0 /\ Idle.runs = FALSE /\ Idle.pc = "off"
  BY DEF Idle
<1>3. \A j \in Instances : j # i => inst'[j] = inst[j]
  BY <1>1 DEF IInv
<1>4. inst'[i] = Idle
  BY <1>1 DEF IInv
<1>5. CASE tx.by # i
  <2>1. /\ inst' = [inst EXCEPT ![i] = inst'[i]] /\ tx' = tx /\ raced' \in BOOLEAN
        /\ inst'[i].seen = 1 .. 0 /\ ~inst'[i].runs
        /\ inst'[i].pc \notin {"record", "commit", "recover", "open"}
    BY <1>1, <1>2, <1>4, <1>5 DEF KInv
  <2>2. \E j \in 0 .. 5 : inst'[i].seen = 1 .. j
    BY <2>1
  <2> HIDE DEF KInv, IInv
  <2> QED
    BY <1>1, <2>1, <2>2, ReadKInv
<1>6. CASE tx.by = i
  <2>1. \A j \in Instances : inst'[j].pc \notin {"record", "commit"}
    BY <1>2, <1>3, <1>4, <1>6 DEF IInv
  <2>2. \A j \in Instances : \E k \in 0 .. 5 : inst'[j].seen = 1 .. k
    BY <1>2, <1>3, <1>4 DEF KInv
  <2>3. \A j \in Instances : /\ inst'[j].runs => db'.row # NoRow
                             /\ inst'[j].pc \in {"recover", "open"} => inst'[j].salt # NoSalt
    BY <1>1, <1>2, <1>3, <1>4 DEF KInv
  <2>4. tx'.by = None
    BY <1>1, <1>6 DEF NoTx
  <2> QED
    <3>1. (\E k \in 0 .. 5 : IsVersion(db', k)) /\ RowFits(db') /\ raced' \in BOOLEAN
          /\ db'.secrets \subseteq 1 .. MaxStarts + 1 /\ RowStep
      BY <1>1 DEF KInv, RowStep
    <3>2. \A j \in Instances : inst'[j].pc \in {"record", "commit"} => InTx(j)'
      BY <2>1
    <3>3. KInv'
      BY <2>2, <2>3, <2>4, <3>1, <3>2 DEF KInv
    <3> QED
      BY <3>1, <3>3
<1> QED
  BY <1>5, <1>6

LEMMA OwnersTx ==
    ASSUME IInv, NEW i \in Instances, inst[i].pc \in {"record", "commit"}
    PROVE  /\ tx.by = i /\ tx.version \in Versions
           /\ tx = [by |-> i, version |-> tx.version, db |-> tx.db]
           /\ IsDatabase(tx.db)
           /\ \A j \in Instances : inst[j].pc \in {"record", "commit"} => j = i
BY InstancesAssumption DEF IInv

\* The lowest version after an initial segment of them.
LEMMA NextVersion ==
    ASSUME NEW j \in 0 .. 5, Versions \ (1 .. j) # {}
    PROVE  /\ j + 1 \in Versions
           /\ (CHOOSE p \in Versions \ (1 .. j) : \A q \in Versions \ (1 .. j) : p <= q) = j + 1
<1>1. j + 1 \in Versions \ (1 .. j)
  BY DEF Versions
<1>2. \A q \in Versions \ (1 .. j) : j + 1 <= q /\ q \in Int
  BY DEF Versions
<1> QED
  BY <1>1, <1>2

LEMMA ExecKInv ==
    ASSUME IInv, KInv, NEW i \in Instances, ExecMigration(i)
    PROVE  KInv' /\ RowStep
<1>1. PICK j \in 0 .. 5 : inst[i].seen = 1 .. j
  BY DEF KInv
<1>2. j + 1 \in Versions
      /\ (CHOOSE p \in Pending(i) : \A q \in Pending(i) : p <= q) = j + 1
  BY <1>1, NextVersion DEF ExecMigration, Pending
<1>3. CASE Executes(db, j + 1)
  <2>1. /\ tx' = [by |-> i, version |-> j + 1, db |-> Migrated(db, j + 1)]
        /\ inst' = [inst EXCEPT ![i].pc = "record"] /\ db' = db /\ raced' = raced
        /\ Unlocked
    BY <1>2, <1>3 DEF ExecMigration
  <2>2. inst'[i].pc = "record" /\ inst'[i].seen = inst[i].seen /\ inst'[i].runs = inst[i].runs
        /\ \A n \in Instances : n # i => inst'[n] = inst[n]
    BY <2>1 DEF IInv, Process
  <2>3. \A n \in Instances : n # i => inst'[n].pc \notin {"record", "commit"}
    BY <2>1, <2>2, InstancesAssumption DEF Unlocked, IInv
  <2>4. tx'.by = i /\ tx'.version = j + 1 /\ tx'.db = Migrated(db, j + 1) /\ (j + 1) - 1 = j
    BY <2>1
  <2>5. \A n \in Instances : /\ \E m \in 0 .. 5 : inst'[n].seen = 1 .. m
                             /\ inst'[n].runs => db'.row # NoRow
                             /\ inst'[n].pc \in {"recover", "open"} => inst'[n].salt # NoSalt
    BY <2>1, <2>2 DEF KInv
  <2> QED
    BY <1>1, <2>1, <2>2, <2>3, <2>4, <2>5 DEF KInv, InTx, RowStep
<1>4. CASE ~Executes(db, j + 1)
  <2>1. Exit(i)
    BY <1>2, <1>4 DEF ExecMigration
  <2> QED
    BY <2>1, ExitKInv
<1> QED
  BY <1>3, <1>4

\* The primary key lets through only the first version that is not committed.
LEMMA RecordKInv ==
    ASSUME IInv, KInv, NEW i \in Instances, RecordVersion(i)
    PROVE  KInv' /\ RowStep
<1>. DEFINE v == tx.version
<1>1. inst[i].pc = "record"
  BY DEF RecordVersion, At
<1>2. /\ tx.by = i /\ v \in Versions /\ tx = [by |-> i, version |-> v, db |-> tx.db]
      /\ \A n \in Instances : inst[n].pc \in {"record", "commit"} => n = i
  BY <1>1, OwnersTx
<1>3. inst[i].seen = 1 .. v - 1 /\ tx.db = Migrated(db, v)
  BY <1>1 DEF KInv, InTx
<1>4. tx.db.applied = db.applied
  BY <1>2, <1>3, MigratedKeeps DEF IInv
<1>5. CASE v \in tx.db.applied
  BY <1>5, ExitKInv DEF RecordVersion
<1>6. CASE v \notin tx.db.applied
  <2>1. /\ tx' = [tx EXCEPT !.db.applied = @ \cup {tx.version}]
        /\ inst' = [inst EXCEPT ![i].pc = "commit"] /\ db' = db /\ raced' = raced
    BY <1>6 DEF RecordVersion
  <2>2. PICK k \in 0 .. 5 : IsVersion(db, k)
    BY DEF KInv
  <2>3. 1 .. v - 1 \subseteq 1 .. k /\ v \notin 1 .. k
    BY <1>3, <1>4, <1>6, <2>2 DEF IInv, IsVersion
  <2>4. k = v - 1
    <3>1. v \in 1 .. 5
      BY <1>2 DEF Versions
    <3>2. k < v
      BY <2>3, <3>1
    <3>3. v - 1 <= k
      BY <2>3, <3>1
    <3> QED
      BY <3>1, <3>2, <3>3
  <2>5. IsVersion(db, v - 1)
    BY <2>2, <2>4
  <2>6. tx'.by = i /\ tx'.version = v /\ tx'.db = [tx.db EXCEPT !.applied = @ \cup {v}]
    BY <1>2, <2>1
  <2>7. tx'.db = Recorded(db, v)
    BY <1>3, <2>6 DEF Recorded
  <2>8. inst'[i].pc = "commit" /\ inst'[i].seen = inst[i].seen /\ inst'[i].runs = inst[i].runs
        /\ \A n \in Instances : n # i => inst'[n] = inst[n]
    BY <2>1 DEF IInv, Process
  <2>9. \A n \in Instances : n # i => inst'[n].pc \notin {"record", "commit"}
    BY <1>2, <2>8
  <2>10. \A n \in Instances : /\ \E m \in 0 .. 5 : inst'[n].seen = 1 .. m
                              /\ inst'[n].runs => db'.row # NoRow
                              /\ inst'[n].pc \in {"recover", "open"} => inst'[n].salt # NoSalt
    BY <2>1, <2>8 DEF KInv
  <2> HIDE DEF v
  <2> QED
    BY <1>3, <2>1, <2>5, <2>6, <2>7, <2>8, <2>9, <2>10 DEF KInv, InTx, RowStep
<1> QED
  BY <1>5, <1>6

\* A row that fits the release is kept by the next release's migration.
LEMMA RecordedRow ==
    ASSUME NEW d, IsDatabase(d), NEW k \in 0 .. 4, IsVersion(d, k), RowFits(d)
    PROVE  /\ Recorded(d, k + 1).row = d.row
           /\ Recorded(d, k + 1).secrets = d.secrets
           /\ RowFits(Recorded(d, k + 1))
<1>. DEFINE m == Migrated(d, k + 1)
<1>1. k + 1 \in Versions
  BY DEF Versions
<1>2. IsDatabase(m) /\ m.secrets = d.secrets
  BY <1>1, MigratedKeeps
<1>3. d.types = TypesOf(k)
  BY DEF IsVersion
<1>4. k < 5 => "copy_cross" \notin TypesOf(k)
  BY DEF TypesOf
<1>5. d.row \in Rows /\ d.row.dest = FALSE /\ d.row.type \in TypesOf(k) \cup {"none"}
  BY <1>3, <1>4 DEF RowFits
<1>6. [d.row EXCEPT !.dest = FALSE] = d.row
  BY <1>5 DEF Rows, NoRow
<1>7. m.row = d.row
  <2>1. k \in {0, 1, 3} => m.row = d.row
    BY DEF Migrated, IsDatabase
  <2>2. k \in {2, 4} => m.row = [d.row EXCEPT !.dest = FALSE]
    BY DEF Migrated, IsDatabase
  <2> QED
    BY <1>6, <2>1, <2>2
<1>8. /\ Recorded(d, k + 1).row = m.row
      /\ Recorded(d, k + 1).secrets = m.secrets
  <2> HIDE DEF m
  <2>1. [m EXCEPT !.applied = @ \cup {k + 1}].row = m.row
        /\ [m EXCEPT !.applied = @ \cup {k + 1}].secrets = m.secrets
    BY <1>2 DEF IsDatabase
  <2> QED
    BY <2>1 DEF Recorded, m
<1>9. Recorded(d, k + 1).types = TypesOf(k + 1)
  BY RecordedVersion DEF IsVersion
<1>10. TypesOf(k) \subseteq TypesOf(k + 1)
  BY DEF TypesOf, Types
<1> QED
  BY <1>2, <1>3, <1>5, <1>7, <1>8, <1>9, <1>10 DEF RowFits

LEMMA CommitKInv ==
    ASSUME IInv, KInv, NEW i \in Instances, Commit(i)
    PROVE  KInv' /\ RowStep
<1>. DEFINE v == tx.version
<1>1. inst[i].pc = "commit"
  BY DEF Commit, At
<1>2. /\ tx.by = i /\ v \in Versions
      /\ \A n \in Instances : inst[n].pc \in {"record", "commit"} => n = i
  BY <1>1, OwnersTx
<1>3. inst[i].seen = 1 .. v - 1 /\ IsVersion(db, v - 1) /\ tx.db = Recorded(db, v)
  BY <1>1 DEF KInv, InTx
<1>4. v - 1 \in 0 .. 4 /\ (v - 1) + 1 = v /\ v \in 0 .. 5
  BY <1>2 DEF Versions
<1>5. db' = Recorded(db, v) /\ tx' = NoTx /\ raced' = raced
      /\ inst' = [inst EXCEPT ![i].pc = "migrate", ![i].seen = @ \cup {v}]
  BY <1>3 DEF Commit
<1>6. IsVersion(db', v)
  BY <1>3, <1>4, <1>5, RecordedVersion DEF IInv
<1>7. db'.row = db.row /\ db'.secrets = db.secrets /\ RowFits(db')
  <2>1. RowFits(db) /\ IsDatabase(db)
    BY DEF IInv, KInv
  <2> QED
    BY <1>3, <1>4, <1>5, <2>1, RecordedRow
<1>8. inst'[i].pc = "migrate" /\ inst'[i].seen = inst[i].seen \cup {v}
      /\ inst'[i].runs = inst[i].runs
      /\ \A n \in Instances : n # i => inst'[n] = inst[n]
  BY <1>5 DEF IInv, Process
<1>9. inst'[i].seen = 1 .. v
  BY <1>3, <1>4, <1>8
<1>10. \A n \in Instances : inst'[n].pc \notin {"record", "commit"}
  BY <1>2, <1>8
<1>11. tx'.by = None
  BY <1>5 DEF NoTx
<1>12. \A n \in Instances : /\ \E m \in 0 .. 5 : inst'[n].seen = 1 .. m
                            /\ inst'[n].runs => db'.row # NoRow
                            /\ inst'[n].pc \in {"recover", "open"} => inst'[n].salt # NoSalt
  BY <1>4, <1>7, <1>8, <1>9 DEF KInv
<1> HIDE DEF v
<1> QED
  BY <1>4, <1>5, <1>6, <1>7, <1>10, <1>11, <1>12 DEF KInv, RowStep

LEMMA NextKInv ==
    ASSUME IInv, SInv, KInv, [Next]_vars
    PROVE  KInv' /\ RowStep
<1>1. CASE UNCHANGED vars
  BY <1>1 DEF vars, KInv, InTx, RowStep
<1>2. ASSUME NEW i \in Instances, Start(i)
      PROVE  KInv' /\ RowStep
  <2>1. /\ inst' = [inst EXCEPT ![i] = [Idle EXCEPT !.pc = "apply", !.start = starts']]
        /\ db' = db /\ tx' = tx /\ raced' \in BOOLEAN
    BY <1>2 DEF Start, KInv
  <2>2. inst'[i] = [Idle EXCEPT !.pc = "apply", !.start = starts']
    BY <2>1 DEF IInv
  <2>3. inst'[i].pc = "apply" /\ inst'[i].seen = 1 .. 0 /\ ~inst'[i].runs
    BY <2>2 DEF Idle
  <2>4. \E j \in 0 .. 5 : inst'[i].seen = 1 .. j
    BY <2>3
  <2> QED
    BY <2>1, <2>2, <2>3, <2>4, ReadKInv
<1>3. ASSUME NEW i \in Instances, ReadApplied(i)
      PROVE  KInv' /\ RowStep
  <2>1. /\ inst' = [inst EXCEPT ![i].pc = "migrate", ![i].seen = db.applied]
        /\ db' = db /\ tx' = tx /\ raced' \in BOOLEAN
    BY <1>3 DEF ReadApplied, KInv
  <2>2. inst' = [inst EXCEPT ![i] = inst'[i]]
    BY <2>1 DEF IInv
  <2>3. inst'[i].pc = "migrate" /\ inst'[i].seen = db.applied /\ inst'[i].runs = inst[i].runs
    BY <2>1 DEF IInv, Process
  <2>4. \E j \in 0 .. 5 : inst'[i].seen = 1 .. j
    BY <2>3 DEF KInv, IsVersion
  <2> QED
    BY <2>2, <2>1, <2>3, <2>4, ReadKInv
<1>4. ASSUME NEW i \in Instances, Applied(i) \/ GetSalt(i)
      PROVE  KInv' /\ RowStep
  <2>1. /\ db' = db /\ tx' = tx /\ raced' \in BOOLEAN
        /\ \/ inst' = [inst EXCEPT ![i].pc = "salt"]
           \/ inst' = [inst EXCEPT ![i].pc = "create"]
           \/ db.salt # NoSalt /\ inst' = [inst EXCEPT ![i].pc = "recover", ![i].salt = db.salt]
    BY <1>4 DEF Applied, GetSalt, KInv
  <2>2. inst' = [inst EXCEPT ![i] = inst'[i]]
    BY <2>1 DEF IInv
  <2>3. inst'[i].pc \in {"salt", "create", "recover"} /\ inst'[i].seen = inst[i].seen
        /\ (inst'[i].pc = "recover" => inst'[i].salt # NoSalt)
        /\ inst'[i].runs = inst[i].runs
    <3>1. CASE inst' = [inst EXCEPT ![i].pc = "salt"]
      BY <3>1 DEF IInv, Process
    <3>2. CASE inst' = [inst EXCEPT ![i].pc = "create"]
      BY <3>2 DEF IInv, Process
    <3>3. CASE db.salt # NoSalt /\ inst' = [inst EXCEPT ![i].pc = "recover",
    ![i].salt = db.salt]
      BY <3>3 DEF IInv, Process
    <3> QED
      BY <2>1, <3>1, <3>2, <3>3
  <2>4. \E j \in 0 .. 5 : inst'[i].seen = 1 .. j
    BY <2>3 DEF KInv
  <2> QED
    BY <2>2, <2>1, <2>3, <2>4, ReadKInv
<1>5. ASSUME NEW i \in Instances, CreateSalt(i)
      PROVE  KInv' /\ RowStep
  <2>1. /\ db' = [db EXCEPT !.salt = inst[i].start] /\ tx' = tx /\ raced' = raced /\ Unlocked
        /\ inst' = [inst EXCEPT ![i].pc = "recover", ![i].salt = inst[i].start]
    BY <1>5 DEF CreateSalt
  <2>2. inst'[i].pc = "recover" /\ inst'[i].seen = inst[i].seen
        /\ inst'[i].salt = inst[i].start
        /\ inst'[i].runs = inst[i].runs
    BY <2>1 DEF IInv, Process
  <2>3. inst' = [inst EXCEPT ![i] = inst'[i]]
    BY <2>1 DEF IInv
  <2>4. /\ db'.applied = db.applied /\ db'.tables = db.tables /\ db'.types = db.types
        /\ db'.columns = db.columns /\ db'.secrets = db.secrets /\ db'.row = db.row
    BY <2>1 DEF IInv, IsDatabase
  <2>5. inst[i].start # NoSalt
    BY <1>5 DEF CreateSalt, At, SInv, Started, NoSalt
  <2>6. RowFits(db') /\ RowStep /\ db'.secrets \subseteq 1 .. MaxStarts + 1
        /\ (inst'[i].runs => db'.row # NoRow)
    BY <2>2, <2>4 DEF KInv, RowFits, RowStep
  <2>7. inst'[i].salt # NoSalt /\ inst'[i].pc \notin {"record", "commit"}
        /\ (db.row # NoRow => db'.row # NoRow)
    BY <2>2, <2>4, <2>5
  <2> QED
    BY <2>1, <2>2, <2>4, <2>6, <2>3, <2>7, WriteKInv
<1>6. ASSUME NEW i \in Instances, RecoverOrphanedTasks(i)
      PROVE  KInv' /\ RowStep
  <2>1. /\ \/ db' = [db EXCEPT !.row.status = IF @ = "running" THEN "paused" ELSE @]
           \/ db' = db
        /\ tx' = tx /\ raced' = raced /\ Unlocked
        /\ inst' = [inst EXCEPT ![i].pc = "open"]
    BY <1>6 DEF RecoverOrphanedTasks
  <2>2. inst'[i].pc = "open" /\ inst'[i].seen = inst[i].seen /\ inst'[i].salt = inst[i].salt
        /\ inst'[i].runs = inst[i].runs /\ inst' = [inst EXCEPT ![i] = inst'[i]]
    BY <2>1 DEF IInv, Process
  <2>3. /\ db'.applied = db.applied /\ db'.tables = db.tables /\ db'.types = db.types
        /\ db'.columns = db.columns /\ db'.secrets = db.secrets
        /\ \/ db'.row = db.row
           \/ db.row.status = "running" /\ db'.row = [db.row EXCEPT !.status = "paused"]
    <3>1. CASE db' = db
      BY <3>1
    <3>2. CASE db' = [db EXCEPT !.row.status = IF @ = "running" THEN "paused" ELSE @]
      <4>1. db'.row = [db.row EXCEPT !.status = IF @ = "running" THEN "paused" ELSE @]
            /\ db'.applied = db.applied /\ db'.tables = db.tables /\ db'.types = db.types
            /\ db'.columns = db.columns /\ db'.secrets = db.secrets
        BY <3>2 DEF IInv, IsDatabase
      <4>2. db.row.status # "running" => db'.row = db.row
        BY <4>1 DEF KInv, RowFits, Rows, NoRow
      <4> QED
        BY <4>1, <4>2
    <3> QED
      BY <2>1, <3>1, <3>2
  <2>4. RowFits(db') /\ RowStep /\ (db.row # NoRow => db'.row # NoRow)
    <3>1. CASE db'.row = db.row
      BY <2>3, <3>1 DEF KInv, RowFits, RowStep
    <3>2. CASE db.row.status = "running" /\ db'.row = [db.row EXCEPT !.status = "paused"]
      <4>1. db.row # NoRow
        BY <3>2 DEF NoRow
      <4>2. RowFits(db)
        BY DEF KInv
      <4> QED
        BY <2>3, <3>2, <4>1, <4>2, StatusStep DEF RowStep
    <3> QED
      BY <2>3, <3>1, <3>2
  <2>5. db'.secrets \subseteq 1 .. MaxStarts + 1 /\ (inst'[i].runs => db'.row # NoRow)
        /\ inst'[i].salt # NoSalt
    BY <1>6, <2>2, <2>3, <2>4 DEF KInv, RecoverOrphanedTasks, At
  <2> QED
    BY <2>1, <2>2, <2>3, <2>4, <2>5, WriteKInv
<1>7. ASSUME NEW i \in Instances, SaveConnection(i)
      PROVE  KInv' /\ RowStep
  <2>1. /\ db' = [db EXCEPT !.secrets = @ \cup {inst[i].salt}] /\ inst[i].pc = "open"
        /\ tx' = tx /\ raced' = raced /\ Unlocked /\ inst' = inst
    BY <1>7 DEF SaveConnection, At
  <2>2. /\ db'.applied = db.applied /\ db'.tables = db.tables /\ db'.types = db.types
        /\ db'.columns = db.columns /\ db'.secrets = db.secrets \cup {inst[i].salt}
        /\ db'.row = db.row
    BY <2>1 DEF IInv, IsDatabase
  <2>3. inst[i].salt \in 1 .. MaxStarts + 1
    BY <2>1, StartsAssumption DEF KInv, IInv, Process, NoSalt
  <2>4. RowFits(db') /\ RowStep /\ db'.secrets \subseteq 1 .. MaxStarts + 1
        /\ inst' = [inst EXCEPT ![i] = inst'[i]]
    BY <2>1, <2>2, <2>3 DEF KInv, RowFits, RowStep, IInv
  <2>5. (inst'[i].runs => db'.row # NoRow) /\ inst'[i].salt # NoSalt
        /\ inst'[i].pc = "open" /\ inst'[i].seen = inst[i].seen
    BY <2>1, <2>2 DEF KInv
  <2> QED
    BY <2>1, <2>2, <2>4, <2>5, WriteKInv
<1>8. ASSUME NEW i \in Instances, QueueTask(i)
      PROVE  KInv' /\ RowStep
  <2>1. PICK t \in db.types :
           db' = [db EXCEPT !.row = [type |-> t, dest |-> t = "copy_cross",
           status |-> "pending"]]
    BY <1>8 DEF QueueTask
  <2>2. tx' = tx /\ raced' = raced /\ Unlocked /\ inst' = inst /\ inst[i].pc = "open"
        /\ db.row = NoRow
    BY <1>8 DEF QueueTask, At
  <2>3. /\ db'.applied = db.applied /\ db'.tables = db.tables /\ db'.types = db.types
        /\ db'.columns = db.columns /\ db'.secrets = db.secrets
        /\ db'.row = [type |-> t, dest |-> t = "copy_cross", status |-> "pending"]
    BY <2>1 DEF IInv, IsDatabase
  <2>4. t \in Types
    BY DEF KInv, IsVersion, TypesOf, Types
  <2>5. RowFits(db') /\ RowStep /\ db'.row # NoRow
    <3>1. CASE t = "copy_cross"
      <4>1. db'.row = [type |-> t, dest |-> TRUE, status |-> "pending"]
        BY <2>3, <3>1
      <4> QED
        BY <2>2, <2>3, <2>4, <3>1, <4>1 DEF RowFits, Rows, NoRow, RowStep, Types
    <3>2. CASE t # "copy_cross"
      <4>1. db'.row = [type |-> t, dest |-> FALSE, status |-> "pending"]
        BY <2>3, <3>2
      <4> QED
        BY <2>2, <2>3, <2>4, <3>2, <4>1 DEF RowFits, Rows, NoRow, RowStep, Types
    <3> QED
      BY <3>1, <3>2
  <2>6. db'.secrets \subseteq 1 .. MaxStarts + 1 /\ inst' = [inst EXCEPT ![i] = inst'[i]]
        /\ inst'[i].salt # NoSalt /\ inst'[i].pc = "open" /\ inst'[i].seen = inst[i].seen
    BY <2>2, <2>3 DEF KInv, IInv
  <2> QED
    BY <2>2, <2>3, <2>5, <2>6, WriteKInv
<1>9. ASSUME NEW i \in Instances, RunTask(i) \/ TaskCompletes(i)
      PROVE  KInv' /\ RowStep
  <2>1. PICK s \in {"running", "completed"}, b \in BOOLEAN :
           /\ db' = [db EXCEPT !.row.status = s]
           /\ inst' = [inst EXCEPT ![i].runs = b]
    BY <1>9 DEF RunTask, TaskCompletes
  <2>2. tx' = tx /\ raced' = raced /\ Unlocked
    BY <1>9 DEF RunTask, TaskCompletes
  <2>3. db.row # NoRow
    BY <1>9 DEF RunTask, TaskCompletes, KInv, NoRow
  <2>4. /\ db'.applied = db.applied /\ db'.tables = db.tables /\ db'.types = db.types
        /\ db'.columns = db.columns /\ db'.secrets = db.secrets
        /\ db'.row = [db.row EXCEPT !.status = s]
    BY <2>1 DEF IInv, IsDatabase
  <2>5. RowFits(db') /\ RowStep /\ db'.row # NoRow
    <3>1. RowFits(db)
      BY DEF KInv
    <3>2. s \in {"pending", "running", "paused", "completed"}
      OBVIOUS
    <3>3. /\ RowFits(db') /\ db'.row # NoRow
          /\ db'.row.type = db.row.type /\ db'.row.dest = db.row.dest
      <4> HIDE DEF RowStep
      <4> QED
        BY <2>3, <2>4, <3>1, <3>2, StatusStep
    <3> QED
      BY <3>3 DEF RowStep
  <2>6. inst'[i].pc = inst[i].pc /\ inst'[i].seen = inst[i].seen /\ inst'[i].salt = inst[i].salt
        /\ inst' = [inst EXCEPT ![i] = inst'[i]]
    BY <2>1 DEF IInv, Process
  <2>7. db'.secrets \subseteq 1 .. MaxStarts + 1
        /\ inst'[i].pc \notin {"record", "commit"}
        /\ (inst'[i].pc \in {"recover", "open"} => inst'[i].salt # NoSalt)
    BY <2>2, <2>4, <2>6, InstancesAssumption DEF KInv, IInv, Unlocked
  <2> QED
    BY <2>2, <2>4, <2>5, <2>6, <2>7, WriteKInv
<1>10. ASSUME NEW i \in Instances,
              ExecMigration(i) \/ RecordVersion(i) \/ Commit(i) \/ Exit(i)
       PROVE  KInv' /\ RowStep
  BY <1>10, ExecKInv, RecordKInv, CommitKInv, ExitKInv
<1> QED
  BY <1>1, <1>2, <1>3, <1>4, <1>5, <1>6, <1>7, <1>8, <1>9, <1>10 DEF Next, Opening

LEMMA TypedDatabase ==
    IInv /\ KInv => /\ TypeOK
                    /\ SchemaIsApplied
<1> SUFFICES ASSUME IInv, KInv
             PROVE  TypeOK /\ SchemaIsApplied
  OBVIOUS
<1>1. PICK k \in 0 .. 5 : IsVersion(db, k)
  BY DEF KInv
<1>2. k \in {0} \cup Versions /\ IsVersion(SchemaOf[k], k)
  BY SchemaIsVersion DEF Versions
<1>3. SchemaIsApplied
  BY <1>1, <1>2 DEF IsVersion, SchemaIsApplied
<1>4. TablesOf(k) \subseteq Tables /\ TypesOf(k) \subseteq Types /\ ColumnsOf(k) \subseteq Columns
  BY DEF TablesOf, TypesOf, ColumnsOf, Types, Columns, Tables
<1>5. db \in [applied : SUBSET Versions, tables : SUBSET Tables, types : SUBSET Types,
               columns : SUBSET Columns, salt : 0 .. MaxStarts + 1,
               secrets : SUBSET (1 .. MaxStarts + 1), row : Rows]
  BY <1>1, <1>4 DEF IsVersion, KInv, RowFits, IInv, IsDatabase
<1> QED
  BY <1>3, <1>5 DEF TypeOK, IInv, KInv

\* Whichever processes migrate the file, and wherever each of them dies, the committed tables
\* are those of one release, the one schema_migrations tells, and the rebuilds of the queue
\* keep the type and the destination of the row.
THEOREM SchemaIsAlwaysKept == MCSpec => SchemaIsKept
<1>1. Init => IInv /\ SInv /\ KInv
  BY InitIInv, InitSInv, InitKInv
<1>2. IInv /\ SInv /\ KInv /\ [Next]_vars => (IInv /\ SInv /\ KInv)'
  BY NextIInv, NextSInv, NextKInv
<1>3. IInv /\ SInv /\ KInv /\ [Next]_vars
        => [db.row # NoRow => /\ db'.row.type = db.row.type
                              /\ db'.row.dest = db.row.dest]_vars
  BY NextKInv DEF RowStep
<1>4. IInv /\ KInv => TypeOK /\ SchemaIsApplied
  BY TypedDatabase
<1> QED
  BY <1>1, <1>2, <1>3, <1>4, SpecIsDatabase, PTL DEF Spec, SchemaIsKept, RowIsKept

-----------------------------------------------------------------------------
(* Calls and profiles, whatever overlaps *)

\* The key that a call works with, or is going to install, is a key.
Fits(r) ==
    /\ r.step = "idle" => r = M!NoCall
    /\ r.step \in {"commit", "encrypt", "load", "write"} => r.key \in M!Keys
    /\ r.step \in {"commit", "install"} => r.newKey \in M!Keys
    /\ r.step = "load" => r.profile \in Profiles

\* A profile that does not exist has no token either.
AbsentIsEmpty == \A i \in Profiles : ~M!Exists(i) => token[i] = Blank

FitInv == M!TypeOK /\ AbsentIsEmpty /\ \A c \in Callers : Fits(call[c])

LEMMA NoCallFits == M!NoCall \in M!CallType /\ Fits(M!NoCall) /\ M!NoCall.step = "idle"
  BY DEF M!CallType, M!Steps, M!NoCall, M!Doing, Fits

LEMMA InitFit == M!Init => FitInv
<1> SUFFICES ASSUME M!Init PROVE FitInv
  OBVIOUS
<1>1. M!TypeOK
  <2>1. call \in [Callers -> M!CallType]
    BY NoCallFits DEF M!Init
  <2>2. calls \in 0 .. MaxCalls /\ restarts \in 0 .. MaxRestarts
    BY SecretsAssumption DEF M!PasswordAssumption, M!Init
  <2>3. secret \in [Profiles -> {Absent}] /\ token \in [Profiles -> {Blank}]
    BY DEF M!Init
  <2> QED
    BY <2>1, <2>2, <2>3 DEF M!TypeOK, M!Keys, M!Init
<1>2. AbsentIsEmpty
  BY DEF M!Init, AbsentIsEmpty
<1>3. \A c \in Callers : Fits(call[c])
  BY NoCallFits DEF M!Init
<1> QED
  BY <1>1, <1>2, <1>3 DEF FitInv

\* The history is of callers.
LEMMA HistoryFits ==
    ASSUME FitInv, [M!Next]_(M!vars) PROVE overtaken' \subseteq Callers /\ spoiled' \in BOOLEAN
<1>1. overtaken \subseteq Callers /\ spoiled \in BOOLEAN
  BY DEF FitInv, M!TypeOK
<1>2. ASSUME NEW c \in Callers, M!Return(c) PROVE overtaken' \subseteq Callers
  BY <1>1, <1>2 DEF M!Return
<1>3. ASSUME NEW c \in Callers, M!ReadsKey(c) PROVE overtaken' \subseteq Callers
  BY <1>1, <1>3 DEF M!ReadsKey
<1>4. ASSUME NEW c \in Callers, M!TakesEffect(c) PROVE spoiled' \in BOOLEAN
  BY <1>4 DEF M!TakesEffect
<1>5. ASSUME NEW c \in Callers, M!Overtakes(c) PROVE overtaken' \subseteq Callers
  BY <1>5 DEF M!Overtakes
<1>6. ASSUME NEW c \in Callers, NEW p \in Passwords,
             M!SetMasterPassword(c, p) \/ M!RemoveMasterPassword(c, p) \/ M!Unlock(c, p)
      PROVE  overtaken' \subseteq Callers /\ spoiled' \in BOOLEAN
  BY <1>1, <1>3, <1>6
  DEF M!SetMasterPassword, M!RemoveMasterPassword, M!Unlock, M!history
<1>7. ASSUME NEW c \in Callers, M!Commit(c) \/ M!Rollback(c) \/ M!Install(c)
      PROVE  overtaken' \subseteq Callers /\ spoiled' \in BOOLEAN
  BY <1>1, <1>2, <1>4, <1>5, <1>7 DEF M!Commit, M!Rollback, M!Install, M!Overtakes
<1>8. ASSUME NEW c \in Callers, NEW i \in Profiles \cup {Absent}, M!SaveProfile(c, i)
      PROVE  overtaken' \subseteq Callers /\ spoiled' \in BOOLEAN
  BY <1>1, <1>3, <1>8 DEF M!SaveProfile
<1>9. ASSUME NEW c \in Callers, M!Encrypt(c) \/ M!LoadExisting(c)
      PROVE  overtaken' \subseteq Callers /\ spoiled' \in BOOLEAN
  BY <1>1, <1>2, <1>9 DEF M!Encrypt, M!LoadExisting, M!history
<1>10. ASSUME NEW c \in Callers, M!Write(c)
       PROVE  overtaken' \subseteq Callers /\ spoiled' \in BOOLEAN
  BY <1>1, <1>2, <1>4, <1>10 DEF M!Write
<1>11. ASSUME UNCHANGED M!history PROVE overtaken' \subseteq Callers /\ spoiled' \in BOOLEAN
  BY <1>1, <1>11 DEF M!history
<1>12. CASE M!Restart
  BY <1>1, <1>12 DEF M!Restart
<1> QED
  BY <1>6, <1>7, <1>8, <1>9, <1>10, <1>11, <1>12
  DEF M!Next, M!vars, M!DeleteProfile, M!ImportProfiles

\* One call moves on to r, and nothing is stored.
LEMMA OneCallFits ==
    ASSUME FitInv, UNCHANGED <<M!stored, restarts>>, calls' \in 0 .. MaxCalls,
           overtaken' \subseteq Callers, spoiled' \in BOOLEAN, keyBox' \in M!Keys \cup {NoKey},
           NEW c \in Callers, NEW r \in M!CallType, Fits(r), call' = [call EXCEPT ![c] = r]
    PROVE  FitInv'
<1> USE DEF M!stored
<1>1. call'[c] = r /\ \A d \in Callers \ {c} : call'[d] = call[d]
  BY DEF FitInv, M!TypeOK
<1>2. M!TypeOK'
  BY DEF FitInv, M!TypeOK
<1>3. AbsentIsEmpty'
  BY DEF FitInv, AbsentIsEmpty, M!Exists
<1>4. \A d \in Callers : Fits(call'[d])
  BY <1>1 DEF FitInv
<1> QED
  BY <1>2, <1>3, <1>4 DEF FitInv, Fits

LEMMA BeginFits ==
    ASSUME FitInv, NEW c \in Callers, M!Begin(c) PROVE calls' \in 0 .. MaxCalls
  BY SecretsAssumption DEF M!PasswordAssumption, M!Begin, FitInv, M!TypeOK

\* Nothing but the fields of profiles changes, and the call of c may end.
LEMMA FieldsFit ==
    ASSUME FitInv, UNCHANGED <<keyBox, verifier, restarts>>, calls' \in 0 .. MaxCalls,
           overtaken' \subseteq Callers, spoiled' \in BOOLEAN,
           NEW c \in Callers, call' = call \/ M!Return(c),
           secret' \in [Profiles -> M!Keys \cup {Absent, Blank}],
           token' \in [Profiles -> M!Keys \cup {Blank}],
           \A i \in Profiles : secret'[i] = Absent => token'[i] = Blank
    PROVE  FitInv'
<1>1. call' \in [Callers -> M!CallType] /\ \A d \in Callers : Fits(call'[d])
  BY NoCallFits DEF FitInv, M!TypeOK, M!Return
<1>2. M!TypeOK'
  BY <1>1 DEF FitInv, M!TypeOK
<1>3. AbsentIsEmpty'
  BY DEF AbsentIsEmpty, M!Exists
<1> QED
  BY <1>1, <1>2, <1>3 DEF FitInv, Fits

LEMMA NextFit == ASSUME FitInv, [M!Next]_(M!vars) PROVE FitInv'
<1>0. overtaken' \subseteq Callers /\ spoiled' \in BOOLEAN
  BY HistoryFits
<1>1. ASSUME NEW c \in Callers, NEW p \in Passwords, M!SetMasterPassword(c, p) PROVE FitInv'
  <2> DEFINE r == M!Doing("commit", keyBox, p, Absent, Blank, Blank)
  <2>1. r \in M!CallType /\ Fits(r)
    BY <1>1
    DEF M!SetMasterPassword, M!CallType, M!Steps, M!NoCall, M!Doing, Fits, M!Keys, FitInv,
        M!TypeOK
  <2>2. /\ call' = [call EXCEPT ![c] = r] /\ UNCHANGED <<keyBox, M!stored, restarts>>
        /\ M!Begin(c)
    BY <1>1 DEF M!SetMasterPassword
  <2> HIDE DEF r
  <2> QED
    BY <1>0, <2>1, <2>2, BeginFits, OneCallFits DEF FitInv, M!TypeOK
<1>2. ASSUME NEW c \in Callers, NEW p \in Passwords, M!RemoveMasterPassword(c, p)
      PROVE  FitInv'
  <2> DEFINE r == M!Doing("commit", p, Machine, Absent, Blank, Blank)
  <2>1. r \in M!CallType /\ Fits(r)
    BY DEF M!CallType, M!Steps, M!NoCall, M!Doing, Fits, M!Keys
  <2>2. /\ call' = [call EXCEPT ![c] = r] /\ UNCHANGED <<keyBox, M!stored, restarts>>
        /\ M!Begin(c)
    BY <1>2 DEF M!RemoveMasterPassword
  <2> HIDE DEF r
  <2> QED
    BY <1>0, <2>1, <2>2, BeginFits, OneCallFits DEF FitInv, M!TypeOK
<1>3. ASSUME NEW c \in Callers, NEW p \in Passwords, M!Unlock(c, p) PROVE FitInv'
  <2> DEFINE r == M!Doing("install", NoKey, p, Absent, Blank, Blank)
  <2>1. r \in M!CallType /\ Fits(r)
    BY DEF M!CallType, M!Steps, M!NoCall, M!Doing, Fits, M!Keys
  <2>2. /\ call' = [call EXCEPT ![c] = r] /\ UNCHANGED <<keyBox, M!stored, restarts>>
        /\ M!Begin(c)
    BY <1>3 DEF M!Unlock
  <2> HIDE DEF r
  <2> QED
    BY <1>0, <2>1, <2>2, BeginFits, OneCallFits DEF FitInv, M!TypeOK
<1>4. ASSUME NEW c \in Callers, M!Commit(c) PROVE FitInv'
  <2> DEFINE k == call[c].newKey
  <2>1. call[c].step = "commit" /\ k \in M!Keys
    BY <1>4 DEF M!Commit, M!At, FitInv, Fits
  <2>2. verifier' \in Passwords \cup {NoKey}
    BY <1>4, <2>1 DEF M!Commit, M!VerifierOf, M!Keys
  <2>3. call' = [call EXCEPT ![c].step = "install"] /\ UNCHANGED <<keyBox, calls, restarts>>
    BY <1>4 DEF M!Commit, M!Goto, M!Unchanged
  <2>4. /\ \A i \in Profiles : secret'[i] = IF M!Exists(i) THEN k ELSE Absent
        /\ \A i \in Profiles : token'[i] = IF token[i] = Blank THEN Blank ELSE k
        /\ secret' \in [Profiles -> {k, Absent}] /\ token' \in [Profiles -> {k, Blank}]
    BY <1>4 DEF M!Commit
  <2>5. call' \in [Callers -> M!CallType]
    BY <2>3 DEF FitInv, M!TypeOK, M!CallType, M!Steps
  <2>6. M!TypeOK'
    BY <1>0, <2>1, <2>2, <2>3, <2>4, <2>5 DEF FitInv, M!TypeOK
  <2>7. AbsentIsEmpty'
    BY <2>1, <2>4, SecretsAssumption DEF M!PasswordAssumption, FitInv, AbsentIsEmpty, M!Exists
  <2>8. \A d \in Callers : Fits(call'[d])
    BY <2>1, <2>3 DEF FitInv, M!TypeOK, M!CallType, Fits
  <2> QED
    BY <2>6, <2>7, <2>8 DEF FitInv, Fits
<1>5. ASSUME NEW c \in Callers, M!Rollback(c) \/ M!Install(c) PROVE FitInv'
  <2>1. keyBox' \in M!Keys \cup {NoKey}
    BY <1>5 DEF M!Rollback, M!Install, M!At, FitInv, M!TypeOK, Fits
  <2>2. /\ call' = [call EXCEPT ![c] = M!NoCall] /\ calls' \in 0 .. MaxCalls
        /\ UNCHANGED <<M!stored, restarts>>
    BY <1>5 DEF M!Rollback, M!Install, M!Return, M!Unchanged, FitInv, M!TypeOK
  <2> QED
    BY <1>0, <2>1, <2>2, NoCallFits, OneCallFits
<1>6. ASSUME NEW c \in Callers, NEW i \in Profiles \cup {Absent}, M!SaveProfile(c, i)
      PROVE  FitInv'
  <2>1. PICK step \in {"encrypt", "load"} :
          /\ step = "load" => i # Absent
          /\ call' = [call EXCEPT ![c] = M!Doing(step, keyBox, NoKey, i, Blank, Blank)]
    BY <1>6 DEF M!SaveProfile
  <2> DEFINE r == M!Doing(step, keyBox, NoKey, i, Blank, Blank)
  <2>2. M!Begin(c) /\ keyBox # NoKey /\ UNCHANGED <<keyBox, M!stored, restarts>>
    BY <1>6 DEF M!SaveProfile
  <2>3. r \in M!CallType /\ Fits(r)
    BY <2>1, <2>2 DEF M!CallType, M!Steps, M!NoCall, M!Doing, Fits, FitInv, M!TypeOK
  <2>4. call' = [call EXCEPT ![c] = r]
    BY <2>1
  <2> HIDE DEF r
  <2> QED
    BY <1>0, <2>2, <2>3, <2>4, BeginFits, OneCallFits DEF FitInv, M!TypeOK
<1>7. ASSUME NEW c \in Callers, call[c].step \in {"encrypt", "load"}, NEW s \in M!Keys,
             M!Prepared(c, s), UNCHANGED <<keyBox, M!stored, calls, restarts>>
      PROVE  FitInv'
  <2>1. PICK t \in {call[c].key, Blank} :
          call' = [call EXCEPT ![c] = M!Doing("write", call[c].key, NoKey, call[c].profile, s, t)]
    BY <1>7 DEF M!Prepared
  <2> DEFINE r == M!Doing("write", call[c].key, NoKey, call[c].profile, s, t)
  <2>2. call[c] \in M!CallType /\ call[c].key \in M!Keys
    BY <1>7 DEF FitInv, M!TypeOK, Fits
  <2>3. r \in M!CallType /\ Fits(r)
    BY <2>2 DEF M!CallType, M!Steps, M!Doing, Fits
  <2>4. call' = [call EXCEPT ![c] = r]
    BY <2>1
  <2> HIDE DEF r
  <2> QED
    BY <1>0, <1>7, <2>3, <2>4, OneCallFits DEF FitInv, M!TypeOK
<1>8. ASSUME NEW c \in Callers, M!Encrypt(c) PROVE FitInv'
  <2>1. call[c].step = "encrypt" /\ call[c].key \in M!Keys
    BY <1>8 DEF M!Encrypt, M!At, FitInv, Fits
  <2> QED
    BY <1>7, <1>8, <2>1 DEF M!Encrypt, M!Unchanged
<1>9. ASSUME NEW c \in Callers, M!LoadExisting(c) PROVE FitInv'
  <2> DEFINE s == secret[call[c].profile]
  <2>1. call[c].step = "load" /\ UNCHANGED <<keyBox, M!stored, calls, restarts>>
    BY <1>9 DEF M!LoadExisting, M!At, M!Unchanged
  <2>2. s \in M!Keys \cup {Absent, Blank}
    BY <2>1 DEF FitInv, M!TypeOK, Fits
  <2>3. CASE s \in {Absent, Blank}
    <3>1. call' = [call EXCEPT ![c] = M!NoCall]
      BY <1>9, <2>3 DEF M!LoadExisting, M!Return
    <3> QED
      BY <1>0, <2>1, <3>1, NoCallFits, OneCallFits DEF FitInv, M!TypeOK
  <2>4. CASE s \notin {Absent, Blank}
    <3>1. M!Prepared(c, s)
      BY <1>9, <2>4 DEF M!LoadExisting
    <3> QED
      BY <1>7, <2>1, <2>2, <2>4, <3>1
  <2> QED
    BY <2>3, <2>4
<1>10. ASSUME NEW c \in Callers, M!Write(c) PROVE FitInv'
  <2>1. /\ UNCHANGED <<keyBox, verifier, restarts>> /\ calls' \in 0 .. MaxCalls
        /\ M!Return(c) /\ call[c] \in M!CallType
    BY <1>10 DEF M!Write, M!Unchanged, FitInv, M!TypeOK
  <2>2. CASE UNCHANGED <<secret, token>>
    BY <1>0, <2>1, <2>2, FieldsFit DEF FitInv, M!TypeOK, AbsentIsEmpty, M!Exists
  <2>3. CASE \E i \in Profiles : /\ secret' = [secret EXCEPT ![i] = call[c].secret]
                                 /\ token' = [token EXCEPT ![i] = call[c].token]
    <3>1. /\ secret' \in [Profiles -> M!Keys \cup {Absent, Blank}]
          /\ token' \in [Profiles -> M!Keys \cup {Blank}]
          /\ \A i \in Profiles : secret'[i] = Absent => token'[i] = Blank
      BY <2>1, <2>3, SecretsAssumption
      DEF M!PasswordAssumption, FitInv, M!TypeOK, M!CallType, AbsentIsEmpty, M!Exists
    <3> QED
      BY <1>0, <2>1, <3>1, FieldsFit
  <2> QED
    BY <1>10, <2>2, <2>3 DEF M!Write
<1>11. ASSUME NEW c \in Callers, NEW i \in Profiles, M!DeleteProfile(c, i) PROVE FitInv'
  <2>1. /\ UNCHANGED <<keyBox, verifier, call, restarts>> /\ calls' \in 0 .. MaxCalls
        /\ secret' = [secret EXCEPT ![i] = Absent] /\ token' = [token EXCEPT ![i] = Blank]
    BY <1>11, BeginFits DEF M!DeleteProfile
  <2>2. /\ secret' \in [Profiles -> M!Keys \cup {Absent, Blank}]
        /\ token' \in [Profiles -> M!Keys \cup {Blank}]
        /\ \A j \in Profiles : secret'[j] = Absent => token'[j] = Blank
    BY <2>1 DEF FitInv, M!TypeOK, AbsentIsEmpty, M!Exists
  <2> QED
    BY <1>0, <2>1, <2>2, FieldsFit
<1>12. ASSUME NEW c \in Callers, M!ImportProfiles(c) PROVE FitInv'
  <2>1. PICK i \in Profiles : ~M!Exists(i) /\ secret' = [secret EXCEPT ![i] = Blank]
    BY <1>12 DEF M!ImportProfiles
  <2>2. UNCHANGED <<keyBox, verifier, token, call, restarts>> /\ calls' \in 0 .. MaxCalls
    BY <1>12, BeginFits DEF M!ImportProfiles
  <2>3. /\ secret' \in [Profiles -> M!Keys \cup {Absent, Blank}]
        /\ \A j \in Profiles : secret'[j] = Absent => token'[j] = Blank
    BY <2>1, <2>2 DEF FitInv, M!TypeOK, AbsentIsEmpty, M!Exists
  <2>4. token' \in [Profiles -> M!Keys \cup {Blank}]
    BY <2>2 DEF FitInv, M!TypeOK
  <2> QED
    BY <1>0, <2>2, <2>3, <2>4, FieldsFit
<1>13. CASE M!Restart
  <2>1. /\ call' = [c \in Callers |-> M!NoCall] /\ UNCHANGED <<M!stored, calls>>
        /\ keyBox' \in M!Keys \cup {NoKey} /\ restarts' \in 0 .. MaxRestarts
    BY <1>13, SecretsAssumption
    DEF M!PasswordAssumption, M!Restart, FitInv, M!TypeOK, M!Keys
  <2>2. call' \in [Callers -> M!CallType] /\ \A c \in Callers : Fits(call'[c])
    BY <2>1, NoCallFits
  <2>3. M!TypeOK'
    BY <1>0, <2>1, <2>2 DEF FitInv, M!TypeOK, M!stored
  <2>4. AbsentIsEmpty'
    BY <2>1 DEF FitInv, M!stored, AbsentIsEmpty, M!Exists
  <2> QED
    BY <2>2, <2>3, <2>4 DEF FitInv, Fits
<1>14. CASE UNCHANGED M!vars
  BY <1>0, <1>14 DEF M!vars, M!stored, FitInv, M!TypeOK, AbsentIsEmpty, M!Exists, Fits
<1> QED
  BY <1>1, <1>2, <1>3, <1>4, <1>5, <1>6, <1>8, <1>9, <1>10, <1>11, <1>12, <1>13, <1>14
  DEF M!Next

-----------------------------------------------------------------------------
(* The key of what is stored *)

\* A call that writes a profile, or sets a new password, works with the key in the KeyBox.
NeedsKey(r) ==
    \/ r.step \in {"encrypt", "load", "write"}
    \/ r.step = "commit" /\ r.newKey # Machine

\* What a call knows that no password change has overtaken: the key it is going to
\* install, or encrypts with, is the current one, and a key it needs is in the KeyBox.
Holds(r) ==
    /\ r.step \in {"commit", "encrypt", "load", "write"} => r.key = M!CurrentKey
    /\ r.step = "install" => r.newKey = M!CurrentKey
    /\ r.step = "write" => r.secret = M!CurrentKey /\ r.token \in {M!CurrentKey, Blank}
    /\ NeedsKey(r) => keyBox = M!CurrentKey

CallsAreCurrent == \A c \in Callers \ overtaken : Holds(call[c])

\* The KeyBox is behind only while such a call waits to install the key.
KeyBoxIsCurrent ==
    \/ keyBox \in {M!CurrentKey, NoKey}
    \/ \E c \in Callers \ overtaken : call[c].step = "install"

KeysInv == M!AllUnderCurrentKey /\ CallsAreCurrent /\ KeyBoxIsCurrent

\* As long as no overtaken call has taken effect.
PasswordInv == FitInv /\ (~spoiled => KeysInv)

LEMMA IdleHolds == Holds(M!NoCall)
  BY DEF Holds, NeedsKey, M!NoCall, M!Doing

LEMMA InitPassword == M!Init => PasswordInv
<1> SUFFICES ASSUME M!Init PROVE KeysInv
  BY InitFit DEF PasswordInv
<1>1. M!AllUnderCurrentKey /\ KeyBoxIsCurrent
  BY DEF M!Init, M!AllUnderCurrentKey, M!Exists, KeyBoxIsCurrent, M!CurrentKey
<1>2. CallsAreCurrent
  BY IdleHolds DEF M!Init, CallsAreCurrent
<1> QED
  BY <1>1, <1>2 DEF KeysInv

\* The current key is a key, and is neither a blank field nor none.
LEMMA CurrentKeyIsKey ==
    ASSUME M!TypeOK PROVE M!CurrentKey \in M!Keys /\ M!CurrentKey \notin {Absent, Blank, NoKey}
  BY SecretsAssumption DEF M!PasswordAssumption, M!TypeOK, M!CurrentKey, M!Keys

\* It is determined by the verifier.
LEMMA CurrentKeyKept == ASSUME verifier' = verifier PROVE M!CurrentKey' = M!CurrentKey
  BY DEF M!CurrentKey

\* What a call knows stays true while the verifier and the KeyBox stay, or the current key
\* comes into the KeyBox.
LEMMA HoldsKept ==
    ASSUME verifier' = verifier, keyBox' \in {keyBox, M!CurrentKey}, NEW r, Holds(r)
    PROVE  Holds(r)'
  BY CurrentKeyKept DEF Holds, NeedsKey

\* Of a call that takes effect the other overtaken ones stay.
LEMMA ReturnHistory ==
    ASSUME NEW c \in Callers, M!Return(c) PROVE overtaken' \ {c} = overtaken \ {c}
  BY DEF M!Return

\* A new call reads the key of what is stored, or is overtaken at once.
LEMMA ReadsCurrentKey ==
    ASSUME FitInv, KeysInv, keyBox # NoKey, NEW c \in Callers, M!ReadsKey(c)
    PROVE  /\ overtaken' \ {c} = overtaken \ {c}
           /\ c \notin overtaken' => keyBox = M!CurrentKey
<1>1. overtaken' \ {c} = overtaken \ {c}
  BY DEF M!ReadsKey
<1>2. ASSUME c \notin overtaken', NEW d \in Callers \ overtaken, call[d].step = "install"
      PROVE  keyBox = M!CurrentKey
  <2>1. call[d].newKey = keyBox
    BY <1>2 DEF M!ReadsKey, M!At
  <2>2. call[d].newKey = M!CurrentKey
    BY <1>2 DEF KeysInv, CallsAreCurrent, Holds
  <2> QED
    BY <2>1, <2>2
<1> QED
  BY <1>1, <1>2 DEF KeysInv, KeyBoxIsCurrent

-----------------------------------------------------------------------------
(* Steps of one call that write nothing *)

\* Such a step keeps the key of what is stored if the call knows what it must afterwards.
LEMMA OneCallMoves ==
    ASSUME FitInv, KeysInv, UNCHANGED <<keyBox, M!stored>>,
           NEW c \in Callers, NEW r, call' = [call EXCEPT ![c] = r],
           overtaken' \ {c} = overtaken \ {c}, c \notin overtaken' => Holds(r),
           call[c].step # "install"
    PROVE  KeysInv'
<1> USE DEF M!stored
<1>1. call'[c] = r /\ \A d \in Callers \ {c} : call'[d] = call[d]
  BY DEF FitInv, M!TypeOK
<1>2. M!CurrentKey' = M!CurrentKey
  BY CurrentKeyKept
<1>3. M!AllUnderCurrentKey'
  BY <1>2 DEF KeysInv, M!AllUnderCurrentKey, M!Exists
<1>4. CallsAreCurrent'
  <2> SUFFICES ASSUME NEW d \in Callers \ overtaken' PROVE Holds(call[d])'
    BY DEF CallsAreCurrent
  <2>1. Holds(call'[d])
    BY <1>1 DEF KeysInv, CallsAreCurrent
  <2> QED
    BY <2>1, <1>2 DEF Holds, NeedsKey
<1>5. KeyBoxIsCurrent'
  BY <1>1, <1>2 DEF KeysInv, KeyBoxIsCurrent
<1> QED
  BY <1>3, <1>4, <1>5 DEF KeysInv

LEMMA SetMasterPasswordKeys ==
    ASSUME FitInv, KeysInv, NEW c \in Callers, NEW p \in Passwords, M!SetMasterPassword(c, p)
    PROVE  KeysInv'
<1> DEFINE r == M!Doing("commit", keyBox, p, Absent, Blank, Blank)
<1>1. /\ call' = [call EXCEPT ![c] = r] /\ UNCHANGED <<keyBox, M!stored>>
      /\ call[c].step # "install" /\ keyBox # NoKey /\ M!ReadsKey(c)
  BY DEF M!SetMasterPassword, M!Begin, M!Idle, M!NoCall, M!Doing
<1>2. overtaken' \ {c} = overtaken \ {c} /\ (c \notin overtaken' => keyBox = M!CurrentKey)
  BY <1>1, ReadsCurrentKey
<1>3. c \notin overtaken' => Holds(r)
  BY <1>2 DEF Holds, NeedsKey, M!Doing
<1> HIDE DEF r
<1> QED
  BY <1>1, <1>2, <1>3, OneCallMoves

LEMMA VerifiedIsCurrent ==
    ASSUME NEW p \in Passwords, M!Verified(p) PROVE p = M!CurrentKey
  BY SecretsAssumption DEF M!PasswordAssumption, M!Verified, M!CurrentKey, M!Keys

LEMMA RemoveMasterPasswordKeys ==
    ASSUME FitInv, KeysInv, NEW c \in Callers, NEW p \in Passwords,
           M!RemoveMasterPassword(c, p)
    PROVE  KeysInv'
<1> DEFINE r == M!Doing("commit", p, Machine, Absent, Blank, Blank)
<1>1. /\ call' = [call EXCEPT ![c] = r] /\ UNCHANGED <<keyBox, M!stored, overtaken>>
      /\ call[c].step # "install" /\ M!Verified(p)
  BY DEF M!RemoveMasterPassword, M!Begin, M!Idle, M!NoCall, M!Doing, M!history
<1>2. Holds(r)
  BY <1>1, VerifiedIsCurrent DEF Holds, NeedsKey, M!Doing
<1> HIDE DEF r
<1> QED
  BY <1>1, <1>2, OneCallMoves

LEMMA UnlockKeys ==
    ASSUME FitInv, KeysInv, NEW c \in Callers, NEW p \in Passwords, M!Unlock(c, p)
    PROVE  KeysInv'
<1> DEFINE r == M!Doing("install", NoKey, p, Absent, Blank, Blank)
<1>1. /\ call' = [call EXCEPT ![c] = r] /\ UNCHANGED <<keyBox, M!stored, overtaken>>
      /\ call[c].step # "install" /\ M!Verified(p)
  BY DEF M!Unlock, M!Begin, M!Idle, M!NoCall, M!Doing, M!history
<1>2. Holds(r)
  BY <1>1, VerifiedIsCurrent DEF Holds, NeedsKey, M!Doing
<1> HIDE DEF r
<1> QED
  BY <1>1, <1>2, OneCallMoves

LEMMA SaveProfileKeys ==
    ASSUME FitInv, KeysInv, NEW c \in Callers, NEW i \in Profiles \cup {Absent},
           M!SaveProfile(c, i)
    PROVE  KeysInv'
<1>1. PICK step \in {"encrypt", "load"} :
        call' = [call EXCEPT ![c] = M!Doing(step, keyBox, NoKey, i, Blank, Blank)]
  BY DEF M!SaveProfile
<1> DEFINE r == M!Doing(step, keyBox, NoKey, i, Blank, Blank)
<1>2. /\ UNCHANGED <<keyBox, M!stored>>
      /\ call[c].step # "install" /\ keyBox # NoKey /\ M!ReadsKey(c)
  BY DEF M!SaveProfile, M!Begin, M!Idle, M!NoCall, M!Doing
<1>3. overtaken' \ {c} = overtaken \ {c} /\ (c \notin overtaken' => keyBox = M!CurrentKey)
  BY <1>2, ReadsCurrentKey
<1>4. c \notin overtaken' => Holds(r)
  BY <1>3 DEF Holds, NeedsKey, M!Doing
<1>5. call' = [call EXCEPT ![c] = r]
  BY <1>1
<1> HIDE DEF r
<1> QED
  BY <1>2, <1>3, <1>4, <1>5, OneCallMoves

\* The fields that SaveProfile prepares are under the current key.
LEMMA PreparedKeys ==
    ASSUME FitInv, KeysInv, NEW c \in Callers, call[c].step \in {"encrypt", "load"}, NEW s,
           c \notin overtaken => s = M!CurrentKey,
           M!Prepared(c, s), UNCHANGED <<keyBox, M!stored, overtaken>>
    PROVE  KeysInv'
<1>1. PICK t \in {call[c].key, Blank} :
        call' = [call EXCEPT ![c] = M!Doing("write", call[c].key, NoKey, call[c].profile, s, t)]
  BY DEF M!Prepared
<1> DEFINE r == M!Doing("write", call[c].key, NoKey, call[c].profile, s, t)
<1>2. c \notin overtaken => call[c].key = M!CurrentKey /\ keyBox = M!CurrentKey
  BY DEF KeysInv, CallsAreCurrent, Holds, NeedsKey
<1>3. c \notin overtaken => Holds(r)
  BY <1>2 DEF M!Doing, Holds, NeedsKey
<1>4. call' = [call EXCEPT ![c] = r]
  BY <1>1
<1> HIDE DEF r
<1> QED
  BY <1>3, <1>4, OneCallMoves

LEMMA EncryptKeys ==
    ASSUME FitInv, KeysInv, NEW c \in Callers, M!Encrypt(c) PROVE KeysInv'
<1>1. call[c].step = "encrypt" /\ (c \notin overtaken => call[c].key = M!CurrentKey)
  BY DEF M!Encrypt, M!At, KeysInv, CallsAreCurrent, Holds
<1> QED
  BY <1>1, PreparedKeys DEF M!Encrypt, M!history

\* A call that returns after writing nothing.
LEMMA ReturnKeys ==
    ASSUME FitInv, KeysInv, NEW c \in Callers, call[c].step # "install", M!Return(c),
           UNCHANGED <<keyBox, M!stored>>
    PROVE  KeysInv'
  BY ReturnHistory, IdleHolds, OneCallMoves DEF M!Return

LEMMA RollbackKeys ==
    ASSUME FitInv, KeysInv, NEW c \in Callers, M!Rollback(c) PROVE KeysInv'
  BY ReturnKeys DEF M!Rollback, M!At

\* The existing secret that SaveProfile keeps is under the current key.
LEMMA LoadExistingKeys ==
    ASSUME FitInv, KeysInv, NEW c \in Callers, M!LoadExisting(c) PROVE KeysInv'
<1> DEFINE s == secret[call[c].profile]
<1>1. call[c].step = "load" /\ UNCHANGED <<keyBox, M!stored>> /\ call[c].profile \in Profiles
  BY DEF M!LoadExisting, M!At, FitInv, Fits
<1>2. CASE s \in {Absent, Blank}
  <2>1. M!Return(c)
    BY <1>2 DEF M!LoadExisting
  <2> QED
    BY <1>1, <2>1, ReturnKeys
<1>3. CASE s \notin {Absent, Blank}
  <2>1. s = M!CurrentKey
    BY <1>1, <1>3 DEF KeysInv, M!AllUnderCurrentKey, M!Exists
  <2>2. M!Prepared(c, s) /\ UNCHANGED overtaken
    BY <1>3 DEF M!LoadExisting
  <2> QED
    BY <1>1, <2>1, <2>2, PreparedKeys
<1> QED
  BY <1>2, <1>3

-----------------------------------------------------------------------------
(* Steps that write the database *)

\* A step that keeps the verifier and the KeyBox, writes fields that are under the
\* current key, and ends at most the call of c.
LEMMA FieldsKeys ==
    ASSUME FitInv, KeysInv, UNCHANGED <<keyBox, verifier>>,
           NEW c \in Callers, call[c].step # "install",
           UNCHANGED <<call, overtaken>> \/ M!Return(c),
           \A i \in Profiles : secret'[i] # Absent => /\ secret'[i] \in {M!CurrentKey, Blank}
                                                      /\ token'[i] \in {M!CurrentKey, Blank}
    PROVE  KeysInv'
<1>1. M!CurrentKey' = M!CurrentKey
  BY CurrentKeyKept
<1>2. /\ overtaken' \ {c} = overtaken \ {c}
      /\ \A d \in Callers : (call'[d] = call[d] /\ (d \in overtaken' <=> d \in overtaken))
                            \/ (d = c /\ call'[d] = M!NoCall)
  BY DEF M!Return, FitInv, M!TypeOK
<1>3. M!AllUnderCurrentKey'
  BY <1>1 DEF M!AllUnderCurrentKey, M!Exists
<1>4. CallsAreCurrent'
  <2> SUFFICES ASSUME NEW d \in Callers \ overtaken' PROVE Holds(call[d])'
    BY DEF CallsAreCurrent
  <2>1. Holds(call'[d])
    BY <1>2, IdleHolds DEF KeysInv, CallsAreCurrent
  <2> QED
    BY <2>1, <1>1 DEF Holds, NeedsKey
<1>5. KeyBoxIsCurrent'
  BY <1>1, <1>2 DEF KeysInv, KeyBoxIsCurrent
<1> QED
  BY <1>3, <1>4, <1>5 DEF KeysInv

LEMMA WriteKeys ==
    ASSUME FitInv, KeysInv, ~spoiled', NEW c \in Callers, M!Write(c) PROVE KeysInv'
<1>1. /\ call[c].step = "write" /\ M!Return(c) /\ UNCHANGED <<keyBox, verifier>>
      /\ (c \notin overtaken => /\ call[c].secret = M!CurrentKey
                               /\ call[c].token \in {M!CurrentKey, Blank})
  BY DEF M!Write, M!At, KeysInv, CallsAreCurrent, Holds
<1>2. CASE UNCHANGED <<secret, token>>
  BY <1>1, <1>2, FieldsKeys DEF KeysInv, M!AllUnderCurrentKey, M!Exists
<1>3. ASSUME NEW i \in Profiles, M!TakesEffect(c),
             secret' = [secret EXCEPT ![i] = call[c].secret],
             token' = [token EXCEPT ![i] = call[c].token]
      PROVE  KeysInv'
  <2>1. c \notin overtaken
    BY <1>3 DEF M!TakesEffect
  <2>2. \A j \in Profiles : secret'[j] # Absent => /\ secret'[j] \in {M!CurrentKey, Blank}
                                                   /\ token'[j] \in {M!CurrentKey, Blank}
    BY <1>1, <1>3, <2>1 DEF KeysInv, M!AllUnderCurrentKey, M!Exists, FitInv, M!TypeOK
  <2> QED
    BY <1>1, <2>2, FieldsKeys
<1> QED
  BY <1>2, <1>3 DEF M!Write

LEMMA DeleteProfileKeys ==
    ASSUME FitInv, KeysInv, NEW c \in Callers, NEW i \in Profiles, M!DeleteProfile(c, i)
    PROVE  KeysInv'
<1>1. /\ call[c].step # "install" /\ UNCHANGED <<keyBox, verifier, call, overtaken>>
      /\ secret' = [secret EXCEPT ![i] = Absent] /\ token' = [token EXCEPT ![i] = Blank]
  BY DEF M!DeleteProfile, M!Begin, M!Idle, M!NoCall, M!Doing, M!history
<1>2. \A j \in Profiles : secret'[j] # Absent => /\ secret'[j] \in {M!CurrentKey, Blank}
                                                 /\ token'[j] \in {M!CurrentKey, Blank}
  BY <1>1 DEF KeysInv, M!AllUnderCurrentKey, M!Exists, FitInv, M!TypeOK
<1> QED
  BY <1>1, <1>2, FieldsKeys

LEMMA ImportProfilesKeys ==
    ASSUME FitInv, KeysInv, NEW c \in Callers, M!ImportProfiles(c) PROVE KeysInv'
<1>1. PICK i \in Profiles : ~M!Exists(i) /\ secret' = [secret EXCEPT ![i] = Blank]
  BY DEF M!ImportProfiles
<1>2. call[c].step # "install" /\ UNCHANGED <<keyBox, verifier, token, call, overtaken>>
  BY DEF M!ImportProfiles, M!Begin, M!Idle, M!NoCall, M!Doing, M!history
<1>3. token[i] = Blank
  BY <1>1 DEF FitInv, AbsentIsEmpty
<1>4. \A j \in Profiles : secret'[j] # Absent => /\ secret'[j] \in {M!CurrentKey, Blank}
                                                 /\ token'[j] \in {M!CurrentKey, Blank}
  BY <1>1, <1>2, <1>3 DEF KeysInv, M!AllUnderCurrentKey, M!Exists, FitInv, M!TypeOK
<1> QED
  BY <1>2, <1>4, FieldsKeys

-----------------------------------------------------------------------------
(* The steps that change the key, and the restart *)

\* The transaction moves every field and the verifier to the new key together, and
\* overtakes whatever else is under way.
LEMMA CommitKeys ==
    ASSUME FitInv, KeysInv, ~spoiled', NEW c \in Callers, M!Commit(c) PROVE KeysInv'
<1> DEFINE k == call[c].newKey
<1>1. call[c].step = "commit" /\ k \in M!Keys
  BY DEF M!Commit, M!At, FitInv, Fits
<1>2. M!CurrentKey' = k
  BY <1>1, SecretsAssumption
  DEF M!PasswordAssumption, M!Commit, M!VerifierOf, M!CurrentKey, M!Keys
<1>3. /\ call' = [call EXCEPT ![c].step = "install"]
      /\ overtaken' = {d \in Callers \ {c} : ~M!Idle(d)}
  BY DEF M!Commit, M!Goto, M!Overtakes
<1>4. call'[c].step = "install" /\ call'[c].newKey = k
  BY <1>3 DEF FitInv, M!TypeOK, M!CallType
<1>5. \A d \in Callers \ overtaken' : d = c \/ call'[d] = M!NoCall
  BY <1>3 DEF FitInv, M!TypeOK, M!Idle
<1>6. /\ \A i \in Profiles : secret'[i] = IF M!Exists(i) THEN k ELSE Absent
      /\ \A i \in Profiles : token'[i] = IF token[i] = Blank THEN Blank ELSE k
  BY DEF M!Commit
<1>7. M!AllUnderCurrentKey'
  BY <1>2, <1>6 DEF M!AllUnderCurrentKey, M!Exists
<1>8. CallsAreCurrent'
  BY <1>2, <1>4, <1>5 DEF CallsAreCurrent, Holds, NeedsKey, M!NoCall, M!Doing
<1>9. KeyBoxIsCurrent'
  BY <1>3, <1>4 DEF KeyBoxIsCurrent
<1> QED
  BY <1>7, <1>8, <1>9 DEF KeysInv

LEMMA InstallIsCurrent ==
    ASSUME KeysInv, ~spoiled', NEW c \in Callers, M!Install(c) PROVE keyBox' = M!CurrentKey
  BY DEF M!Install, M!At, M!TakesEffect, KeysInv, CallsAreCurrent, Holds

\* The current key comes into the KeyBox.
LEMMA InstallKeys ==
    ASSUME FitInv, KeysInv, ~spoiled', NEW c \in Callers, M!Install(c) PROVE KeysInv'
<1>1. /\ keyBox' = M!CurrentKey /\ UNCHANGED M!stored
      /\ call' = [call EXCEPT ![c] = M!NoCall] /\ overtaken' = overtaken \ {c}
  BY InstallIsCurrent DEF M!Install, M!Return
<1>2. M!CurrentKey' = M!CurrentKey
  BY <1>1, CurrentKeyKept DEF M!stored
<1>3. M!AllUnderCurrentKey' /\ KeyBoxIsCurrent'
  BY <1>1, <1>2 DEF KeysInv, M!AllUnderCurrentKey, M!Exists, KeyBoxIsCurrent, M!stored
<1>4. CallsAreCurrent'
  <2> SUFFICES ASSUME NEW d \in Callers \ overtaken' PROVE Holds(call[d])'
    BY DEF CallsAreCurrent
  <2>1. Holds(call'[d])
    BY <1>1, IdleHolds DEF KeysInv, CallsAreCurrent, FitInv, M!TypeOK
  <2> QED
    BY <2>1, <1>1, <1>2 DEF Holds, NeedsKey
<1> QED
  BY <1>3, <1>4 DEF KeysInv

LEMMA RestartKeys == ASSUME FitInv, KeysInv, M!Restart PROVE KeysInv'
<1>1. /\ keyBox' \in {M!CurrentKey, NoKey} /\ UNCHANGED M!stored
      /\ call' = [c \in Callers |-> M!NoCall]
  BY DEF M!Restart, M!CurrentKey
<1>2. M!CurrentKey' = M!CurrentKey
  BY <1>1, CurrentKeyKept DEF M!stored
<1>3. M!AllUnderCurrentKey' /\ KeyBoxIsCurrent'
  BY <1>1, <1>2 DEF KeysInv, M!AllUnderCurrentKey, M!Exists, KeyBoxIsCurrent, M!stored
<1>4. CallsAreCurrent'
  BY <1>1, IdleHolds DEF CallsAreCurrent, Holds, NeedsKey, M!NoCall, M!Doing
<1> QED
  BY <1>3, <1>4 DEF KeysInv

\* What an overtaken call has spoiled stays so.
LEMMA SpoiledStays == ASSUME [M!Next]_(M!vars) PROVE spoiled => spoiled'
  BY DEF M!Next, M!vars, M!history, M!SetMasterPassword, M!RemoveMasterPassword, M!Unlock,
     M!Commit, M!Overtakes, M!Rollback, M!Install, M!SaveProfile, M!Encrypt, M!LoadExisting,
     M!Write, M!TakesEffect, M!DeleteProfile, M!ImportProfiles, M!Restart

LEMMA NextKeys ==
    ASSUME FitInv, KeysInv, ~spoiled', [M!Next]_(M!vars) PROVE KeysInv'
<1>1. ASSUME NEW c \in Callers, NEW p \in Passwords,
             M!SetMasterPassword(c, p) \/ M!RemoveMasterPassword(c, p) \/ M!Unlock(c, p)
      PROVE  KeysInv'
  BY <1>1, SetMasterPasswordKeys, RemoveMasterPasswordKeys, UnlockKeys
<1>2. ASSUME NEW c \in Callers, M!Commit(c) \/ M!Rollback(c) \/ M!Install(c) PROVE KeysInv'
  BY <1>2, CommitKeys, RollbackKeys, InstallKeys
<1>3. ASSUME NEW c \in Callers, NEW i \in Profiles \cup {Absent}, M!SaveProfile(c, i)
      PROVE  KeysInv'
  BY <1>3, SaveProfileKeys
<1>4. ASSUME NEW c \in Callers, M!Encrypt(c) \/ M!LoadExisting(c) \/ M!Write(c)
      PROVE  KeysInv'
  BY <1>4, EncryptKeys, LoadExistingKeys, WriteKeys
<1>5. ASSUME NEW c \in Callers, NEW i \in Profiles, M!DeleteProfile(c, i) PROVE KeysInv'
  BY <1>5, DeleteProfileKeys
<1>6. ASSUME NEW c \in Callers, M!ImportProfiles(c) PROVE KeysInv'
  BY <1>6, ImportProfilesKeys
<1>7. CASE M!Restart
  BY <1>7, RestartKeys
<1>8. CASE UNCHANGED M!vars
  BY <1>8
  DEF M!vars, M!stored, M!history, KeysInv, M!AllUnderCurrentKey, M!Exists, M!CurrentKey,
      CallsAreCurrent, Holds, NeedsKey, KeyBoxIsCurrent
<1> QED
  BY <1>1, <1>2, <1>3, <1>4, <1>5, <1>6, <1>7, <1>8 DEF M!Next

LEMMA NextPassword == ASSUME PasswordInv, [M!Next]_(M!vars) PROVE PasswordInv'
  BY NextFit, NextKeys, SpoiledStays DEF PasswordInv

-----------------------------------------------------------------------------
(* Theorems on the password *)

LEMMA PasswordAlways == MCSpec => []PasswordInv
<1>1. PasswordInv /\ [M!Next]_(M!vars) => PasswordInv'
  BY NextPassword
<1> QED
  BY <1>1, InitPassword, SpecIsPassword, PTL DEF M!Spec

\* Every variable keeps its type, and until a call takes effect that a password change has
\* overtaken, no stored credential is ever under another key than the one the verifier
\* stands for: SetMasterPassword's transaction, whatever overlaps and whenever the process
\* ends.
THEOREM NoMixedKeysAlways == MCSpec => []NoMixedKeys
<1>1. PasswordInv => NoMixedKeys
  BY DEF PasswordInv, FitInv, KeysInv, NoMixedKeys, M!NoMixedKeys
<1> QED
  BY <1>1, PasswordAlways, PTL

\* Until then, and between the calls, an unlocked application can decrypt what is stored;
\* and so can a password change under way that no other one has overtaken, but for blank
\* imported secrets.
THEOREM UnlockedIsReadableAlways == MCSpec => []UnlockedIsReadable
<1>1. PasswordInv => M!UnlockedIsReadable
  BY DEF PasswordInv, KeysInv, KeyBoxIsCurrent, M!UnlockedIsReadable, M!Idle, M!NoCall, M!Doing
<1>2. PasswordInv => M!OnlyBlankRefuses
  BY DEF PasswordInv, FitInv, KeysInv, M!AllUnderCurrentKey, CallsAreCurrent, Holds,
     M!OnlyBlankRefuses, M!Reencryptable, M!At, M!Exists, M!TypeOK
<1>3. M!UnlockedIsReadable /\ M!OnlyBlankRefuses => UnlockedIsReadable
  BY DEF UnlockedIsReadable
<1> QED
  BY <1>1, <1>2, <1>3, PasswordAlways, PTL

\* Until then, the KeyBox gets a key only from a verified password, from a new one that was
\* committed, or at a start without one.
THEOREM LockedUntilVerifiedAlways == MCSpec => M!LockedUntilVerified
<1> DEFINE Verifies ==
      ~spoiled' /\ keyBox' # keyBox /\ keyBox' # NoKey => keyBox' = M!CurrentKey
<1>1. ASSUME PasswordInv, [M!Next]_(M!vars) PROVE [Verifies]_(M!vars)
  <2>1. ASSUME NEW c \in Callers, M!Install(c) PROVE Verifies
    BY <1>1, <2>1, InstallIsCurrent, SpoiledStays DEF PasswordInv
  <2>2. CASE M!Restart
    BY <2>2 DEF M!Restart, M!CurrentKey
  <2>3. CASE UNCHANGED keyBox
    BY <2>3
  <2> QED
    BY <1>1, <2>1, <2>2, <2>3
    DEF M!Next, M!vars, M!SetMasterPassword, M!RemoveMasterPassword, M!Unlock, M!Commit,
        M!Rollback, M!SaveProfile, M!Encrypt, M!LoadExisting, M!Write, M!DeleteProfile,
        M!ImportProfiles
<1>2. PasswordInv /\ [M!Next]_(M!vars) => [Verifies]_(M!vars)
  BY <1>1
<1> QED
  BY <1>2, PasswordAlways, SpecIsPassword, PTL
  DEF M!Spec, M!LockedUntilVerified

-----------------------------------------------------------------------------
(* The vault *)

LEMMA InitVault == M!Init => Vault!Init
<1> SUFFICES ASSUME M!Init PROVE Vault!Init
  OBVIOUS
<1>1. M!CurrentKey = Machine /\ keyBox = Machine /\ \A i \in Profiles : Credential(i) = "none"
  BY DEF M!Init, M!CurrentKey, Credential
<1> QED
  BY <1>1 DEF Vault!Init

\* What the stored fields are to the vault.
LEMMA Readable ==
    ASSUME KeysInv, NEW i \in Profiles
    PROVE  Credential(i) = IF secret[i] = Absent THEN "none"
                           ELSE IF secret[i] = Blank THEN "blank" ELSE "kept"
  BY DEF KeysInv, M!AllUnderCurrentKey, M!Exists, Credential

\* A call that needs a key has the current one, unless it is overtaken.
LEMMA NeedIsOpen ==
    ASSUME KeysInv, NEW c \in Callers \ overtaken, NeedsKey(call[c]) PROVE Vault!Open
  BY DEF KeysInv, CallsAreCurrent, Holds, Vault!Open

\* The vault rests while nothing is stored and the KeyBox is left alone.
LEMMA VaultRests ==
    ASSUME UNCHANGED <<keyBox, verifier, secret, token>> PROVE UNCHANGED Vault!vault
<1>1. M!CurrentKey' = M!CurrentKey
  BY CurrentKeyKept
<1>2. \A i \in Profiles : Credential(i)' = Credential(i)
  BY <1>1 DEF Credential
<1> QED
  BY <1>1, <1>2 DEF Vault!vault

\* With the key as it is, the credentials change as the fields do.
LEMMA OneCredential ==
    ASSUME FitInv, KeysInv, KeysInv', NEW i \in Profiles, verifier' = verifier,
           NEW s, secret' = [secret EXCEPT ![i] = s],
           NEW v, v = IF s = Absent THEN "none" ELSE IF s = Blank THEN "blank" ELSE "kept"
    PROVE  [j \in Profiles |-> Credential(j)]' =
             [[j \in Profiles |-> Credential(j)] EXCEPT ![i] = v]
<1>1. secret'[i] = s /\ \A j \in Profiles \ {i} : secret'[j] = secret[j]
  BY DEF FitInv, M!TypeOK
<1>2. \A j \in Profiles : Credential(j)' = IF secret'[j] = Absent THEN "none"
                                          ELSE IF secret'[j] = Blank THEN "blank" ELSE "kept"
  BY DEF KeysInv, M!AllUnderCurrentKey, M!Exists, Credential
<1>3. Credential(i)' = v /\ \A j \in Profiles \ {i} : Credential(j)' = Credential(j)
  BY <1>1, <1>2, Readable
<1> QED
  BY <1>3

\* The transaction of SetMasterPassword and RemoveMasterPassword changes the key.
LEMMA CommitChangesKey ==
    ASSUME FitInv, KeysInv, KeysInv', ~spoiled', NEW c \in Callers, M!Commit(c)
    PROVE  Vault!ChangeKey(call[c].newKey) /\ call[c].newKey \in M!Keys
<1> DEFINE k == call[c].newKey
<1>1. /\ call[c].step = "commit" /\ call[c] \in M!CallType /\ k \in M!Keys /\ keyBox' = keyBox
      /\ c \notin overtaken
  BY DEF M!Commit, M!At, M!Overtakes, M!TakesEffect, FitInv, M!TypeOK, Fits
<1>2. M!CurrentKey' = k
  BY <1>1, SecretsAssumption
  DEF M!PasswordAssumption, M!Commit, M!VerifierOf, M!CurrentKey, M!Keys
<1>3. Vault!Open \/ k = Machine
  BY <1>1, NeedIsOpen DEF NeedsKey
<1>4. \A i \in Profiles : Credential(i)' = Credential(i)
  <2> SUFFICES ASSUME NEW i \in Profiles PROVE Credential(i)' = Credential(i)
    OBVIOUS
  <2>1. CASE secret[i] = Absent
    BY <2>1 DEF M!Commit, M!Exists, Credential
  <2>2. CASE secret[i] # Absent
    <3>1. secret[i] # Blank
      BY <1>1, <2>2, SecretsAssumption
      DEF M!PasswordAssumption, M!Commit, M!Reencryptable, M!Exists, M!CallType
    <3>2. secret'[i] = k /\ k \notin {Absent, Blank}
      BY <1>1, <2>2, SecretsAssumption DEF M!PasswordAssumption, M!Commit, M!Exists
    <3>3. Credential(i) = "kept"
      BY <2>2, <3>1, Readable
    <3>4. Credential(i)' = "kept"
      BY <1>2, <3>2 DEF KeysInv, M!AllUnderCurrentKey, M!Exists, Credential
    <3> QED
      BY <3>3, <3>4
  <2> QED
    BY <2>1, <2>2
<1> QED
  BY <1>1, <1>2, <1>3, <1>4 DEF Vault!ChangeKey, Vault!Open

\* The KeyBox is set, or is empty after a restart.
LEMMA KeyBoxTaken ==
    ASSUME UNCHANGED M!stored, keyBox' \in {M!CurrentKey, NoKey}
    PROVE  Vault!TakeKey \/ Vault!LoseKey
<1>1. M!CurrentKey' = M!CurrentKey
  BY CurrentKeyKept DEF M!stored
<1>2. \A i \in Profiles : Credential(i)' = Credential(i)
  BY <1>1 DEF M!stored, Credential
<1> QED
  BY <1>1, <1>2 DEF Vault!TakeKey, Vault!LoseKey

LEMMA WritePuts ==
    ASSUME FitInv, KeysInv, KeysInv', ~spoiled', NEW c \in Callers, M!Write(c)
    PROVE  [\E i \in Profiles : Vault!Put(i)]_(Vault!vault)
<1>1. call[c].step = "write" /\ UNCHANGED <<keyBox, verifier>>
  BY DEF M!Write, M!At
<1>2. M!CurrentKey' = M!CurrentKey /\ M!CurrentKey \notin {Absent, Blank}
  BY <1>1, CurrentKeyKept, CurrentKeyIsKey DEF FitInv
<1>3. CASE UNCHANGED <<secret, token>>
  BY <1>1, <1>3, VaultRests
<1>4. ASSUME NEW i \in Profiles, M!TakesEffect(c),
             secret' = [secret EXCEPT ![i] = call[c].secret]
      PROVE  Vault!Put(i)
  <2>1. c \notin overtaken /\ call[c].secret = M!CurrentKey
    BY <1>1, <1>4 DEF M!TakesEffect, KeysInv, CallsAreCurrent, Holds
  <2>2. [j \in Profiles |-> Credential(j)]' =
          [[j \in Profiles |-> Credential(j)] EXCEPT ![i] = "kept"]
    BY <1>1, <1>2, <1>4, <2>1, OneCredential
  <2>3. Vault!Open
    BY <1>1, <2>1, NeedIsOpen DEF NeedsKey
  <2> QED
    BY <1>1, <1>2, <2>2, <2>3 DEF Vault!Put
<1> QED
  BY <1>3, <1>4 DEF M!Write

LEMMA DeleteDeletes ==
    ASSUME FitInv, KeysInv, KeysInv', NEW c \in Callers, NEW i \in Profiles,
           M!DeleteProfile(c, i)
    PROVE  Vault!Delete(i)
<1>1. UNCHANGED <<keyBox, verifier>> /\ secret' = [secret EXCEPT ![i] = Absent]
  BY DEF M!DeleteProfile
<1>2. M!CurrentKey' = M!CurrentKey
  BY <1>1, CurrentKeyKept
<1>3. [j \in Profiles |-> Credential(j)]' =
        [[j \in Profiles |-> Credential(j)] EXCEPT ![i] = "none"]
  BY <1>1, OneCredential
<1> QED
  BY <1>1, <1>2, <1>3 DEF Vault!Delete

LEMMA ImportImports ==
    ASSUME FitInv, KeysInv, KeysInv', NEW c \in Callers, M!ImportProfiles(c)
    PROVE  \E i \in Profiles : Vault!Import(i)
<1>1. PICK i \in Profiles : ~M!Exists(i) /\ secret' = [secret EXCEPT ![i] = Blank]
  BY DEF M!ImportProfiles
<1>2. UNCHANGED <<keyBox, verifier>>
  BY DEF M!ImportProfiles
<1>3. M!CurrentKey' = M!CurrentKey
  BY <1>2, CurrentKeyKept
<1>4. [j \in Profiles |-> Credential(j)]' =
        [[j \in Profiles |-> Credential(j)] EXCEPT ![i] = "blank"]
  BY <1>1, <1>2, SecretsAssumption, OneCredential DEF M!PasswordAssumption
<1>5. Credential(i) = "none"
  BY <1>1 DEF M!Exists, Credential
<1> QED
  BY <1>2, <1>3, <1>4, <1>5 DEF Vault!Import

LEMMA NextVault ==
    ASSUME FitInv, KeysInv, KeysInv', ~spoiled', [M!Next]_(M!vars)
    PROVE  [Vault!Next]_(Vault!vault)
<1>1. ASSUME NEW c \in Callers, M!Commit(c) PROVE Vault!Next
  BY <1>1, CommitChangesKey DEF Vault!Next
<1>2. ASSUME NEW c \in Callers, M!Install(c) PROVE Vault!Next
  <2>1. keyBox' = M!CurrentKey /\ UNCHANGED M!stored
    BY <1>2, InstallIsCurrent DEF M!Install
  <2> QED
    BY <2>1, KeyBoxTaken DEF Vault!Next
<1>3. CASE M!Restart
  <2>1. keyBox' \in {M!CurrentKey, NoKey} /\ UNCHANGED M!stored
    BY <1>3 DEF M!Restart, M!CurrentKey
  <2> QED
    BY <2>1, KeyBoxTaken DEF Vault!Next
<1>4. ASSUME NEW c \in Callers, M!Write(c) PROVE [Vault!Next]_(Vault!vault)
  BY <1>4, WritePuts DEF Vault!Next
<1>5. ASSUME NEW c \in Callers, NEW i \in Profiles, M!DeleteProfile(c, i) PROVE Vault!Next
  BY <1>5, DeleteDeletes DEF Vault!Next
<1>6. ASSUME NEW c \in Callers, M!ImportProfiles(c) PROVE Vault!Next
  BY <1>6, ImportImports DEF Vault!Next
<1>7. ASSUME UNCHANGED <<keyBox, M!stored>> PROVE UNCHANGED Vault!vault
  BY <1>7, VaultRests DEF M!stored
<1> QED
  BY <1>1, <1>2, <1>3, <1>4, <1>5, <1>6, <1>7
  DEF M!Next, M!vars, M!SetMasterPassword, M!RemoveMasterPassword, M!Unlock, M!Rollback,
      M!SaveProfile, M!Encrypt, M!LoadExisting

\* SetMasterPassword, RemoveMasterPassword, Unlock, the changes of profiles and the restarts
\* implement CredentialVault, whatever they interleave with and wherever they are cut, up
\* to the first effect of a call that a password change has overtaken.
THEOREM ImplementsVaultAlways == MCSpec => ImplementsVault
<1>1. PasswordInv /\ PasswordInv' /\ [M!Next]_(M!vars)
        => [spoiled' \/ Vault!Next]_(Vault!vault)
  <2> SUFFICES ASSUME PasswordInv, PasswordInv', [M!Next]_(M!vars), ~spoiled'
               PROVE  [Vault!Next]_(Vault!vault)
    OBVIOUS
  <2>1. FitInv /\ KeysInv /\ KeysInv'
    BY SpoiledStays DEF PasswordInv
  <2> QED
    BY <2>1, NextVault
<1> QED
  BY <1>1, InitVault, PasswordAlways, SpecIsPassword, PTL DEF M!Spec, ImplementsVault

=============================================================================
