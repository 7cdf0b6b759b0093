-------------------------- MODULE DatabaseOpening --------------------------
(***************************************************************************)
(* What newApp (app.go) does with the database before a window is shown:   *)
(* OpenDB applies the pending migrations one transaction at a time,        *)
(* resolveCryptoSalt reads or creates the salt of the encryption key, and  *)
(* RecoverOrphanedTasks pauses the rows that a dead process left running.  *)
(* The database may be of any earlier release, the process may die between *)
(* any two steps, and nothing keeps the user from starting the program     *)
(* twice: Instances are the processes that share the file.                 *)
(*                                                                         *)
(* The queue is one row.  A transaction is SQLite's: it holds the one      *)
(* write lock, and until it commits nobody sees what it wrote.             *)
(***************************************************************************)
EXTENDS Integers, FiniteSets

CONSTANTS
    Instances,      \* processes of the program
    None,           \* no process
    MaxStarts       \* bound: how often the program is started

ASSUME InstancesAssumption == IsFiniteSet(Instances) /\ None \notin Instances
ASSUME StartsAssumption == MaxStarts \in Nat

VARIABLES
    db,         \* the database file as committed
    tx,         \* the open transaction
    inst,       \* what each process has read and where it is
    starts,     \* starts so far; the start that generates a salt names it
    raced       \* history: two processes were up before there was a salt

vars == <<db, tx, inst, starts, raced>>

-----------------------------------------------------------------------------
(* The schema, as far as the program's tables differ between releases.     *)

Versions == 1 .. 5
Tables == {"profiles", "transfer_queue", "transfer_history", "settings", "favorites"}
Types == {"upload", "download_zip", "copy_cross"}
Columns == {"proxy_url", "dest_profile_id"}

NoSalt == 0
Salts == 1 .. MaxStarts

NoRow == [type |-> "none", dest |-> FALSE, status |-> "none"]

Rows == {NoRow} \cup
    [type : Types, dest : BOOLEAN, status : {"pending", "running", "paused", "completed"}]

Empty ==
    [applied |-> {}, tables |-> {}, types |-> {}, columns |-> {},
     salt |-> NoSalt, secrets |-> {}, row |-> NoRow]

\* Whether the SQL of migration v runs on d without an error.
Executes(d, v) ==
    \/ v = 1 /\ d.tables \cap (Tables \ {"favorites"}) = {}
    \/ v = 2 /\ "favorites" \notin d.tables
    \/ v = 3 /\ "transfer_queue" \in d.tables /\ d.row.type # "copy_cross"
    \/ v = 4 /\ "profiles" \in d.tables /\ "proxy_url" \notin d.columns
    \/ v = 5 /\ "transfer_queue" \in d.tables

\* The tables after it. 0003 and 0005 rebuild the queue: the row is copied
\* column by column, and a column that is not listed is lost.
Migrated(d, v) ==
    CASE v = 1 -> [d EXCEPT !.tables = @ \cup (Tables \ {"favorites"}), !.types = {"upload"}]
      [] v = 2 -> [d EXCEPT !.tables = @ \cup {"favorites"}]
      [] v = 3 -> [d EXCEPT !.types = {"upload", "download_zip"},
                            !.columns = @ \ {"dest_profile_id"}, !.row.dest = FALSE]
      [] v = 4 -> [d EXCEPT !.columns = @ \cup {"proxy_url"}]
      [] v = 5 -> [d EXCEPT !.types = Types,
                            !.columns = @ \cup {"dest_profile_id"}, !.row.dest = FALSE]

\* The schema that the embedded files describe, version by version.
SchemaOf[k \in {0} \cup Versions] ==
    IF k = 0 THEN Empty ELSE [Migrated(SchemaOf[k - 1], k) EXCEPT !.applied = @ \cup {k}]

Process ==
    [pc : {"off", "apply", "migrate", "record", "commit", "salt", "create", "recover", "open"},
     start : 0 .. MaxStarts, seen : SUBSET Versions, salt : 0 .. MaxStarts + 1, runs : BOOLEAN]

Idle == [pc |-> "off", start |-> 0, seen |-> {}, salt |-> NoSalt, runs |-> FALSE]

NoTx == [by |-> None, version |-> 0, db |-> Empty]

\* A file of any release, with or without a queued row. A release that got
\* beyond its migrations created the salt: only a new file has none.
Init ==
    /\ \E k \in {0} \cup Versions :
         \E row \in {r \in Rows : /\ r.type \in SchemaOf[k].types \cup {"none"}
                                  /\ r.dest = (r.type = "copy_cross")
                                  /\ r.status \in {"none", "pending", "running"}} :
           LET made == IF k = 0 THEN NoSalt ELSE MaxStarts + 1 IN
             db = [applied |-> 1 .. k, tables |-> SchemaOf[k].tables,
                   types |-> SchemaOf[k].types, columns |-> SchemaOf[k].columns,
                   salt |-> made, secrets |-> {made} \ {NoSalt}, row |-> row]
    /\ tx = NoTx
    /\ inst = [i \in Instances |-> Idle]
    /\ starts = 0 /\ raced = FALSE

-----------------------------------------------------------------------------
(* Opening: OpenDB and migrations.Apply                                    *)

At(i, pc) == inst[i].pc = pc
Unlocked == tx.by = None

\* The process ends: log.Fatalf after an error, a crash, or the user quits.
\* SQLite rolls its transaction back.
Exit(i) ==
    /\ inst' = [inst EXCEPT ![i] = Idle]
    /\ tx' = IF tx.by = i THEN NoTx ELSE tx
    /\ UNCHANGED <<db, starts, raced>>

Start(i) ==
    /\ At(i, "off") /\ starts < MaxStarts
    /\ starts' = starts + 1
    /\ inst' = [inst EXCEPT ![i] = [Idle EXCEPT !.pc = "apply", !.start = starts']]
    /\ raced' = (raced \/ (db.salt = NoSalt /\ \E j \in Instances : ~At(j, "off")))
    /\ UNCHANGED <<db, tx>>

\* Apply creates its bookkeeping table if need be and reads it once.
ReadApplied(i) ==
    /\ At(i, "apply")
    /\ inst' = [inst EXCEPT ![i].pc = "migrate", ![i].seen = db.applied]
    /\ UNCHANGED <<db, tx, starts, raced>>

Pending(i) == Versions \ inst[i].seen

\* A fault: a migration whose SQL fails is tried again.
ExecAndRetry(i) ==
    /\ At(i, "migrate") /\ Pending(i) # {} /\ Unlocked
    /\ LET v == CHOOSE p \in Pending(i) : \A q \in Pending(i) : p <= q IN
         IF Executes(db, v)
         THEN /\ tx' = [by |-> i, version |-> v, db |-> Migrated(db, v)]
              /\ inst' = [inst EXCEPT ![i].pc = "record"]
              /\ UNCHANGED <<db, starts, raced>>
         ELSE UNCHANGED vars

\* applyOne opens a transaction for the lowest pending version and runs its
\* SQL. An error is the end of Apply, of OpenDB and of the process.
ExecMigration(i) ==
    /\ At(i, "migrate") /\ Pending(i) # {} /\ Unlocked
    /\ LET v == CHOOSE p \in Pending(i) : \A q \in Pending(i) : p <= q IN
         IF Executes(db, v)
         THEN /\ tx' = [by |-> i, version |-> v, db |-> Migrated(db, v)]
              /\ inst' = [inst EXCEPT ![i].pc = "record"]
              /\ UNCHANGED <<db, starts, raced>>
         ELSE Exit(i)

\* A fault: a version that is there already is no error.
RecordAnyway(i) ==
    /\ At(i, "record")
    /\ tx' = [tx EXCEPT !.db.applied = @ \cup {tx.version}]
    /\ inst' = [inst EXCEPT ![i].pc = "commit"]
    /\ UNCHANGED <<db, starts, raced>>

\* The version is the primary key of schema_migrations: a version another
\* process applied in the meantime is refused, and rolls the migration back.
RecordVersion(i) ==
    /\ At(i, "record")
    /\ IF tx.version \in tx.db.applied
       THEN Exit(i)
       ELSE /\ tx' = [tx EXCEPT !.db.applied = @ \cup {tx.version}]
            /\ inst' = [inst EXCEPT ![i].pc = "commit"]
            /\ UNCHANGED <<db, starts, raced>>

\* A fault: Apply returns after one migration.
CommitAndReturn(i) ==
    /\ At(i, "commit")
    /\ db' = tx.db
    /\ tx' = NoTx
    /\ inst' = [inst EXCEPT ![i].pc = "salt"]
    /\ UNCHANGED <<starts, raced>>

Commit(i) ==
    /\ At(i, "commit")
    /\ db' = tx.db
    /\ tx' = NoTx
    /\ inst' = [inst EXCEPT ![i].pc = "migrate", ![i].seen = @ \cup {tx.version}]
    /\ UNCHANGED <<starts, raced>>

Applied(i) ==
    /\ At(i, "migrate") /\ Pending(i) = {}
    /\ inst' = [inst EXCEPT ![i].pc = "salt"]
    /\ UNCHANGED <<db, tx, starts, raced>>

-----------------------------------------------------------------------------
(* resolveCryptoSalt: GetOrCreateSetting reads, generates and writes.      *)

\* A fault: the stored salt is not looked for.
GetSaltNever(i) ==
    /\ At(i, "salt")
    /\ inst' = [inst EXCEPT ![i].pc = "create"]
    /\ UNCHANGED <<db, tx, starts, raced>>

GetSalt(i) ==
    /\ At(i, "salt")
    /\ inst' = IF db.salt = NoSalt
               THEN [inst EXCEPT ![i].pc = "create"]
               ELSE [inst EXCEPT ![i].pc = "recover", ![i].salt = db.salt]
    /\ UNCHANGED <<db, tx, starts, raced>>

\* SetSetting is an upsert: it overwrites a salt written since the read.
CreateSalt(i) ==
    /\ At(i, "create") /\ Unlocked
    /\ db' = [db EXCEPT !.salt = inst[i].start]
    /\ inst' = [inst EXCEPT ![i].pc = "recover", ![i].salt = inst[i].start]
    /\ UNCHANGED <<tx, starts, raced>>

\* RecoverOrphanedTasks takes every running row for an orphan; its own
\* failure is logged and the program opens all the same.
RecoverOrphanedTasks(i) ==
    /\ At(i, "recover") /\ Unlocked
    /\ \/ db' = [db EXCEPT !.row.status = IF @ = "running" THEN "paused" ELSE @]
       \/ UNCHANGED db
    /\ inst' = [inst EXCEPT ![i].pc = "open"]
    /\ UNCHANGED <<tx, starts, raced>>

Opening(i) ==
    \/ ReadApplied(i)
    \/ ExecMigration(i)
    \/ RecordVersion(i)
    \/ Commit(i)
    \/ Applied(i)
    \/ GetSalt(i)
    \/ CreateSalt(i)
    \/ RecoverOrphanedTasks(i)

-----------------------------------------------------------------------------
(* What an open program does with the file.                                *)

\* SaveConnection encrypts a secret under the key of this process.
SaveConnection(i) ==
    /\ At(i, "open") /\ Unlocked
    /\ db' = [db EXCEPT !.secrets = @ \cup {inst[i].salt}]
    /\ UNCHANGED <<tx, inst, starts, raced>>

QueueTask(i) ==
    /\ At(i, "open") /\ Unlocked /\ db.row = NoRow
    /\ \E t \in db.types :
         db' = [db EXCEPT !.row = [type |-> t, dest |-> t = "copy_cross", status |-> "pending"]]
    /\ UNCHANGED <<tx, inst, starts, raced>>

\* dispatch starts a pending row, ResumeTask a paused one.
RunTask(i) ==
    /\ At(i, "open") /\ Unlocked
    /\ db.row.status \in {"pending", "paused"}
    /\ db' = [db EXCEPT !.row.status = "running"]
    /\ inst' = [inst EXCEPT ![i].runs = TRUE]
    /\ UNCHANGED <<tx, starts, raced>>

\* The goroutine's last write is by id, whatever the row says by then.
TaskCompletes(i) ==
    /\ inst[i].runs /\ Unlocked
    /\ db' = [db EXCEPT !.row.status = "completed"]
    /\ inst' = [inst EXCEPT ![i].runs = FALSE]
    /\ UNCHANGED <<tx, starts, raced>>

Next == \E i \in Instances :
    \/ Start(i)
    \/ Opening(i)
    \/ SaveConnection(i)
    \/ QueueTask(i)
    \/ RunTask(i)
    \/ TaskCompletes(i)
    \/ ~At(i, "off") /\ Exit(i)

Spec == Init /\ [][Next]_vars

\* newApp runs to its end in one goroutine; nobody has to start the program
\* again, to end it, or to use it.
FairSpec == Spec /\ \A i \in Instances : WF_vars(Opening(i))

-----------------------------------------------------------------------------
(* Properties                                                              *)

\* The shape of the state.
TypeOK ==
    /\ db \in [applied : SUBSET Versions, tables : SUBSET Tables, types : SUBSET Types,
               columns : SUBSET Columns, salt : 0 .. MaxStarts + 1,
               secrets : SUBSET (1 .. MaxStarts + 1), row : Rows]
    /\ tx.by \in Instances \cup {None}
    /\ inst \in [Instances -> Process]
    /\ starts \in 0 .. MaxStarts /\ raced \in BOOLEAN
    /\ \A i \in Instances : inst[i].pc \in {"record", "commit"} <=> tx.by = i

\* The committed tables are at every moment those of one release, the one
\* schema_migrations tells: no crash between a migration and its record and
\* no second process leaves half a migration, or one applied twice.
SchemaIsApplied ==
    \E k \in {0} \cup Versions :
        /\ db.applied = SchemaOf[k].applied
        /\ db.tables = SchemaOf[k].tables
        /\ db.types = SchemaOf[k].types
        /\ db.columns = SchemaOf[k].columns

\* A process past Apply works on the newest schema.
OpenIsCurrent ==
    \A i \in Instances :
        inst[i].pc \in {"salt", "create", "recover", "open"} => Versions \subseteq db.applied

\* The rebuilds of the queue lose nothing of a queued row: a task between two
\* connections keeps its destination, whichever process migrates when.
RowIsKept ==
    [][db.row # NoRow => /\ db'.row.type = db.row.type
                         /\ db'.row.dest = db.row.dest]_vars

\* Every start ends with an open program or with its exit: two processes that
\* migrate the same file do not wait for each other for ever.
StartEnds ==
    \A i \in Instances : At(i, "apply") ~> At(i, "off") \/ At(i, "open")

\* Every secret that was ever saved can be decrypted with the stored salt,
\* after every crash and beside any later process: the salt is written once,
\* unless a second process was started before the first had stored it.
SecretsReadable == ~raced => db.secrets \subseteq {db.salt}

\* GetOrCreateSetting and resolveCryptoSalt promise that every run returns the
\* one persisted salt. With two processes at once it does not hold.
SaltIsStored ==
    \A i \in Instances : inst[i].salt # NoSalt => inst[i].salt = db.salt

\* RecoverOrphanedTasks takes a row that is running at startup for one whose
\* goroutine is dead. With two processes at once it does not hold.
RecoveredIsOrphan ==
    db.row.status = "paused" => \A i \in Instances : ~inst[i].runs

\* The committed schema is always that of one release, and its rebuilds lose nothing of a
\* row, in every typed state.
SchemaIsKept == [](TypeOK /\ SchemaIsApplied) /\ RowIsKept

=============================================================================
