--------------------------- MODULE SchemaMigrations ----------------------------
(* The database is brought to the schema of the program that opens it            *)
(* (db/migrate.py): one transaction for each migration, after a snapshot of what *)
(* was there, while statements fail, the process stops anywhere, programs of     *)
(* other versions are started, and the library is used in between.               *)
EXTENDS Naturals, FiniteSets

CONSTANTS
  LastSchema,       \* migrations there are in the newest program, 1 to LastSchema
  Rebuilding,       \* those with rebuilds_referenced_table
  MaxStarts,        \* bound: starts of a program
  MaxMigrateFaults, \* bound: statements that fail, stops, and rows that lose what they refer to
  MaxEntries        \* bound: changes of the content by the running program

ASSUME SchemasAssumption == LastSchema \in Nat /\ MaxStarts \in Nat /\ MaxMigrateFaults \in Nat /\ MaxEntries \in Nat

VARIABLES
  db,               \* the database as committed
  writing,          \* the transaction under way, or the committed state
  program,          \* the program that runs: its latest schema and where it stands
  snapshots,        \* the files in snapshots/: the database each holds, whole or not
  starts, migrateFaults

schemaVars == <<db, writing, program, snapshots, starts, migrateFaults>>

Schemas == 1 .. LastSchema
Parts == {"tables", "rows"}             \* a migration is more than one statement
Statements == Schemas \X Parts
NoProgram == [latest |-> 0, pc |-> "stopped", from |-> 0]

SchemaInit ==
  /\ db = [version |-> 0, done |-> {}, dangling |-> FALSE, content |-> 0] /\ writing = db
  /\ program = NoProgram /\ snapshots = {}
  /\ starts = 0 /\ migrateFaults = 0

Databases == [version : 0 .. LastSchema, done : SUBSET Statements, dangling : BOOLEAN, content : 0 .. MaxEntries]

SchemaTypeOK ==
  /\ db \in Databases /\ writing \in Databases
  /\ program.latest \in 0 .. LastSchema /\ program.from \in 0 .. LastSchema
  /\ program.pc \in {"stopped", "snapshot", "copying", "next", "migrating", "serving"}
  /\ \A s \in snapshots : s.db \in Databases /\ s.whole \in BOOLEAN

-----------------------------------------------------------------------------
Pending == db.version < program.latest
Migration == db.version + 1

(* What changes an existing database copies it first.                            *)
NeverCopied == db.version > 0 /\ ~ \E s \in snapshots : s.db.version = db.version   \* mutant: once for each version
NeedsSnapshot == db.version > 0

(* A program opens the database; one that is older than the schema refuses it.   *)
StartProgram(latest) ==
  /\ program.pc = "stopped" /\ starts < MaxStarts /\ starts' = starts + 1
  /\ IF db.version > latest THEN UNCHANGED program
     ELSE program' = [latest |-> latest, from |-> db.version,
                      pc |-> IF db.version = latest THEN "serving" ELSE IF NeedsSnapshot THEN "snapshot" ELSE "next"]
  /\ UNCHANGED <<db, writing, snapshots, migrateFaults>>

(* The snapshot has a name of its own; it is whole when the copy is complete.    *)
BeginSnapshot ==
  /\ program.pc = "snapshot"
  /\ snapshots' = snapshots \cup {[db |-> db, whole |-> FALSE]}
  /\ program' = [program EXCEPT !.pc = "copying"]
  /\ UNCHANGED <<db, writing, starts, migrateFaults>>

EndSnapshot ==
  /\ program.pc = "copying"
  /\ snapshots' = (snapshots \ {[db |-> db, whole |-> FALSE]}) \cup {[db |-> db, whole |-> TRUE]}
  /\ program' = [program EXCEPT !.pc = "next"]
  /\ UNCHANGED <<db, writing, starts, migrateFaults>>

(* BEGIN IMMEDIATE and the statements of the next migration, one by one. With    *)
(* foreign keys off, a rebuild can leave a row that refers to nothing.           *)
BeginMigration ==
  /\ program.pc = "next" /\ Pending
  /\ program' = [program EXCEPT !.pc = "migrating"] /\ writing' = db
  /\ UNCHANGED <<db, snapshots, starts, migrateFaults>>

ExecuteStatement ==
  /\ program.pc = "migrating"
  /\ \E p \in Parts, loses \in BOOLEAN :
       /\ <<Migration, p>> \notin writing.done
       /\ loses => Migration \in Rebuilding /\ migrateFaults < MaxMigrateFaults
       /\ writing' = [writing EXCEPT !.done = @ \cup {<<Migration, p>>}, !.dangling = IF loses THEN TRUE ELSE @]
       /\ migrateFaults' = IF loses THEN migrateFaults + 1 ELSE migrateFaults
  /\ UNCHANGED <<db, program, snapshots, starts>>

(* PRAGMA foreign_key_check, of a migration that rebuilds.                       *)
Violations == Migration \in Rebuilding /\ writing.dangling
AllExecuted == \A p \in Parts : <<Migration, p>> \in writing.done

CommitMigration ==
  /\ program.pc = "migrating" /\ AllExecuted /\ ~Violations
  /\ db' = [writing EXCEPT !.version = Migration] /\ writing' = db'
  /\ program' = [program EXCEPT !.pc = IF Migration < program.latest THEN "next" ELSE "serving"]
  /\ UNCHANGED <<snapshots, starts, migrateFaults>>

(* ROLLBACK, and the program does not start.                                     *)
KeepsWhatWasDone == db' = writing       \* mutant: statements that succeeded stay
RolledBack == UNCHANGED db

MigrationFails ==
  /\ program.pc = "migrating"
  /\ \/ AllExecuted /\ Violations /\ UNCHANGED migrateFaults
     \/ ~AllExecuted /\ migrateFaults < MaxMigrateFaults /\ migrateFaults' = migrateFaults + 1
  /\ RolledBack /\ program' = NoProgram /\ writing' = db'
  /\ UNCHANGED <<snapshots, starts>>

(* The process ends, also in the middle of a snapshot or a transaction.          *)
ProgramStops ==
  /\ program.pc # "stopped"
  /\ IF program.pc = "serving" THEN UNCHANGED migrateFaults
     ELSE migrateFaults < MaxMigrateFaults /\ migrateFaults' = migrateFaults + 1
  /\ program' = NoProgram /\ writing' = db          \* what is not committed is rolled back
  /\ UNCHANGED <<db, snapshots, starts>>

(* The program that runs changes the library.                                    *)
LibraryChanges ==
  /\ program.pc = "serving" /\ db.content < MaxEntries
  /\ db' = [db EXCEPT !.content = @ + 1] /\ writing' = db'
  /\ UNCHANGED <<program, snapshots, starts, migrateFaults>>

SchemaNext ==
  \/ \E latest \in Schemas : StartProgram(latest)
  \/ BeginSnapshot \/ EndSnapshot
  \/ BeginMigration \/ ExecuteStatement \/ CommitMigration \/ MigrationFails
  \/ ProgramStops \/ LibraryChanges

-----------------------------------------------------------------------------
(* "a failure leaves the database at the previous version and a re-run resumes   *)
(* cleanly": what is committed is all of the migrations up to its version, of no *)
(* other one anything, and no row refers to nothing.                             *)
SchemaIsItsVersion == db.done = (1 .. db.version) \X Parts /\ ~db.dangling

(* "Before changing an existing database, a consistent copy is taken": every     *)
(* migration of one starts from a content that some whole snapshot holds, in the *)
(* schema it was in.                                                             *)
ChangedAfterSnapshot ==
  [][db'.version # db.version /\ program.from > 0 =>
       \E s \in snapshots : s.whole /\ s.db.version = program.from /\ s.db.content = db.content]_schemaVars
=============================================================================
