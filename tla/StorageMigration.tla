--------------------------- MODULE StorageMigration ---------------------------
(* The migration of a Storage Location to another directory                      *)
(* (storage/migration.py): plan, copy, verify, switch, reconcile, and the removal*)
(* of the old copy on request, while commits register files (an abstraction of   *)
(* CommitJournal), the process crashes and other programs use    *)
(* the destination.                                                              *)
EXTENDS Naturals, FiniteSets

CONSTANTS
  Planned,     \* relative paths the location has when the migration is planned
  Fresh,       \* relative paths that downloads add
  Original, Newer, Foreign, Empty,  \* contents of a file
  None,
  MaxMigrationCrashes, MaxMigrationFaults, MaxCommits   \* bounds: crashes, errors, commits

Paths == Planned \cup Fresh
Places == {"old", "new"}
Contents == {Original, Newer, Foreign}

VARIABLES
  file,      \* file[l][p]: what is at path p of the old and the new directory
  staged,    \* the migration's staged copies, by path
  linked,    \* the files of the destination that share their inode with a staged copy
  workspace, \* "none", "dir" or "owned": the staging directory and its owner.json
  staging,   \* the staged identity marker: None, Empty or Original
  marker,    \* the identity marker of the destination: None, Empty or Original
  rootAt,    \* where the root's row says that it is
  assets,    \* the assets table: None, or what was registered and its integrity
  migration, \* state of the migration's row, or None
  entry,     \* its files' rows: None, or their state and checksum
  worker,    \* where the worker is
  cursor,    \* the file it is at
  done,      \* the files it has passed
  commit,    \* a commit under way, with the directory it was told, or None
  stranded,  \* history: paths a commit wrote to a directory that was not the root any more
  migrationCrashes, migrationFaults, commits

markerVars == <<workspace, staging, marker>>
rowVars == <<migration, entry>>
workerVars == <<worker, cursor, done>>
libraryVars == <<rootAt, assets>>
commitVars == <<commit, stranded, commits>>
faultVars == <<migrationCrashes, migrationFaults>>
migrationVars == <<file, staged, linked, markerVars, rowVars, workerVars, libraryVars, commitVars, faultVars>>

MigrationStates == {"planned", "copying", "verifying", "switched", "completed", "failed", "old_copy_removed"}
WorkerSteps == {"idle", "begin", "own", "choose", "copy", "record", "publish", "mark", "verify",
        "open marker", "write marker", "publish marker", "switch", "remap", "reconcile", "complete"}

ASSUME MigrationAssumption ==
  /\ None \notin Paths \cup Contents \cup MigrationStates \cup {Empty}
  /\ None \notin [is : Contents, integrity : {"ok", "missing"}]
  /\ None \notin [state : {"pending", "copied", "verified"}, sum : Contents]
  /\ None \notin [path : Paths, at : Places, is : {Newer}]

MigrationInit ==
  /\ file = [l \in Places |-> [p \in Paths |-> IF l = "old" /\ p \in Planned THEN Original ELSE None]]
  /\ staged = [p \in Paths |-> None] /\ linked = {} /\ workspace = "none"
  /\ staging = None /\ marker = None /\ rootAt = "old"
  /\ assets = [p \in Paths |-> IF p \in Planned THEN [is |-> Original, integrity |-> "ok"] ELSE None]
  /\ migration = None /\ entry = [p \in Paths |-> None]
  /\ worker = "idle" /\ cursor = None /\ done = {} /\ commit = None /\ stranded = {}
  /\ migrationCrashes = 0 /\ migrationFaults = 0 /\ commits = 0

MigrationTypeOK ==
  /\ file \in [Places -> [Paths -> Contents \cup {None}]]
  /\ staged \in [Paths -> Contents \cup {None}] /\ linked \subseteq Paths
  /\ workspace \in {"none", "dir", "owned"}
  /\ staging \in {None, Empty, Original} /\ marker \in {None, Empty, Original, Foreign}
  /\ rootAt \in Places /\ migration \in MigrationStates \cup {None} /\ worker \in WorkerSteps
  /\ assets \in [Paths -> {None} \cup [is : Contents, integrity : {"ok", "missing"}]]
  /\ entry \in [Paths -> {None} \cup [state : {"pending", "copied", "verified"}, sum : Contents]]
  /\ cursor \in Paths \cup {None} /\ done \subseteq Paths
  /\ commit \in {None} \cup [path : Paths, at : Places, is : {Newer}]
  \* a file that shares its inode with a staged copy holds what was staged
  /\ \A p \in linked : staged[p] # None /\ file["new"][p] = staged[p]

Entries == {p \in Paths : entry[p] # None}

-----------------------------------------------------------------------------
(* plan(): checks the destination and takes the files that are registered now.   *)

Plan ==
  /\ migration = None
  /\ migration' = "planned"
  /\ entry' = [p \in Paths |-> IF assets[p] # None THEN [state |-> "pending", sum |-> assets[p].is] ELSE None]
  /\ worker' = "begin"
  /\ UNCHANGED <<markerVars, commitVars, libraryVars, faultVars, file, staged, linked, cursor, done>>

(* The user resumes a migration that is not complete.                            *)
Resume ==
  /\ migration \notin {None, "completed", "old_copy_removed"} /\ worker = "idle"
  /\ worker' = "begin"
  /\ UNCHANGED <<markerVars, commitVars, rowVars, libraryVars, faultVars, file, staged, linked, cursor, done>>

WorkerAt(l) == worker' = l
Fails == /\ migration' = "failed" /\ worker' = "idle" /\ cursor' = None /\ done' = {}

(* The staging directory is made and signed, or has to be this migration's, and  *)
(* so has a marker that is there already.                                        *)
Begin ==
  /\ worker = "begin"
  /\ IF workspace = "none"
     THEN workspace' = "dir" /\ WorkerAt("own") /\ UNCHANGED <<migration, cursor, done>>
     ELSE /\ IF workspace = "dir" \/ marker = Foreign \/ (marker # None /\ staging = None)
             THEN Fails
             ELSE migration' = "copying" /\ WorkerAt("choose") /\ UNCHANGED <<cursor, done>>
          /\ UNCHANGED workspace
  /\ UNCHANGED <<commitVars, libraryVars, faultVars, file, staged, linked, staging, marker, entry>>

Own ==
  /\ worker = "own"
  /\ workspace' = "owned" /\ migration' = "copying" /\ WorkerAt("choose")
  /\ UNCHANGED <<commitVars, libraryVars, faultVars, file, staged, linked, staging, marker, entry, cursor,
                 done>>

-----------------------------------------------------------------------------
(* Copying, file by file.  A file that is there already is ours only while its   *)
(* staged hard link proves it.                                                   *)

NeverOurs(p) == FALSE                      \* mutant: what is there is always a stranger's

IsOurs(p) == p \in linked

Choose ==
  /\ worker = "choose"
  /\ \E p \in Entries \ done :
       /\ cursor' = p
       /\ IF entry[p].state # "pending" THEN done' = done \cup {p} /\ UNCHANGED <<worker, migration>>
          ELSE IF file["new"][p] = None THEN WorkerAt("copy") /\ UNCHANGED <<done, migration>>
          ELSE IF IsOurs(p) THEN WorkerAt("mark") /\ UNCHANGED <<done, migration>>
          ELSE migration' = "failed" /\ worker' = "idle" /\ done' = {}
  /\ UNCHANGED <<markerVars, commitVars, libraryVars, faultVars, file, staged, linked, entry>>

(* The source must still hold what was registered; a staged copy that does not   *)
(* match is replaced.                                                            *)
CopyFile ==
  /\ worker = "copy"
  /\ IF file["old"][cursor] # entry[cursor].sum
     THEN Fails /\ UNCHANGED staged
     ELSE /\ staged' = [staged EXCEPT ![cursor] = entry[cursor].sum]
          /\ WorkerAt("publish")
          /\ UNCHANGED <<migration, cursor, done>>
  /\ UNCHANGED <<markerVars, commitVars, libraryVars, faultVars, file, linked, entry>>

PublishReplacing ==                        \* mutant: os.replace
  /\ worker = "publish"
  /\ file' = [file EXCEPT !["new"][cursor] = staged[cursor]]
  /\ linked' = linked \cup {cursor}
  /\ WorkerAt("mark")
  /\ UNCHANGED <<markerVars, commitVars, rowVars, libraryVars, faultVars, staged, cursor, done>>

(* os.link: it never replaces a file.                                            *)
Publish ==
  /\ worker = "publish"
  /\ IF file["new"][cursor] # None
     THEN Fails /\ UNCHANGED <<file, linked>>
     ELSE /\ file' = [file EXCEPT !["new"][cursor] = staged[cursor]]
          /\ linked' = linked \cup {cursor}
          /\ WorkerAt("mark") /\ UNCHANGED <<migration, cursor, done>>
  /\ UNCHANGED <<markerVars, commitVars, libraryVars, faultVars, staged, entry>>

MarkCopied ==
  /\ worker = "mark"
  /\ entry' = [entry EXCEPT ![cursor].state = "copied"]
  /\ done' = done \cup {cursor} /\ WorkerAt("choose")
  /\ UNCHANGED <<markerVars, commitVars, libraryVars, faultVars, file, staged, linked, migration, cursor>>

Copied ==
  /\ worker = "choose" /\ done = Entries
  /\ migration' = "verifying" /\ WorkerAt("verify") /\ done' = {}
  /\ UNCHANGED <<markerVars, commitVars, libraryVars, faultVars, file, staged, linked, entry, cursor>>

Matches(l, p) == file[l][p] = entry[p].sum

Verify ==
  /\ worker = "verify"
  /\ \E p \in Entries \ done :
       IF Matches("new", p)
       THEN /\ entry' = [entry EXCEPT ![p].state = "verified"] /\ done' = done \cup {p}
            /\ UNCHANGED <<migration, worker, cursor>>
       ELSE Fails /\ UNCHANGED entry
  /\ UNCHANGED <<markerVars, commitVars, libraryVars, faultVars, file, staged, linked>>

Verified ==
  /\ worker = "verify" /\ done = Entries
  /\ WorkerAt(IF staging = None THEN "open marker" ELSE "publish marker")
  /\ done' = {} /\ cursor' = None
  /\ UNCHANGED <<markerVars, commitVars, rowVars, libraryVars, faultVars, file, staged, linked>>

-----------------------------------------------------------------------------
(* The identity marker is staged and published like content, then the root's row   *)
(* is switched, the assets are reconciled and the migration is complete.         *)

OpenMarker ==
  /\ worker = "open marker"
  /\ staging' = Empty /\ WorkerAt("write marker")
  /\ UNCHANGED <<commitVars, rowVars, libraryVars, faultVars, file, staged, linked, workspace, marker, cursor,
                 done>>

WriteMarker ==
  /\ worker = "write marker"
  /\ staging' = Original /\ WorkerAt("publish marker")
  /\ UNCHANGED <<commitVars, rowVars, libraryVars, faultVars, file, staged, linked, workspace, marker, cursor,
                 done>>

PublishMarker ==
  /\ worker = "publish marker"
  /\ marker' = IF marker = None THEN staging ELSE marker
  /\ WorkerAt("switch")
  /\ UNCHANGED <<commitVars, rowVars, libraryVars, faultVars, file, staged, linked, workspace, staging, cursor,
                 done>>

Switch ==
  /\ worker = "switch"
  /\ migration' = "switched" /\ WorkerAt("remap")
  /\ UNCHANGED <<markerVars, commitVars, libraryVars, faultVars, file, staged, linked, entry, cursor, done>>

RemapUnreconciled ==                       \* mutant: complete without a reconciliation
  /\ worker = "remap"
  /\ IF marker = Original THEN rootAt' = "new" /\ WorkerAt("complete") ELSE UNCHANGED rootAt /\ WorkerAt("idle")
  /\ UNCHANGED <<markerVars, commitVars, rowVars, faultVars, file, staged, linked, assets, cursor, done>>

(* remap_root: a directory whose marker does not name the root raises   RootError, *)
(* which _execute does not catch: the migration stays "switched".                    *)
Remap ==
  /\ worker = "remap"
  /\ IF marker = Original THEN rootAt' = "new" /\ WorkerAt("reconcile") ELSE UNCHANGED rootAt /\ WorkerAt("idle")
  /\ UNCHANGED <<markerVars, commitVars, rowVars, faultVars, file, staged, linked, assets, cursor, done>>

(* reconcile(): an asset whose file is not where the root is now is missing.       *)
Reconciled(table, disk) ==
  [p \in Paths |-> IF table[p] = None THEN None
                   ELSE [table[p] EXCEPT !.integrity = IF disk[rootAt][p] = None THEN "missing" ELSE "ok"]]

Reconcile ==
  /\ worker = "reconcile"
  /\ assets' = Reconciled(assets, file)
  /\ WorkerAt("complete")
  /\ UNCHANGED <<markerVars, commitVars, rowVars, faultVars, file, staged, linked, rootAt, cursor, done>>

Complete ==
  /\ worker = "complete"
  /\ migration' = "completed" /\ WorkerAt("idle")
  /\ UNCHANGED <<markerVars, commitVars, libraryVars, faultVars, file, staged, linked, entry, cursor, done>>

Worker ==
  \/ Begin \/ Own \/ Choose \/ CopyFile \/ Publish \/ MarkCopied \/ Copied \/ Verify \/ Verified
  \/ OpenMarker \/ WriteMarker \/ PublishMarker \/ Switch \/ Remap \/ Reconcile \/ Complete

-----------------------------------------------------------------------------
(* discard_old_copy(): first every file is checked on both sides, then the old   *)
(* ones are removed.  It runs on the event loop, in one go.                      *)

MayDiscardUnchecked(p) == Matches("old", p)   \* mutant: the destination is not looked at

MayDiscard(p) == Matches("old", p) /\ file[rootAt][p] = entry[p].sum

Discard ==
  /\ migration = "completed" /\ worker = "idle"
  /\ \A p \in Entries : file["old"][p] # None => MayDiscard(p)
  /\ file' = [file EXCEPT !["old"] = [p \in Paths |-> IF p \in Entries THEN None ELSE file["old"][p]]]
  /\ migration' = "old_copy_removed"
  /\ UNCHANGED <<markerVars, workerVars, commitVars, libraryVars, faultVars, staged, linked, entry>>

-----------------------------------------------------------------------------
(* The other actors.  A commit is told the directory when it starts, and ends    *)
(* with the file there and the row registered; a replaced file gets a new inode. *)

CommitStarts(p) ==
  /\ commit = None /\ commits < MaxCommits
  /\ commits' = commits + 1
  /\ commit' = [path |-> p, at |-> rootAt, is |-> Newer]
  /\ UNCHANGED <<markerVars, workerVars, rowVars, libraryVars, faultVars, file, staged, linked, stranded>>

Written(c) == [file EXCEPT ![c.at][c.path] = c.is]
Registered(c) == [assets EXCEPT ![c.path] = [is |-> c.is, integrity |-> "ok"]]
Unlinked(c) == IF c.at = "new" THEN linked \ {c.path} ELSE linked

CommitEnds ==
  /\ commit # None
  /\ file' = Written(commit) /\ linked' = Unlinked(commit) /\ assets' = Registered(commit)
  /\ stranded' = IF commit.at # rootAt THEN stranded \cup {commit.path} ELSE stranded
  /\ commit' = None
  /\ UNCHANGED <<markerVars, workerVars, rowVars, faultVars, staged, rootAt, commits>>

(* Another program puts a file where a copy is to go, or damages a copy that the *)
(* old directory also has; a step of the worker meets an I/O error.              *)
Stranger(p) ==
  /\ migrationFaults < MaxMigrationFaults /\ file["new"][p] = None
  /\ migrationFaults' = migrationFaults + 1
  /\ file' = [file EXCEPT !["new"][p] = Foreign]
  /\ UNCHANGED <<markerVars, workerVars, commitVars, rowVars, libraryVars, staged, linked, migrationCrashes>>

Damage(p) ==
  /\ migrationFaults < MaxMigrationFaults /\ file["new"][p] # None /\ file["new"][p] = file["old"][p]
  /\ migrationFaults' = migrationFaults + 1
  /\ file' = [file EXCEPT !["new"][p] = Foreign]
  /\ staged' = IF p \in linked THEN [staged EXCEPT ![p] = Foreign] ELSE staged
  /\ UNCHANGED <<markerVars, workerVars, commitVars, rowVars, libraryVars, linked, migrationCrashes>>

(* Another Storage Location is registered there: roots.py:109 compares it with    *)
(* the paths of the roots, not with the destinations of migrations.              *)
RegisterThere ==
  /\ migrationFaults < MaxMigrationFaults /\ marker = None
  /\ migrationFaults' = migrationFaults + 1
  /\ marker' = Foreign
  /\ UNCHANGED <<workerVars, commitVars, rowVars, libraryVars, file, staged, linked, workspace, staging,
                 migrationCrashes>>

IoError ==
  /\ worker # "idle" /\ migrationFaults < MaxMigrationFaults
  /\ migrationFaults' = migrationFaults + 1
  /\ Fails
  /\ UNCHANGED <<markerVars, commitVars, libraryVars, file, staged, linked, entry, migrationCrashes>>

(* A crash takes the worker; at the restart the commit is finished or undone     *)
(* (CommitJournal), and the startup reconciles.                                  *)
MigrationCrash ==
  /\ migrationCrashes < MaxMigrationCrashes
  /\ migrationCrashes' = migrationCrashes + 1
  /\ worker' = "idle" /\ cursor' = None /\ done' = {} /\ commit' = None
  /\ \E finished \in {c \in {commit} : c # None} \cup {None} :
       /\ file' = IF finished = None THEN file ELSE Written(finished)
       /\ linked' = IF finished = None THEN linked ELSE Unlinked(finished)
       /\ assets' = Reconciled(IF finished = None THEN assets ELSE Registered(finished), file')
  /\ UNCHANGED <<markerVars, rowVars, staged, rootAt, stranded, migrationFaults, commits>>

Others ==
  \/ \E p \in Paths : CommitStarts(p) \/ Stranger(p) \/ Damage(p)
  \/ CommitEnds \/ RegisterThere \/ IoError \/ MigrationCrash

MigrationNext == Plan \/ Resume \/ Worker \/ Discard \/ Others

(* The worker goes on, and the user resumes what stopped.                        *)
MigrationFairness == WF_migrationVars(Worker) /\ WF_migrationVars(Resume)
MigrationSpec == MigrationInit /\ [][MigrationNext]_migrationVars
FairMigrationSpec == MigrationSpec /\ MigrationFairness

-----------------------------------------------------------------------------
(* Properties.                                                                   *)

(* What is registered is on disk somewhere, whatever commits, crashes and a      *)
(* damaged copy do between the plan and the removal of the old copy: the old     *)
(* copy is never the last one that is discarded (migration.py:222-254).          *)
ContentSomewhere ==
  \A p \in Paths : assets[p] # None => \E l \in Places : file[l][p] = assets[p].is

(* A file of another program in the destination is never replaced by a migration *)
(* (migration.py:159, safe_write.py:45-57).                                      *)
StrangersStay ==
  [][\A p \in Paths : file["new"][p] = Foreign /\ (file["new"][p])' # Foreign => commit # None /\ commit.path = p]_migrationVars

(* Once a migration is complete, a registered file is where the root is now or   *)
(* its asset is marked missing, also what downloads added after the plan; only a *)
(* commit that was under way at the switch can register a file that stayed       *)
(* behind (migration.py:210-213).                                                *)
CompleteMeansReadable ==
  migration \in {"completed", "old_copy_removed"} =>
    \A p \in Paths \ stranded : assets[p] # None /\ assets[p].integrity = "ok" => file[rootAt][p] # None

(* What blocks a migration for good: the staging directory without its owner, a  *)
(* torn marker, a file of somebody else, a source that changed.                  *)
Blocked ==
  \/ (workspace = "dir" /\ worker # "own")
  \/ (staging = Empty /\ worker # "write marker")
  \/ marker = Foreign
  \/ \E p \in Entries : \/ file["new"][p] \notin {None, entry[p].sum}
                         \/ (entry[p].state = "pending" /\ ~Matches("old", p))

(* A migration that is resumed whenever it stops completes, unless something     *)
(* that is not the migration's is in its way (migration.py:1-6).                 *)
ResumeCompletes == (migration # None) ~> (migration \in {"completed", "old_copy_removed"} \/ Blocked)

(* migration.py:3: "Persistent and resumable": a crash is no reason to stop.     *)
Resumable == (migration # None) ~> (migration \in {"completed", "old_copy_removed"})
=============================================================================
