-------------------------------- MODULE Backups --------------------------------
(* Backups, their schedule and their restoration (backup/service.py,             *)
(* backup/runner.py, restore/service.py).  A backup is made in a worker thread   *)
(* by the hourly loop, by the user, or as the Safety Snapshot of a restore, and  *)
(* they may overlap; the library goes on changing on the event loop meanwhile.   *)
EXTENDS Naturals, Sequences, FiniteSets

CONSTANTS
  Assets,      \* registered files
  Edits,       \* what the user adds to the library
  Older, Later, NoFile,    \* contents of a file; none
  Keep,        \* DEFAULTS.backup.retain_verified
  MaxRecords, MaxBackupFaults, MaxBackupCrashes, MaxWeeks   \* bounds

ASSUME BackupsAssumption == Keep \in Nat /\ MaxRecords \in Nat

VARIABLES
  edits,      \* the edits that are in the library
  rows,       \* the assets table: what is registered of an asset, and its integrity
  disk,       \* the files
  records,    \* backup_records, oldest first, with the archive each one names
  maker,      \* the backups being made: the loop's, and the user's
  loop,       \* the hourly loop: "waiting", "making" or "dead"
  stale,      \* seven days have passed since the last Library Backup
  restore,    \* the restore under way
  before,     \* history: the edits that were in the library when it was asked for
  raced,      \* history: assets that were downloaded while they were restored
  backupFaults, backupCrashes, weeks

makingVars == <<records, maker>>
scheduleVars == <<loop, stale, weeks>>
restoreVars == <<restore, before, raced>>
contentVars == <<edits, rows, disk>>
backupFaultVars == <<backupFaults, backupCrashes>>
backupVars == <<makingVars, scheduleVars, restoreVars, contentVars, backupFaultVars>>

Makers == {"loop", "user"}
Kinds == {"library", "full"}
FileContents == {Older, Later}
Saving == [kind : Kinds, edits : SUBSET Edits, is : [Assets -> FileContents], content : SUBSET Assets]
Records == [state : {"verified", "rotated"}, whole : BOOLEAN, saves : Saving]
NothingSaved == [kind |-> "library", edits |-> {}, is |-> [a \in Assets |-> Older], content |-> {}]
\* made: history, the record that was made
NotMaking == [at |-> "idle", saves |-> NothingSaved, surplus |-> {}, made |-> 0]
NoRestore == [at |-> "idle", mode |-> "merge", from |-> 0, saved |-> NothingSaved, todo |-> {}, asset |-> NoFile]

BackupsInit ==
  /\ edits = {} /\ rows = [a \in Assets |-> [is |-> Older, ok |-> TRUE]] /\ disk = [a \in Assets |-> Older]
  /\ records = << >> /\ maker = [m \in Makers |-> NotMaking]
  /\ loop = "waiting" /\ stale = FALSE /\ weeks = 0
  /\ restore = NoRestore /\ before = {} /\ raced = {}
  /\ backupFaults = 0 /\ backupCrashes = 0

BackupsTypeOK ==
  /\ edits \subseteq Edits /\ rows \in [Assets -> [is : FileContents, ok : BOOLEAN]]
  /\ disk \in [Assets -> FileContents \cup {NoFile}]
  /\ records \in Seq(Records) /\ Len(records) <= MaxRecords
  /\ maker \in [Makers -> [at : {"idle", "archive", "list", "unlink", "mark"}, surplus : SUBSET (1..MaxRecords),
                       saves : Saving, made : 0..MaxRecords]]
  /\ loop \in {"waiting", "making", "dead"} /\ stale \in BOOLEAN
  /\ restore \in [at : {"idle", "open", "tables", "content", "publish", "ok"}, mode : {"merge", "replace"},
                  from : 0..MaxRecords, saved : Saving, todo : SUBSET Assets, asset : Assets \cup {NoFile}]
  /\ before \subseteq Edits /\ raced \subseteq Assets
  \* a backup under way says what is at stake: its maker waits for it
  /\ maker["loop"].at # "idle" <=> loop = "making"
  /\ maker["user"].at # "idle" => restore.at = "idle" \/ (restore.at = "tables" /\ restore.mode = "replace")

-----------------------------------------------------------------------------
(* create(): a snapshot of the database, the archive, its verification, the      *)
(* record, and the rotation.                                                     *)

Room == Len(records) + Cardinality({m \in Makers : maker[m].at = "archive"}) < MaxRecords   \* bound

(* The snapshot of the database; a Full Backup takes the files that are "ok".    *)
StartBackup(m, kind) ==
  maker' = [maker EXCEPT ![m] = [NotMaking EXCEPT !.at = "archive", !.saves =
              [kind |-> kind, edits |-> edits, is |-> [a \in Assets |-> rows[a].is],
               content |-> {a \in Assets : kind = "full" /\ rows[a].ok}]]]

(* The content of the archive is checked against the snapshot's checksums.       *)
ContentMatches(m) == \A a \in maker[m].saves.content : disk[a] = maker[m].saves.is[a]

(* The archive is written, read back and recorded; from here on it is kept.      *)
Record(m) ==
  /\ maker[m].at = "archive" /\ ContentMatches(m)
  /\ records' = Append(records, [state |-> "verified", whole |-> TRUE, saves |-> maker[m].saves])
  /\ stale' = (stale /\ maker[m].saves.kind # "library")
  /\ maker' = [maker EXCEPT ![m] = [NotMaking EXCEPT !.at = "list", !.made = Len(records) + 1]]
  /\ UNCHANGED <<loop, weeks, restoreVars, contentVars, backupFaultVars>>

VerifiedBackups == {i \in 1..Len(records) : records[i].state = "verified"}
NewerThan(i) == {j \in VerifiedBackups : j > i}

KeepOneLess == {i \in VerifiedBackups : Cardinality(NewerThan(i)) >= Keep - 1}   \* mutant: an off-by-one

(* list_backups()[keep:]: all kinds together, newest first.                      *)
Surplus == {i \in VerifiedBackups : Cardinality(NewerThan(i)) >= Keep}

ListSurplus(m) ==
  /\ maker[m].at = "list"
  /\ maker' = [maker EXCEPT ![m].at = "unlink", ![m].surplus = Surplus]
  /\ UNCHANGED <<records, scheduleVars, restoreVars, contentVars, backupFaultVars>>

Newest(S) == CHOOSE i \in S : \A j \in S : j <= i

Unlink(m) ==
  /\ maker[m].at = "unlink" /\ maker[m].surplus # {}
  /\ records' = [records EXCEPT ![Newest(maker[m].surplus)].whole = FALSE]
  /\ maker' = [maker EXCEPT ![m].at = "mark"]
  /\ UNCHANGED <<scheduleVars, restoreVars, contentVars, backupFaultVars>>

MarkRotated(m) ==
  /\ maker[m].at = "mark"
  /\ records' = [records EXCEPT ![Newest(maker[m].surplus)] = [state |-> "rotated", whole |-> FALSE, saves |-> NothingSaved]]
  /\ maker' = [maker EXCEPT ![m].at = "unlink", ![m].surplus = @ \ {Newest(@)}]
  /\ UNCHANGED <<scheduleVars, restoreVars, contentVars, backupFaultVars>>

Made(m) == maker[m].at = "unlink" /\ maker[m].surplus = {}
CanFail(m) == maker[m].at = "archive" /\ (backupFaults < MaxBackupFaults \/ ~ContentMatches(m))
CountFault(m) == backupFaults' = IF ContentMatches(m) THEN backupFaults + 1 ELSE backupFaults

-----------------------------------------------------------------------------
(* Who asks for backups.                                                         *)

Due == stale \/ \A i \in VerifiedBackups : records[i].saves.kind # "library"

UserBacksUp(kind) ==
  /\ maker["user"].at = "idle" /\ restore.at = "idle" /\ Room
  /\ StartBackup("user", kind)
  /\ UNCHANGED <<records, scheduleVars, restoreVars, contentVars, backupFaultVars>>

UserBackupEnds ==
  /\ restore.at = "idle"
  /\ \/ Made("user") /\ UNCHANGED backupFaults
     \/ CanFail("user") /\ CountFault("user")
  /\ maker' = [maker EXCEPT !["user"] = NotMaking]
  /\ UNCHANGED <<records, scheduleVars, restoreVars, contentVars, backupCrashes>>

LoopWaitsAWeek ==                          \* mutant: no backup at all is not "due"
  /\ loop = "waiting" /\ stale /\ Room
  /\ loop' = "making" /\ StartBackup("loop", "library")
  /\ UNCHANGED <<records, stale, weeks, restoreVars, contentVars, backupFaultVars>>

LoopBacksUp ==
  /\ loop = "waiting" /\ Due /\ Room
  /\ loop' = "making" /\ StartBackup("loop", "library")
  /\ UNCHANGED <<records, stale, weeks, restoreVars, contentVars, backupFaultVars>>

LoopSucceeds ==
  /\ Made("loop")
  /\ maker' = [maker EXCEPT !["loop"] = NotMaking] /\ loop' = "waiting"
  /\ UNCHANGED <<records, stale, weeks, restoreVars, contentVars, backupFaultVars>>

LoopFails ==
  /\ CanFail("loop") /\ CountFault("loop")
  /\ maker' = [maker EXCEPT !["loop"] = NotMaking] /\ loop' = "waiting"
  /\ UNCHANGED <<records, stale, weeks, restoreVars, contentVars, backupCrashes>>

(* due() is outside the try: its exception ends the loop until the next start.   *)
DueRaises ==
  /\ loop = "waiting" /\ backupFaults < MaxBackupFaults
  /\ backupFaults' = backupFaults + 1
  /\ loop' = "dead"
  /\ UNCHANGED <<makingVars, stale, weeks, restoreVars, contentVars, backupCrashes>>

Week ==
  /\ ~stale /\ weeks < MaxWeeks
  /\ weeks' = weeks + 1 /\ stale' = TRUE
  /\ UNCHANGED <<makingVars, loop, restoreVars, contentVars, backupFaultVars>>

-----------------------------------------------------------------------------
(* restore().                                                                    *)

RestoreAt(l) == restore' = [restore EXCEPT !.at = l]

(* Preflight and verification: the archive is there and whole.                   *)
AskRestore(mode, i) ==
  /\ restore.at = "idle" /\ maker["user"].at = "idle" /\ records[i].whole
  /\ restore' = [NoRestore EXCEPT !.at = "open", !.mode = mode, !.from = i]
  /\ before' = edits
  /\ UNCHANGED <<makingVars, scheduleVars, raced, contentVars, backupFaultVars>>

(* The archive is opened once: a rotation that unlinks it later does not matter. *)
OpenArchive ==
  /\ restore.at = "open"
  /\ restore' = IF records[restore.from].whole
                 THEN [restore EXCEPT !.at = "tables", !.saved = records[restore.from].saves, !.from = 0] ELSE NoRestore
  /\ UNCHANGED <<makingVars, scheduleVars, before, raced, contentVars, backupFaultVars>>

SafetySnapshot ==
  /\ restore.at = "tables" /\ restore.mode = "replace" /\ maker["user"].at = "idle" /\ Room
  /\ StartBackup("user", "library")
  /\ UNCHANGED <<records, scheduleVars, restoreVars, contentVars, backupFaultVars>>

Saved == restore.saved

(* A row of the backup says nothing of this machine's files: only a file that is *)
(* there and matches is "ok".                                                    *)
Checked(is) == [a \in Assets |-> [is |-> is[a], ok |-> disk[a] = is[a]]]

ReplaceUnsafe ==                           \* mutant: a Safety Snapshot that failed is not missed
  /\ restore.at = "tables" /\ restore.mode = "replace"
  /\ Made("user") \/ CanFail("user")
  /\ maker' = [maker EXCEPT !["user"] = NotMaking]
  /\ edits' = Saved.edits
  /\ rows' = Checked(Saved.is)
  /\ restore' = [restore EXCEPT !.at = "content", !.todo = Saved.content]
  /\ UNCHANGED <<records, scheduleVars, before, raced, disk, backupFaultVars>>

ReplaceTables ==
  /\ restore.at = "tables" /\ restore.mode = "replace" /\ Made("user")
  /\ maker' = [maker EXCEPT !["user"] = NotMaking]
  /\ edits' = Saved.edits
  /\ rows' = Checked(Saved.is)
  /\ restore' = [restore EXCEPT !.at = "content", !.todo = Saved.content]
  /\ UNCHANGED <<records, scheduleVars, before, raced, disk, backupFaultVars>>

SafetySnapshotFails ==
  /\ restore.at = "tables" /\ CanFail("user") /\ CountFault("user")
  /\ maker' = [maker EXCEPT !["user"] = NotMaking] /\ restore' = NoRestore
  /\ UNCHANGED <<records, scheduleVars, before, raced, contentVars, backupCrashes>>

(* The current records win; only what is missing is added.                       *)
MergeTables ==
  /\ restore.at = "tables" /\ restore.mode = "merge"
  /\ edits' = edits \cup Saved.edits
  /\ restore' = [restore EXCEPT !.at = "content", !.todo = Saved.content]
  /\ UNCHANGED <<makingVars, scheduleVars, before, raced, rows, disk, backupFaultVars>>

Healthy(a) == rows[a].ok /\ disk[a] # NoFile

(* The file of an asset: an honest state first, then the file, then "ok".        *)
MarkNothing(a) ==                          \* mutant: the row is left as it is
  /\ restore.at = "content" /\ a \in restore.todo /\ (restore.mode = "replace" \/ ~Healthy(a))
  /\ restore' = [restore EXCEPT !.at = "publish", !.asset = a]
  /\ UNCHANGED <<makingVars, scheduleVars, before, raced, contentVars, backupFaultVars>>

MarkAsset(a) ==
  /\ restore.at = "content" /\ a \in restore.todo /\ (restore.mode = "replace" \/ ~Healthy(a))
  /\ rows' = [rows EXCEPT ![a].ok = FALSE]
  /\ restore' = [restore EXCEPT !.at = "publish", !.asset = a]
  /\ UNCHANGED <<makingVars, scheduleVars, before, raced, edits, disk, backupFaultVars>>

PublishAsset ==
  /\ restore.at = "publish"
  /\ disk' = [disk EXCEPT ![restore.asset] = Saved.is[restore.asset]]
  /\ RestoreAt("ok")
  /\ UNCHANGED <<makingVars, scheduleVars, before, raced, edits, rows, backupFaultVars>>

AssetIsOk ==
  /\ restore.at = "ok"
  /\ rows' = [rows EXCEPT ![restore.asset] = [is |-> Saved.is[restore.asset], ok |-> TRUE]]
  /\ restore' = [restore EXCEPT !.at = "content", !.todo = @ \ {restore.asset}, !.asset = NoFile]
  /\ UNCHANGED <<makingVars, scheduleVars, before, raced, edits, disk, backupFaultVars>>

(* An entry that fails is an issue of the report, and the next one is tried.     *)
AssetFails ==
  /\ restore.at \in {"publish", "ok"} /\ backupFaults < MaxBackupFaults
  /\ backupFaults' = backupFaults + 1
  /\ restore' = [restore EXCEPT !.at = "content", !.todo = @ \ {restore.asset}, !.asset = NoFile]
  /\ UNCHANGED <<makingVars, scheduleVars, before, raced, contentVars, backupCrashes>>

RestoreEnds ==
  /\ restore.at = "content"
  /\ \A a \in restore.todo : restore.mode = "merge" /\ Healthy(a)
  /\ restore' = NoRestore
  /\ UNCHANGED <<makingVars, scheduleVars, before, raced, contentVars, backupFaultVars>>

-----------------------------------------------------------------------------
(* The library meanwhile: an edit, a download that replaces an asset's file      *)
(* (CommitJournal), a file that disappears and is found missing by a scan.       *)

Edit(e) ==
  /\ e \notin edits
  /\ edits' = edits \cup {e}
  /\ UNCHANGED <<makingVars, scheduleVars, restoreVars, rows, disk, backupFaultVars>>

DownloadAsset(a) ==
  /\ rows[a].is # Later \/ ~Healthy(a)
  /\ rows' = [rows EXCEPT ![a] = [is |-> Later, ok |-> TRUE]]
  /\ disk' = [disk EXCEPT ![a] = Later]
  /\ raced' = IF restore.asset = a THEN raced \cup {a} ELSE raced
  /\ UNCHANGED <<makingVars, scheduleVars, restore, before, edits, backupFaultVars>>

LoseFile(a) ==
  /\ backupFaults < MaxBackupFaults /\ disk[a] # NoFile /\ restore.asset # a
  /\ backupFaults' = backupFaults + 1
  /\ disk' = [disk EXCEPT ![a] = NoFile] /\ rows' = [rows EXCEPT ![a].ok = FALSE]
  /\ UNCHANGED <<makingVars, scheduleVars, restoreVars, edits, backupCrashes>>

(* A crash leaves the records and the files; the loop is started again.          *)
BackupCrash ==
  /\ backupCrashes < MaxBackupCrashes
  /\ backupCrashes' = backupCrashes + 1
  /\ maker' = [m \in Makers |-> NotMaking] /\ loop' = "waiting" /\ restore' = NoRestore
  /\ UNCHANGED <<records, stale, weeks, before, raced, contentVars, backupFaults>>

Making(m) == Record(m) \/ ListSurplus(m) \/ Unlink(m) \/ MarkRotated(m)
LoopStep == Making("loop") \/ LoopSucceeds \/ LoopFails \/ LoopBacksUp

Restoring ==
  \/ OpenArchive \/ SafetySnapshot \/ ReplaceTables \/ SafetySnapshotFails \/ MergeTables
  \/ \E a \in Assets : MarkAsset(a)
  \/ PublishAsset \/ AssetIsOk \/ AssetFails \/ RestoreEnds

BackupsNext ==
  \/ \E kind \in Kinds : UserBacksUp(kind)
  \/ Making("user") \/ UserBackupEnds
  \/ LoopStep \/ DueRaises \/ Week
  \/ \E mode \in {"merge", "replace"}, i \in 1..Len(records) : AskRestore(mode, i)
  \/ Restoring
  \/ \E e \in Edits : Edit(e)
  \/ \E a \in Assets : DownloadAsset(a) \/ LoseFile(a)
  \/ BackupCrash

BackupsSpec == BackupsInit /\ [][BackupsNext]_backupVars
BackupsFairness == WF_backupVars(LoopStep)
FairBackupsSpec == BackupsSpec /\ BackupsFairness

-----------------------------------------------------------------------------
(* Properties.                                                                   *)

(* The newest backups that were verified are on disk, however backups that       *)
(* overlap rotate and wherever a crash falls (backup/service.py:255-264).        *)
NewestKept == \A i \in VerifiedBackups : Cardinality(NewerThan(i)) < Keep => records[i].whole

(* What replace takes from the library can be put back: every edit that was      *)
(* there when the user asked is in the library or in a verified backup that is   *)
(* on disk, unless so many were verified since the Safety Snapshot that it is    *)
(* no longer kept (restore/service.py:4, 148-151).                               *)
SupersededSince(i) == i # 0 /\ Cardinality(NewerThan(i)) >= Keep

ReplaceIsUndoable ==
  [][\A e \in before \ edits' :
       e \in edits => \/ \E i \in VerifiedBackups : records[i].whole /\ e \in records[i].saves.edits
                      \/ SupersededSince(maker["user"].made)]_backupVars

(* "ok" is never a lie: through a restore that fails or crashes at any point a   *)
(* registered asset that is "ok" has the file that was registered, unless it was *)
(* downloaded while it was being restored (restore/service.py:383-386).          *)
OkIsHonest == \A a \in Assets \ raced : rows[a].ok => disk[a] = rows[a].is

(* A missed Library Backup is made up for, also after failures and crashes, as   *)
(* long as the loop is alive (backup/runner.py:1, 20-33).                        *)
DueIsBackedUp == Due ~> (~Due \/ loop = "dead" \/ ~Room)
=============================================================================
