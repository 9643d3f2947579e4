------------------------------- MODULE MCStorage -------------------------------
(* Instances for TLC of the components that write files: those that move them    *)
(* between the library and other places, the Registry of adapters, and the       *)
(* generator of adapters. They meet only in the registration of a file           *)
(* (CommitJournal) and in PluginStore, so a behaviour is one of a single         *)
(* component, chosen at its start; the others stay as they begin.                *)
EXTENDS StorageMigration, Backups, Imports, Exports, ShelfRemoval, AdapterRegistry, AdapterRepair, TLC

CONSTANTS p1, p2, q1, g1, y1, y2

(* An adapter, the same version of it with other files and another label, and    *)
(* the next version.                                                             *)
Form(label, number, tree) == [id |-> g1, tier |-> label, version |-> number, files |-> tree, good |-> TRUE]
MCForms == {Form("official", 1, y1), Form("community", 1, y2), Form("official", 2, y2)}

VARIABLE part

libraryFileVars == <<migrationVars, backupVars, importVars, exportVars, removalVars>>
siteFileVars == <<adapterVars, repairVars>>
storageVars == <<part, libraryFileVars, siteFileVars>>

StorageInit ==
  /\ part \in {"migration", "backup", "import", "export", "removal", "registry", "generator"}
  /\ MigrationInit /\ BackupsInit /\ ImportsInit /\ ExportsInit /\ RemovalInit
  /\ AdaptersInit /\ RepairInit
  /\ part # "import" => \A i \in Imports : target[i] = "new"
  /\ part # "export" => \A t \in Targets : dest[t] = NoCopy
  /\ part # "removal" => (\A p \in FilePaths : files[p] # "foreign") /\ job = CHOOSE x \in ShelfAssets : TRUE
  /\ IF part = "registry" THEN \E f \in Forms : f.version = 1 /\ adapters = {f}
                         ELSE tool = "adapter_repo" /\ adapters = {}
  /\ part # "generator" => adapter = NoSource

LibraryFilesNext ==
  \/ /\ part = "migration" /\ MigrationNext
     /\ UNCHANGED <<backupVars, importVars, exportVars, removalVars>>
  \/ /\ part = "backup" /\ BackupsNext
     /\ UNCHANGED <<migrationVars, importVars, exportVars, removalVars>>
  \/ /\ part = "import" /\ ImportsNext
     /\ UNCHANGED <<migrationVars, backupVars, exportVars, removalVars>>
  \/ /\ part = "export" /\ ExportsNext
     /\ UNCHANGED <<migrationVars, backupVars, importVars, removalVars>>
  \/ /\ part = "removal" /\ RemovalNext
     /\ UNCHANGED <<migrationVars, backupVars, importVars, exportVars>>

AdapterFilesNext ==
  \/ part = "registry" /\ AdaptersNext /\ UNCHANGED repairVars
  \/ part = "generator" /\ RepairNext /\ UNCHANGED adapterVars

StorageNext ==
  \/ LibraryFilesNext /\ UNCHANGED <<part, siteFileVars>>
  \/ AdapterFilesNext /\ UNCHANGED <<part, libraryFileVars>>

(* MigrationFairness, BackupsFairness and AdaptersFairness, of what runs.        *)
StorageFairness ==
  /\ WF_migrationVars(part = "migration" /\ Worker) /\ WF_migrationVars(part = "migration" /\ Resume)
  /\ WF_backupVars(part = "backup" /\ LoopStep)
  /\ WF_adapterVars(part = "registry" /\ TimePassesByIndex)
  /\ \A k \in Askers : /\ WF_adapterVars(part = "registry" /\ AskerNext(k))
                       /\ WF_adapterVars(part = "registry" /\ FetchPackage(k))

StorageSpec == StorageInit /\ [][StorageNext]_storageVars /\ StorageFairness

(* Every variable of the component that runs has its type.                       *)
StorageTypeOK ==
  CASE part = "migration" -> MigrationTypeOK
    [] part = "backup" -> BackupsTypeOK
    [] part = "import" -> ImportTypeOK
    [] part = "export" -> ExportTypeOK
    [] part = "removal" -> RemovalTypeOK
    [] part = "registry" -> AdapterRegistryTypeOK
    [] part = "generator" -> RepairTypeOK

(* DueIsBackedUp, of the behaviours in which the backup loop runs.               *)
BackupLoopKeepsUp == part = "backup" => DueIsBackedUp

(* NewsReachesListing, of the behaviours in which the Registry is read.          *)
RegistryIsReadAnew == part = "registry" => NewsReachesListing

-----------------------------------------------------------------------------
(* What the component that runs must keep, by what it protects.                  *)

(* What is registered or recorded has its file: through migrations, backups,     *)
(* restores and removals, with crashes and failures between any two of their     *)
(* steps, no file that a record names is lost (storage/migration.py, backup/*,   *)
(* restore/service.py, library/shelf.py).                                        *)
NoFileIsLost ==
  /\ ContentSomewhere /\ CompleteMeansReadable
  /\ NewestKept /\ OkIsHonest
  /\ NothingForgottenAlone

(* An import and its asset agree, and two imports never share a unit             *)
(* (importer/service.py).                                                        *)
ImportsAgree == StorageTypeOK /\ CompletedIsRegistered /\ OneFilePerUnit

(* An adapter that is served, installed or offered is whole: published as what   *)
(* it is, and answered for by the site it was made for (adapter_repo.py,         *)
(* manager.py, repair.py).                                                       *)
AdaptersAreWhole == ServedIsWhole /\ InstalledAsPublished /\ OfferedAnswered /\ SteadySiteIsRepaired

(* What is not OneShelf's is not touched, and only what was recorded is          *)
(* published: neither a migration nor an export replaces a file that appeared,   *)
(* and a removal leaves what it refuses (storage/safe_write.py).                 *)
StrangersFilesStay == StrangersStay /\ NothingOverwritten /\ OnlyRecordedIsPublished /\ RefusedIsKept

(* What a step replaces can be had again: the library a restore replaced, the    *)
(* version of an adapter that was published, the capabilities of a source that   *)
(* is repaired.                                                                  *)
NothingIsTakenAway == ReplaceIsUndoable /\ VersionsAreImmutable /\ RepairLosesNothing

(* What stopped is finished: a migration that is resumed, an import that the     *)
(* next start finds, an export that is called complete, a backup that is due,    *)
(* and an index that was read before the Registry changed.                       *)
InterruptedIsFinished ==
  ResumeCompletes /\ StartSettles /\ CompletedIsComplete /\ BackupLoopKeepsUp /\ RegistryIsReadAnew
=============================================================================
