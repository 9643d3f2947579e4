-------------------------------- MODULE Imports --------------------------------
(* Imports (importer/service.py, api/storage.py, services/startup.py): an        *)
(* uploaded file becomes a Reading Unit of the local track.  The row in          *)
(* `imports` and the commit journal entry are two records of one import; they    *)
(* are brought together only inside the registration and at startup.  What the   *)
(* commit does to files is CommitJournal's matter.                               *)
EXTENDS Naturals, FiniteSets

CONSTANTS
  Imports,           \* calls of import_file()
  MaxImportCrashes   \* bound: restarts

VARIABLES
  import,       \* imports.state, "none" before the call
  target,       \* "new" Local Work, a new unit of "work", or the existing "unit" of that work
  journal,      \* the import's journal entry: "none", "open", "done" or "aborted"
  registered,   \* imports whose asset row exists
  upload,       \* imports whose uploaded file is there
  importWorker,       \* where the call stands: "idle", "check", "commit", "advance", "close" or "gone"
  workThere,    \* does the chosen Work exist?  It may be merged into another one.
  serving,      \* is the process up?
  importCrashes

importVars == <<import, target, journal, registered, upload, importWorker, workThere, serving, importCrashes>>

ImportsInit ==
  /\ import = [i \in Imports |-> "none"] /\ target \in [Imports -> {"new", "work", "unit"}]
  /\ journal = [i \in Imports |-> "none"] /\ registered = {} /\ upload = Imports
  /\ importWorker = [i \in Imports |-> "idle"] /\ workThere = TRUE
  /\ serving = TRUE /\ importCrashes = 0

ImportTypeOK ==
  /\ import \in [Imports -> {"none", "validating", "committing", "completed", "rejected", "failed"}]
  /\ target \in [Imports -> {"new", "work", "unit"}]
  /\ journal \in [Imports -> {"none", "open", "done", "aborted"}]
  /\ registered \subseteq Imports /\ upload \subseteq Imports
  /\ importWorker \in [Imports -> {"idle", "check", "commit", "advance", "close", "gone"}]
  /\ {workThere, serving} \subseteq BOOLEAN

UnitTaken(i) == target[i] = "unit" /\ \E j \in registered \ {i} : target[j] = "unit"

(* The call ends, with an answer or an error, and the upload goes with it.       *)
Ends(i) == importWorker' = [importWorker EXCEPT ![i] = "gone"] /\ upload' = upload \ {i}
Becomes(i, state) == import' = [import EXCEPT ![i] = state]

BeginImport(i) ==
  /\ serving /\ importWorker[i] = "idle" /\ i \in upload
  /\ Becomes(i, "validating") /\ importWorker' = [importWorker EXCEPT ![i] = "check"]
  /\ UNCHANGED <<target, journal, registered, upload, workThere, serving, importCrashes>>

(* The file, the decision, the location and the staged copy are checked; an      *)
(* error of the file system is nobody's rejection and leaves the row as it is.   *)
CheckImport(i) ==
  /\ serving /\ importWorker[i] = "check"
  /\ \/ \E state \in {"rejected", "failed"} : Becomes(i, state) /\ Ends(i)
     \/ Ends(i) /\ UNCHANGED import
     \/ /\ target[i] # "new" => workThere
        /\ ~UnitTaken(i)
        /\ Becomes(i, "committing") /\ importWorker' = [importWorker EXCEPT ![i] = "commit"] /\ UNCHANGED upload
  /\ UNCHANGED <<target, journal, registered, workThere, serving, importCrashes>>

(* commit(): refused, or journalled.                                             *)
OpenJournal(i) ==
  /\ serving /\ importWorker[i] = "commit"
  /\ \/ Becomes(i, "failed") /\ Ends(i) /\ UNCHANGED journal
     \/ /\ journal' = [journal EXCEPT ![i] = "open"] /\ importWorker' = [importWorker EXCEPT ![i] = "advance"]
        /\ UNCHANGED <<import, upload>>
  /\ UNCHANGED <<target, registered, workThere, serving, importCrashes>>

(* register_local_import(): the rows, and the import as completed, at once; the  *)
(* unique key of `assets` and the Work's row decide whether it can.              *)
MayRegister(i) == target[i] # "new" => workThere        \* mutant: a taken unit is not noticed
CanRegister(i) == (target[i] # "new" => workThere) /\ ~UnitTaken(i)
Registers(i) == registered' = registered \cup {i} /\ Becomes(i, "completed")

(* _advance() up to the registration: it may abort, or fail.  Only a CommitError *)
(* fails the import; any other error leaves it to the next start.                *)
AdvanceImport(i) ==
  /\ serving /\ importWorker[i] = "advance"
  /\ \/ /\ journal' = [journal EXCEPT ![i] = "aborted"]
        /\ Becomes(i, "failed") /\ Ends(i) /\ UNCHANGED registered
     \/ /\ CanRegister(i) /\ Registers(i)
        /\ importWorker' = [importWorker EXCEPT ![i] = "close"] /\ UNCHANGED <<journal, upload>>
     \/ /\ workThere /\ ~CanRegister(i)              \* "conflicted with an existing record"
        /\ Becomes(i, "failed") /\ Ends(i) /\ UNCHANGED <<journal, registered>>
     \/ Ends(i) /\ UNCHANGED <<import, journal, registered>>     \* the file system, or a Work that is gone
  /\ UNCHANGED <<target, workThere, serving, importCrashes>>

(* After the registration only files are left to remove.                         *)
FailsImport(i) == Becomes(i, "failed")       \* mutant: every error fails the import
OnLateError(i) == import' = import

CloseImport(i) ==
  /\ serving /\ importWorker[i] = "close"
  /\ Ends(i)
  /\ \/ journal' = [journal EXCEPT ![i] = "done"] /\ UNCHANGED import
     \/ OnLateError(i) /\ UNCHANGED journal
  /\ UNCHANGED <<target, registered, workThere, serving, importCrashes>>

(* The chosen Work is merged into another.                                       *)
MergeWork ==
  /\ serving /\ workThere /\ workThere' = FALSE
  /\ UNCHANGED <<import, target, journal, registered, upload, importWorker, serving, importCrashes>>

ImportCrash ==
  /\ serving /\ importCrashes < MaxImportCrashes /\ importCrashes' = importCrashes + 1
  /\ serving' = FALSE
  /\ importWorker' = [i \in Imports |-> IF importWorker[i] = "idle" THEN "idle" ELSE "gone"]
  /\ UNCHANGED <<import, target, journal, registered, upload, workThere>>

(* run_startup_recovery(), in its order: imports that validated fail, unless a   *)
(* journal entry is open; open entries are advanced, one by one, as far as they  *)
(* can be; then those that committed fail, unless their entry is still open.     *)
OpenEntries == {i \in Imports : journal[i] = "open"}
FailValidating(j, s) == IF s = "validating" /\ j # "open" THEN "failed" ELSE s     \* mutant: the first pass only
FailInterrupted(j, s) == IF s \in {"validating", "committing"} /\ j # "open" THEN "failed" ELSE s

StartUp ==
  /\ ~serving /\ serving' = TRUE
  /\ \E done \in SUBSET {i \in OpenEntries : i \in registered \/ CanRegister(i)}, aborted \in SUBSET (OpenEntries \ registered) :
       /\ done \cap aborted = {}
       /\ ~\E i, j \in done \cup registered : i # j /\ target[i] = "unit" /\ target[j] = "unit"
       /\ journal' = [i \in Imports |-> IF i \in done THEN "done" ELSE IF i \in aborted THEN "aborted" ELSE journal[i]]
       /\ registered' = registered \cup done
       /\ import' = [i \in Imports |-> IF i \in done THEN "completed" ELSE FailInterrupted(journal'[i], import[i])]
  /\ UNCHANGED <<target, upload, importWorker, workThere, importCrashes>>

ImportsNext ==
  \/ \E i \in Imports : BeginImport(i) \/ CheckImport(i) \/ OpenJournal(i) \/ AdvanceImport(i) \/ CloseImport(i)
  \/ MergeWork \/ ImportCrash \/ StartUp

ImportsSpec == ImportsInit /\ [][ImportsNext]_importVars

-----------------------------------------------------------------------------
(* Properties.                                                                   *)

(* The two records agree: an import is completed exactly when its asset is       *)
(* registered, whatever fails after the registration and whoever completes it.   *)
CompletedIsRegistered == \A i \in Imports : import[i] = "completed" <=> i \in registered

(* Two imports never put two files of one format into one unit, although each    *)
(* has checked before it staged that the unit was free.                          *)
OneFilePerUnit == \A i, j \in registered : i # j => ~(target[i] = "unit" /\ target[j] = "unit")

(* After startup no import is left under way, except one whose journal entry     *)
(* is still open and will be advanced by a later start.                          *)
StartSettles ==
  [][~serving /\ serving' => \A i \in Imports : /\ import'[i] = "validating" => journal'[i] = "open"
                                                /\ import'[i] = "committing" => journal'[i] = "open"]_importVars
=============================================================================
