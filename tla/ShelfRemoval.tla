----------------------------- MODULE ShelfRemoval -----------------------------
(* The user deletes the files of a Work (library/shelf.py): the request reads    *)
(* the asset rows once and then deletes file by file, each row after its file,   *)
(* while a commit in its thread may replace a file and its row.                  *)
EXTENDS Naturals, FiniteSets

CONSTANTS
  ShelfAssets,             \* the files of the Work; their model values also name their units' paths
  NoRow,
  MaxReplacements,    \* bound: downloads that replace a file
  MaxRemovalCrashes   \* bound: restarts

ASSUME RemovalAssumption == NoRow \notin ShelfAssets \cup (ShelfAssets \X {"before", "after"})

VARIABLES
  assetRows,  \* assets: of each, the path in its row
  files,      \* what is at each path: "none", "file", or "foreign" where OneShelf deletes nothing
  removal,    \* the request: [pc, todo, listed, removed, at]
  placing,    \* the commit of a replacement, from publishing its file to its registration
  job,        \* the asset the finished download points to, or NoRow
  replaced, removalCrashes

removalVars == <<assetRows, files, removal, placing, job, replaced, removalCrashes>>

(* The path a file has, and the one it gets when its title has changed since.    *)
PathsOf(a) == {<<a, "before">>, <<a, "after">>}
FilePaths == ShelfAssets \X {"before", "after"}
Idle == [pc |-> "idle", todo |-> {}, listed |-> [a \in ShelfAssets |-> NoRow], removed |-> {}, at |-> NoRow]
NoPlacing == [asset |-> NoRow, path |-> NoRow]

RemovalInit ==
  /\ assetRows = [a \in ShelfAssets |-> <<a, "before">>]
  /\ files \in {d \in [FilePaths -> {"none", "file", "foreign"}] :
       \A p \in FilePaths : IF p[2] = "after" THEN d[p] = "none" ELSE d[p] # "none"}
  /\ removal = Idle /\ placing = NoPlacing /\ job \in ShelfAssets /\ replaced = 0 /\ removalCrashes = 0

RemovalTypeOK ==
  /\ \A a \in ShelfAssets : assetRows[a] \in {NoRow} \cup PathsOf(a)
  /\ removal.removed \cap removal.todo = {}
  /\ job # NoRow => assetRows[job] # NoRow      \* the foreign key of download_jobs

-----------------------------------------------------------------------------
(* The request, on the loop: it awaits nothing, but commits have their thread.   *)

ListFiles ==
  /\ removal.pc = "idle"
  /\ LET there == {a \in ShelfAssets : assetRows[a] # NoRow}
     IN removal' = [Idle EXCEPT !.pc = "next", !.todo = there, !.listed = assetRows]
  /\ UNCHANGED <<assetRows, files, placing, job, replaced, removalCrashes>>

Path(a) == removal.listed[a]
DeletesAnything(a) == TRUE      \* mutant: what stands where the file was is deleted
MayDelete(a) == files[Path(a)] # "foreign"

FileStays(path) == files      \* mutant: the file is not deleted
Without(path) == [files EXCEPT ![path] = "none"]

(* delete_managed_file(): refused, already gone, or deleted.                     *)
DeleteFile(a) ==
  /\ removal.pc = "next" /\ a \in removal.todo
  /\ IF MayDelete(a)
       THEN /\ files' = Without(Path(a))
            /\ removal' = [removal EXCEPT !.pc = "row", !.at = a, !.todo = @ \ {a}]
       ELSE /\ removal' = [removal EXCEPT !.todo = @ \ {a}]
            /\ UNCHANGED files
  /\ UNCHANGED <<assetRows, placing, job, replaced, removalCrashes>>

KeepsJob(a) == job      \* mutant: the download still points to the file
Forgotten(a) == IF job = a THEN NoRow ELSE job

(* The transaction for this file: history stays, no longer pointing at it.       *)
DeleteRow ==
  /\ removal.pc = "row"
  /\ LET a == removal.at
     IN /\ assetRows' = [assetRows EXCEPT ![a] = NoRow]
        /\ job' = Forgotten(a)
        /\ removal' = [removal EXCEPT !.pc = "next", !.at = NoRow, !.removed = @ \cup {a}]
  /\ UNCHANGED <<files, placing, replaced, removalCrashes>>

RemovalEnds ==
  /\ removal.pc = "next" /\ removal.todo = {}
  /\ removal' = Idle
  /\ UNCHANGED <<assetRows, files, placing, job, replaced, removalCrashes>>

RemovalCrash ==
  /\ removalCrashes < MaxRemovalCrashes /\ removalCrashes' = removalCrashes + 1
  /\ removal' = Idle /\ placing' = NoPlacing
  /\ IF placing.asset = NoRow THEN UNCHANGED <<assetRows, job>>      \* recovery registers what was published
     ELSE assetRows' = [assetRows EXCEPT ![placing.asset] = placing.path] /\ job' = placing.asset
  /\ UNCHANGED <<files, replaced>>

-----------------------------------------------------------------------------
(* A commit that replaces a file: the old one is moved aside and the new one     *)
(* published, and then the row and the job are written in one transaction.       *)

PlaceFile(a) ==
  /\ placing.asset = NoRow /\ replaced < MaxReplacements /\ replaced' = replaced + 1
  /\ assetRows[a] # NoRow
  /\ \E path \in PathsOf(a) :
       /\ files[assetRows[a]] # "foreign" /\ (path = assetRows[a] \/ files[path] = "none")
       /\ files' = [files EXCEPT ![assetRows[a]] = "none", ![path] = "file"]
       /\ placing' = [asset |-> a, path |-> path]
  /\ UNCHANGED <<assetRows, removal, job, removalCrashes>>

RegisterFile ==
  /\ placing.asset # NoRow
  /\ assetRows' = [assetRows EXCEPT ![placing.asset] = placing.path] /\ job' = placing.asset
  /\ placing' = NoPlacing
  /\ UNCHANGED <<files, removal, replaced, removalCrashes>>

RemovalNext ==
  \/ ListFiles \/ (\E a \in ShelfAssets : DeleteFile(a)) \/ DeleteRow \/ RemovalEnds \/ RemovalCrash
  \/ (\E a \in ShelfAssets : PlaceFile(a)) \/ RegisterFile

RemovalSpec == RemovalInit /\ [][RemovalNext]_removalVars

-----------------------------------------------------------------------------
(* Properties.                                                                   *)

(* What OneShelf refuses to touch stays, with its record (§24.4).                *)
RefusedIsKept == [][\A p \in FilePaths : files[p] = "foreign" => /\ files'[p] = "foreign"
                                                                 /\ \A a \in ShelfAssets : assetRows[a] = p => assetRows'[a] = p]_removalVars

(* "forgetting the asset would leave a file on disk that the library no longer    *)
(* knows about" (library/shelf.py, delete_files): every file of the library has  *)
(* its record, but for one that a commit or a removal is about to write.         *)
NothingForgotten ==
  \A p \in FilePaths : (files[p] = "file" /\ placing.path # p) => \E a \in ShelfAssets : assetRows[a] = p

(* And it does have it, whenever the process stops and the request is repeated,  *)
(* as long as no download replaces a file.                                       *)
NothingForgottenAlone == replaced = 0 => NothingForgotten
=============================================================================
