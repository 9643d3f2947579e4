---------------------------- MODULE CommitJournal ----------------------------
(***************************************************************************)
(* The commit journal of OneShelf (storage/commit.py): how one staged      *)
(* artifact becomes the file of a library slot although SQLite and the     *)
(* file system are not one transaction.  Every commit advances a persisted *)
(* state                                                                   *)
(*                                                                         *)
(*     pending -> moved -> verified -> registered -> done     (or aborted) *)
(*                                                                         *)
(* with file operations between the state changes.  One action is one      *)
(* system call or one transaction, so that a crash, an I/O error, a file   *)
(* put in place by somebody else, the loss of the storage location or the  *)
(* step of another thread may fall between any two of them.                *)
(*                                                                         *)
(* A slot is one (reading unit, format): it has at most one row in         *)
(* `assets`.  An area is the staging area of one import or download job.   *)
(* A commit is one call of CommitEngine.commit, hence one journal entry.   *)
(* File contents are compared, as sha256 and size compare them, and never  *)
(* looked into.                                                            *)
(***************************************************************************)
EXTENDS Naturals, FiniteSets

CONSTANTS
  Commits,      (* calls of CommitEngine.commit                            *)
  Areas,        (* staging areas, one per import or download job           *)
  Slots,        (* (reading unit, format) pairs                            *)
  Paths,        (* relative paths of the library, outside .oneshelf        *)
  Artifacts,    (* contents that a job may stage                           *)
  Original,     (* the content a slot had before                           *)
  Junk,         (* content somebody else wrote                             *)
  None,         (* no file, no row, no path                                *)
  SlotOf,       (* the slot each area's job works for                      *)
  Places,       (* the paths a slot's file may have (retitled works move)  *)
  Cancellable,  (* areas of download jobs the user may cancel              *)
  OneAtATime,   (* does a slot's next commit wait for the journal to close?*)
  OverlappingScans, (* may a storage scan run while something is committed?*)
  HardLinks,    (* does the file system of the location support link(2)?   *)
  MaxCrashes, MaxFaults, MaxFlaps, MaxTampers  (* bounds of the model      *)

Contents == Artifacts \cup {Original, Junk}
Files    == Contents \cup {None}

ASSUME ConstantsAssumption ==
  /\ SlotOf \in [Areas -> Slots]
  /\ Places \in [Slots -> SUBSET Paths]
  /\ \A s, t \in Slots : s # t => Places[s] \cap Places[t] = {}
  /\ Cancellable \subseteq Areas
  /\ {OneAtATime, HardLinks, OverlappingScans} \subseteq BOOLEAN
  /\ None \notin Contents /\ None \notin Paths
  /\ Original \notin Artifacts /\ Junk \notin Artifacts /\ Original # Junk
  /\ {MaxCrashes, MaxFaults, MaxFlaps, MaxTampers} \subseteq Nat

VARIABLES
  (* The storage location. *)
  rootUp,    (* is it mounted and writable?                                *)
  lib,       (* the library's files                                        *)
  area,      (* "new", "live" or "gone": the directory of each area        *)
  staged,    (* the artifact staged in each area                           *)
  aside,     (* "replaced-<name>" in each area: the retired old copy       *)
  (* The database. *)
  assets,    (* the asset row of each slot                                 *)
  sound,     (* the slots whose row says integrity = 'ok'                  *)
  jstate,    (* commit_journal.state                                       *)
  req,       (* the rest of the journal row, and the call it came from     *)
  (* The process. *)
  mode,      (* "up", "down" or "recovering"                               *)
  todo,      (* the entries recover() has still to look at                 *)
  pc,        (* where the thread of each commit stands                     *)
  scan,      (* what a storage scan is about to write to each slot's row   *)
  (* The environment, and history for the properties. *)
  crashes, faults, flaps, tampers,
  touched,   (* paths somebody else has changed                            *)
  kept       (* the file each commit has set aside                         *)

disk  == <<rootUp, lib, area, staged, aside>>
db    == <<assets, sound, jstate, req>>
proc  == <<mode, todo, pc>>
env   == <<crashes, faults, flaps, tampers, touched>>
vars  == <<disk, db, proc, scan, env, kept>>

OpenStates == {"pending", "moved", "verified", "registered"}

PCs == {"idle", "check", "insert", "advance", "place", "link", "rename",
        "unlink", "mark", "restore", "drop", "close"}

Rows     == [path : Paths, content : Contents]
Verdicts == [sound : BOOLEAN, path : Paths \cup {None}]
Requests == [area : Areas, final : Paths, old : Paths \cup {None},
             fresh : BOOLEAN, sha : Files]

ASSUME NoneAssumption ==
  None \notin Rows /\ None \notin Requests /\ None \notin [slot : Slots, row : Rows]

-----------------------------------------------------------------------------
(* What the program sees.  On a location that is not mounted every        *)
(* os.path test answers "no such file".                                    *)

Seen(file)  == IF rootUp THEN file ELSE None
Final(c)    == Seen(lib[req[c].final])
Staged(c)   == Seen(staged[req[c].area])
Aside(c)    == Seen(aside[req[c].area])
Old(c)      == IF req[c].old = None THEN None ELSE Seen(lib[req[c].old])
Slot(c)     == SlotOf[req[c].area]

Goto(c, where)     == pc' = [pc EXCEPT ![c] = where]
SetState(c, state) == jstate' = [jstate EXCEPT ![c] = state]

NoVerdict == [sound |-> FALSE, path |-> None]

Idle == \A c \in Commits : pc[c] = "idle"

Open(c) == jstate[c] \in OpenStates

-----------------------------------------------------------------------------
(* The library before the first modelled step: a slot has no row, or a    *)
(* row whose file is intact, replaced by something else, or gone.          *)

Init ==
  /\ rootUp = TRUE
  /\ assets \in [Slots -> {None} \cup [path : Paths, content : {Original}]]
  /\ \A s \in Slots : assets[s] # None => assets[s].path \in Places[s]
  /\ lib \in [Paths -> {Original, Junk, None}]
  /\ \A p \in Paths : lib[p] # None =>
       \E s \in Slots : assets[s] # None /\ assets[s].path = p
  /\ sound = {}
  /\ area   = [a \in Areas |-> "new"]
  /\ staged = [a \in Areas |-> None]
  /\ aside  = [a \in Areas |-> None]
  /\ jstate = [c \in Commits |-> "none"]
  /\ req    = [c \in Commits |-> None]
  /\ mode = "up" /\ todo = {}
  /\ pc     = [c \in Commits |-> "idle"]
  /\ scan   = [s \in Slots |-> NoVerdict]
  /\ crashes = 0 /\ faults = 0 /\ flaps = 0 /\ tampers = 0
  /\ touched = {}
  /\ kept = [c \in Commits |-> None]

-----------------------------------------------------------------------------
(* The owner of an area: an import, or one attempt of a download job.      *)

(* The job writes a verified artifact into its area; a retried job reuses *)
(* the area, unless an attempt was successful, and may get other bytes.    *)
Stage(a, x) ==
  /\ mode = "up" /\ rootUp
  /\ area[a] # "gone"
  /\ \A c \in Commits : req[c] # None /\ req[c].area = a =>
                         pc[c] = "idle" /\ jstate[c] # "done"
  /\ area'   = [area EXCEPT ![a] = "live"]
  /\ staged' = [staged EXCEPT ![a] = x]
  /\ UNCHANGED <<rootUp, lib, aside, db, proc, env, kept, scan>>

(* The job reads the slot's row and calls commit() in a worker thread.  A  *)
(* sound copy is left alone; a row that is not sound is replaced, path and *)
(* all.  The queue admits one active job per unit, but nothing makes an    *)
(* attempt wait for a journal entry that an earlier one left open:         *)
(* OneAtATime tells the two assumptions apart.                             *)
Request(c, a, f) ==
  /\ mode = "up" /\ req[c] = None
  /\ area[a] = "live" /\ staged[a] # None
  /\ \A d \in Commits : pc[d] # "idle" => req[d].area # a
  /\ OneAtATime => \A d \in Commits : req[d] # None /\ Slot(d) = SlotOf[a]
                                      => pc[d] = "idle" /\ ~Open(d)
  /\ f \in Places[SlotOf[a]] /\ SlotOf[a] \notin sound
  /\ LET row == assets[SlotOf[a]]
     IN  req' = [req EXCEPT ![c] =
                  [area |-> a, final |-> f,
                   old |-> IF row = None THEN None ELSE row.path,
                   fresh |-> row = None, sha |-> None]]
  /\ Goto(c, "check")
  /\ UNCHANGED <<disk, assets, sound, jstate, mode, todo, env, kept, scan>>

(* Before a unit is queued, the row of a file that has gone is marked.     *)
MarkMissing(s) ==
  /\ mode = "up" /\ rootUp
  /\ s \in sound /\ lib[assets[s].path] = None
  /\ sound' = sound \ {s}
  /\ UNCHANGED <<disk, assets, jstate, req, proc, env, kept, scan>>

(* The storage scan compares a row with its file.  A file that is gone is *)
(* looked for under the same name elsewhere in the location, where exactly *)
(* one file without a row must have the row's content.                     *)
Elsewhere(s) ==
  {p \in Places[s] : /\ lib[p] = assets[s].content
                     /\ \A t \in Slots : assets[t] # None => assets[t].path # p}

Verdict(s) ==
  LET row == assets[s]
  IN  IF lib[row.path] = None /\ \E p \in Paths : Elsewhere(s) = {p}
        THEN [sound |-> TRUE, path |-> CHOOSE p \in Paths : Elsewhere(s) = {p}]
        ELSE [sound |-> lib[row.path] = row.content, path |-> row.path]

(* The row keeps everything but its path and its integrity.                *)
ApplyVerdict(s, verdict) ==
  /\ assets' = [assets EXCEPT ![s] = [path |-> verdict.path, content |-> assets[s].content]]
  /\ sound' = IF verdict.sound THEN sound \cup {s} ELSE sound \ {s}

(* At startup nothing else runs, and the scan is one step.  (A sound row   *)
(* whose file still has its size is believed: such a scan changes nothing.)*)
Scan(s) ==
  /\ rootUp /\ assets[s] # None
  /\ \/ mode = "recovering" /\ Idle /\ todo = {}
     \/ mode = "up" /\ ~OverlappingScans
  /\ ApplyVerdict(s, Verdict(s))
  /\ UNCHANGED <<disk, jstate, req, proc, env, kept, scan>>

(* The scan a user asks for runs in a thread of its own: it reads the rows,*)
(* hashes files, and then writes the verdicts that differ from what it     *)
(* read, to rows that may have changed.                                    *)
ScanLook(s) ==
  /\ OverlappingScans /\ mode = "up" /\ rootUp
  /\ assets[s] # None /\ scan[s] = NoVerdict
  /\ \/ lib[assets[s].path] = None
     \/ Verdict(s).sound # (s \in sound)
  /\ scan' = [scan EXCEPT ![s] = Verdict(s)]
  /\ UNCHANGED <<disk, db, proc, env, kept>>

ScanWrite(s) ==
  /\ scan[s].path # None
  /\ ApplyVerdict(s, scan[s])
  /\ scan' = [scan EXCEPT ![s] = NoVerdict]
  /\ UNCHANGED <<disk, jstate, req, proc, env, kept>>

(* After commit() returned, the job removes its area.                      *)
RemoveArea(a) ==
  /\ mode = "up" /\ rootUp /\ area[a] = "live"
  /\ \E c \in Commits : req[c] # None /\ req[c].area = a /\ jstate[c] = "done"
  /\ \A c \in Commits : pc[c] # "idle" => req[c].area # a
  /\ area'   = [area EXCEPT ![a] = "gone"]
  /\ staged' = [staged EXCEPT ![a] = None]
  /\ aside'  = [aside EXCEPT ![a] = None]
  /\ UNCHANGED <<rootUp, lib, db, proc, env, kept, scan>>

(* The user cancels the download job: the area is deleted at once, while   *)
(* a commit thread of the job may be running.                              *)
CancelJob(a) ==
  /\ a \in Cancellable
  /\ mode = "up" /\ rootUp /\ area[a] = "live"
  /\ area'   = [area EXCEPT ![a] = "gone"]
  /\ staged' = [staged EXCEPT ![a] = None]
  /\ aside'  = [aside EXCEPT ![a] = None]
  /\ UNCHANGED <<rootUp, lib, db, proc, env, kept, scan>>

-----------------------------------------------------------------------------
(* commit(): the checks, then the journal row.                             *)

CommitCheck(c) ==
  /\ pc[c] = "check"
  /\ rootUp
  /\ Staged(c) # None
  /\ Final(c) # None => req[c].old = req[c].final
  /\ Goto(c, "insert")
  /\ UNCHANGED <<disk, db, mode, todo, env, kept, scan>>

CommitRefuse(c) ==
  /\ pc[c] = "check"
  /\ \/ ~rootUp
     \/ Staged(c) = None
     \/ Final(c) # None /\ req[c].old # req[c].final
  /\ Goto(c, "idle")
  /\ UNCHANGED <<disk, db, mode, todo, env, kept, scan>>

InsertJournal(c) ==
  /\ pc[c] = "insert"
  /\ Staged(c) # None
  /\ req' = [req EXCEPT ![c].sha = Staged(c)]
  /\ SetState(c, "pending")
  /\ Goto(c, "advance")
  /\ UNCHANGED <<disk, assets, sound, mode, todo, env, kept, scan>>

-----------------------------------------------------------------------------
(* _advance, state pending: set the old copy aside, then put the new one   *)
(* in its place without replacing anything.                                *)

At(c, state) == pc[c] = "advance" /\ jstate[c] = state

MustRetire(c) ==
  /\ Old(c) # None
  /\ Aside(c) = None
  /\ ~(req[c].old = req[c].final /\ Final(c) = req[c].sha)

RetireOld(c) ==
  /\ At(c, "pending") /\ MustRetire(c)
  /\ area[req[c].area] = "live"
  /\ lib'   = [lib EXCEPT ![req[c].old] = None]
  /\ aside' = [aside EXCEPT ![req[c].area] = Old(c)]
  /\ kept'  = [kept EXCEPT ![c] = Old(c)]
  /\ Goto(c, "place")
  /\ UNCHANGED <<rootUp, area, staged, db, mode, todo, env, scan>>

NothingToRetire(c) ==
  /\ At(c, "pending") /\ ~MustRetire(c)
  /\ Goto(c, "place")
  /\ UNCHANGED <<disk, db, mode, todo, env, kept, scan>>

(* A crash fell between link and unlink: the final copy is verified.       *)
AlreadyInPlace(c) ==
  /\ pc[c] = "place" /\ Final(c) = req[c].sha
  /\ staged' = [staged EXCEPT ![req[c].area] = None]
  /\ Goto(c, "mark")
  /\ UNCHANGED <<rootUp, lib, area, aside, db, mode, todo, env, kept, scan>>

Occupied(c) ==
  /\ pc[c] = "place" /\ Final(c) \notin {None, req[c].sha}
  /\ SetState(c, "aborted")
  /\ Goto(c, "idle")
  /\ UNCHANGED <<disk, assets, sound, req, mode, todo, env, kept, scan>>

PlaceIsFree(c) ==
  /\ pc[c] = "place" /\ Final(c) = None /\ Staged(c) = req[c].sha
  /\ Goto(c, "link")
  /\ UNCHANGED <<disk, db, mode, todo, env, kept, scan>>

StagedMissing(c) ==
  /\ pc[c] = "place" /\ Final(c) = None /\ Staged(c) # req[c].sha
  /\ SetState(c, "aborted")
  /\ Goto(c, "restore")
  /\ UNCHANGED <<disk, assets, sound, req, mode, todo, env, kept, scan>>

(* Mistake: a move that replaces what is at the target.                    *)
LinkOverFile(c) ==
  /\ pc[c] = "link" /\ HardLinks
  /\ rootUp /\ Staged(c) # None
  /\ lib' = [lib EXCEPT ![req[c].final] = Staged(c)]
  /\ Goto(c, "unlink")
  /\ UNCHANGED <<rootUp, area, staged, aside, db, mode, todo, env, kept, scan>>

(* _move_no_replace: link(2) refuses an existing target ...                *)
LinkFinal(c) ==
  /\ pc[c] = "link" /\ HardLinks
  /\ rootUp /\ Staged(c) # None /\ Final(c) = None
  /\ lib' = [lib EXCEPT ![req[c].final] = Staged(c)]
  /\ Goto(c, "unlink")
  /\ UNCHANGED <<rootUp, area, staged, aside, db, mode, todo, env, kept, scan>>

UnlinkStaged(c) ==
  /\ pc[c] = "unlink"
  /\ Staged(c) # None
  /\ staged' = [staged EXCEPT ![req[c].area] = None]
  /\ Goto(c, "mark")
  /\ UNCHANGED <<rootUp, lib, area, aside, db, mode, todo, env, kept, scan>>

(* ... and where link is not supported the file is renamed instead.        *)
LinkUnsupported(c) ==
  /\ pc[c] = "link" /\ ~HardLinks
  /\ rootUp /\ Staged(c) # None /\ Final(c) = None
  /\ Goto(c, "rename")
  /\ UNCHANGED <<disk, db, mode, todo, env, kept, scan>>

RenameFinal(c) ==
  /\ pc[c] = "rename"
  /\ Staged(c) # None
  /\ lib'    = [lib EXCEPT ![req[c].final] = Staged(c)]
  /\ staged' = [staged EXCEPT ![req[c].area] = None]
  /\ Goto(c, "mark")
  /\ UNCHANGED <<rootUp, area, aside, db, mode, todo, env, kept, scan>>

(* Mistake: a state the schema does not know.                              *)
MarkLinked(c) ==
  /\ pc[c] = "mark"
  /\ SetState(c, "linked")
  /\ Goto(c, "advance")
  /\ UNCHANGED <<disk, assets, sound, req, mode, todo, env, kept, scan>>

MarkMoved(c) ==
  /\ pc[c] = "mark"
  /\ SetState(c, "moved")
  /\ Goto(c, "advance")
  /\ UNCHANGED <<disk, assets, sound, req, mode, todo, env, kept, scan>>

-----------------------------------------------------------------------------
(* _advance, states moved, verified and registered.                        *)

(* Mistake: the old copy goes as soon as the new one is verified.          *)
VerifyAndDropOld(c) ==
  /\ At(c, "moved") /\ Final(c) = req[c].sha
  /\ aside' = [aside EXCEPT ![req[c].area] = None]
  /\ SetState(c, "verified")
  /\ UNCHANGED <<rootUp, lib, area, staged, assets, sound, req, proc, env, kept, scan>>

VerifyFinal(c) ==
  /\ At(c, "moved") /\ Final(c) = req[c].sha
  /\ SetState(c, "verified")
  /\ UNCHANGED <<disk, assets, sound, req, proc, env, kept, scan>>

(* Mistake: the verification of an intact file fails.                      *)
VerifyFailsAnyway(c) ==
  /\ At(c, "moved")
  /\ SetState(c, "aborted")
  /\ Goto(c, "restore")
  /\ UNCHANGED <<disk, assets, sound, req, mode, todo, env, kept, scan>>

VerifyFails(c) ==
  /\ At(c, "moved") /\ Final(c) # req[c].sha
  /\ SetState(c, "aborted")
  /\ Goto(c, "restore")
  /\ UNCHANGED <<disk, assets, sound, req, mode, todo, env, kept, scan>>

(* The registrar refuses a new row for a slot that has one by now.         *)
Conflict(c) == req[c].fresh /\ assets[Slot(c)] # None

(* Mistake: a replacement keeps the path of the row it replaces.           *)
RegisterOldPath(c) ==
  /\ At(c, "verified") /\ ~Conflict(c)
  /\ assets' = [assets EXCEPT ![Slot(c)] =
                  [path |-> IF req[c].old = None THEN req[c].final ELSE req[c].old,
                   content |-> req[c].sha]]
  /\ sound' = sound \cup {Slot(c)}
  /\ SetState(c, "registered")
  /\ UNCHANGED <<disk, req, proc, env, kept, scan>>

(* Mistake: the row and the journal state in two transactions.             *)
RegisterRowOnly(c) ==
  /\ At(c, "verified") /\ ~Conflict(c)
  /\ assets' = [assets EXCEPT ![Slot(c)] =
                  [path |-> req[c].final, content |-> req[c].sha]]
  /\ sound' = sound \cup {Slot(c)}
  /\ UNCHANGED <<disk, jstate, req, proc, env, kept, scan>>

(* One transaction: the row and the journal state.                         *)
Register(c) ==
  /\ At(c, "verified") /\ ~Conflict(c)
  /\ assets' = [assets EXCEPT ![Slot(c)] =
                  [path |-> req[c].final, content |-> req[c].sha]]
  /\ sound' = sound \cup {Slot(c)}
  /\ SetState(c, "registered")
  /\ UNCHANGED <<disk, req, proc, env, kept, scan>>

DropStaged(c) ==
  /\ At(c, "registered")
  /\ staged' = IF rootUp THEN [staged EXCEPT ![req[c].area] = None] ELSE staged
  /\ Goto(c, "drop")
  /\ UNCHANGED <<rootUp, lib, area, aside, db, mode, todo, env, kept, scan>>

(* The old copy goes only once the new one is registered.                  *)
DropOld(c) ==
  /\ pc[c] = "drop"
  /\ aside' = IF rootUp /\ req[c].old # None
                THEN [aside EXCEPT ![req[c].area] = None] ELSE aside
  /\ Goto(c, "close")
  /\ UNCHANGED <<rootUp, lib, area, staged, db, mode, todo, env, kept, scan>>

Close(c) ==
  /\ pc[c] = "close"
  /\ SetState(c, "done")
  /\ Goto(c, "idle")
  /\ UNCHANGED <<disk, assets, sound, req, mode, todo, env, kept, scan>>

(* Mistake: restoring without looking whether the place is free.           *)
MustRestoreOver(c) == req[c].old # None /\ Aside(c) # None

(* _restore, after the state became "aborted".                             *)
MustRestore(c) == req[c].old # None /\ Aside(c) # None /\ Old(c) = None

RestoreOld(c) ==
  /\ pc[c] = "restore" /\ MustRestore(c)
  /\ lib'   = [lib EXCEPT ![req[c].old] = Aside(c)]
  /\ aside' = [aside EXCEPT ![req[c].area] = None]
  /\ Goto(c, "idle")
  /\ UNCHANGED <<rootUp, area, staged, db, mode, todo, env, kept, scan>>

NothingToRestore(c) ==
  /\ pc[c] = "restore" /\ ~MustRestore(c)
  /\ Goto(c, "idle")
  /\ UNCHANGED <<disk, db, mode, todo, env, kept, scan>>

(* Mistake: waiting for a staged file that is gone, instead of failing.    *)
MustFailLess(c) ==
  \/ pc[c] = "link" /\ Final(c) # None
  \/ At(c, "pending") /\ MustRetire(c) /\ area[req[c].area] # "live"
  \/ At(c, "verified") /\ Conflict(c)

(* An exception ends the thread and leaves the journal as it stands: a     *)
(* call that must fail (unmounted location, missing file, target taken,    *)
(* registrar conflict), or one of at most MaxFaults I/O errors.            *)
MustFail(c) ==
  \/ pc[c] \in {"insert", "link", "unlink", "rename"} /\ Staged(c) = None
  \/ pc[c] = "link" /\ Final(c) # None
  \/ At(c, "pending") /\ MustRetire(c) /\ area[req[c].area] # "live"
  \/ At(c, "verified") /\ Conflict(c)

Raise(c) ==
  /\ pc[c] # "idle"
  /\ \/ MustFail(c) /\ UNCHANGED faults
     \/ faults < MaxFaults /\ faults' = faults + 1
  /\ Goto(c, "idle")
  /\ UNCHANGED <<disk, db, mode, todo, crashes, flaps, tampers, touched, kept, scan>>

Commit(c) == CommitCheck(c) \/ CommitRefuse(c) \/ InsertJournal(c)

Move(c) ==
  \/ RetireOld(c) \/ NothingToRetire(c)
  \/ AlreadyInPlace(c) \/ Occupied(c) \/ PlaceIsFree(c) \/ StagedMissing(c)
  \/ LinkFinal(c) \/ UnlinkStaged(c) \/ LinkUnsupported(c) \/ RenameFinal(c)
  \/ MarkMoved(c)

Finish(c) ==
  \/ VerifyFinal(c) \/ VerifyFails(c) \/ Register(c)
  \/ DropStaged(c) \/ DropOld(c) \/ Close(c)
  \/ RestoreOld(c) \/ NothingToRestore(c)

Thread(c) == Commit(c) \/ Move(c) \/ Finish(c) \/ Raise(c)

-----------------------------------------------------------------------------
(* Crash, restart and recover(): the open entries one after the other.     *)

Crash ==
  /\ mode # "down" /\ crashes < MaxCrashes
  /\ crashes' = crashes + 1
  /\ mode' = "down" /\ todo' = {}
  /\ pc' = [c \in Commits |-> "idle"]
  /\ scan' = [s \in Slots |-> NoVerdict]
  /\ UNCHANGED <<disk, db, faults, flaps, tampers, touched, kept>>

Restart ==
  /\ mode = "down"
  /\ mode' = "recovering"
  /\ todo' = {c \in Commits : Open(c)}
  /\ UNCHANGED <<disk, db, pc, env, kept, scan>>

(* Mistake: an entry is ticked off but not worked on.                      *)
RecoverSkips(c) ==
  /\ mode = "recovering" /\ Idle /\ c \in todo
  /\ todo' = todo \ {c}
  /\ UNCHANGED <<disk, db, pc, mode, env, kept, scan>>

Recover(c) ==
  /\ mode = "recovering" /\ Idle /\ c \in todo
  /\ todo' = todo \ {c}
  /\ pc' = IF rootUp THEN [pc EXCEPT ![c] = "advance"] ELSE pc
  /\ UNCHANGED <<disk, db, mode, env, kept, scan>>

(* Startup then removes staging areas whose owners have ended; an area     *)
(* with an open journal entry is protected.                                *)
CleanArea(a) ==
  /\ mode = "recovering" /\ Idle /\ todo = {}
  /\ rootUp /\ area[a] = "live"
  /\ \A c \in Commits : Open(c) => req[c].area # a
  /\ area'   = [area EXCEPT ![a] = "gone"]
  /\ staged' = [staged EXCEPT ![a] = None]
  /\ aside'  = [aside EXCEPT ![a] = None]
  /\ UNCHANGED <<rootUp, lib, db, proc, env, kept, scan>>

Serve ==
  /\ mode = "recovering" /\ Idle /\ todo = {}
  /\ mode' = "up"
  /\ UNCHANGED <<disk, db, todo, pc, env, kept, scan>>

-----------------------------------------------------------------------------
(* The environment: the location comes and goes, and somebody else writes *)
(* or deletes a file of the library.                                       *)

RootLost ==
  /\ rootUp /\ flaps < MaxFlaps
  /\ rootUp' = FALSE /\ flaps' = flaps + 1
  /\ UNCHANGED <<lib, area, staged, aside, db, proc,
                 crashes, faults, tampers, touched, kept, scan>>

RootBack ==
  /\ ~rootUp /\ rootUp' = TRUE
  /\ UNCHANGED <<lib, area, staged, aside, db, proc, env, kept, scan>>

Tamper(p, x) ==
  /\ rootUp /\ tampers < MaxTampers /\ lib[p] # x
  /\ lib' = [lib EXCEPT ![p] = x]
  /\ tampers' = tampers + 1 /\ touched' = touched \cup {p}
  /\ UNCHANGED <<rootUp, area, staged, aside, db, proc,
                 crashes, faults, flaps, kept, scan>>

Owner ==
  \/ \E a \in Areas, x \in Artifacts : Stage(a, x)
  \/ \E c \in Commits, a \in Areas, f \in Paths : Request(c, a, f)
  \/ \E s \in Slots : MarkMissing(s) \/ Scan(s) \/ ScanLook(s) \/ ScanWrite(s)
  \/ \E a \in Areas : RemoveArea(a) \/ CancelJob(a) \/ CleanArea(a)

Environment ==
  \/ Crash \/ RootLost \/ RootBack
  \/ \E p \in Paths, x \in {Junk, None} : Tamper(p, x)

Startup == Restart \/ Serve \/ \E c \in Commits : Recover(c)

Next == Owner \/ (\E c \in Commits : Thread(c)) \/ Startup \/ Environment

Spec == Init /\ [][Next]_vars

(* Threads and startup run; nothing obliges a user, a crash or a disk.     *)
Fairness == WF_vars(Startup) /\ \A c \in Commits : WF_vars(Thread(c))

FairSpec == Spec /\ Fairness

-----------------------------------------------------------------------------
(* Properties.                                                             *)

(* Every variable has its type (the schema's CHECK constraints, and the    *)
(* program points of commit() and _advance).                               *)
TypeOK ==
  /\ rootUp \in BOOLEAN
  /\ lib \in [Paths -> Files]
  /\ area \in [Areas -> {"new", "live", "gone"}]
  /\ staged \in [Areas -> Artifacts \cup {None}]
  /\ aside \in [Areas -> Files]
  /\ assets \in [Slots -> Rows \cup {None}] /\ sound \subseteq Slots
  /\ jstate \in [Commits -> OpenStates \cup {"none", "done", "aborted"}]
  /\ req \in [Commits -> Requests \cup {None}]
  /\ mode \in {"up", "down", "recovering"}
  /\ todo \subseteq Commits
  /\ pc \in [Commits -> PCs]
  /\ scan \in [Slots -> Verdicts]
  /\ crashes \in 0..MaxCrashes /\ faults \in 0..MaxFaults
  /\ flaps \in 0..MaxFlaps /\ tampers \in 0..MaxTampers
  /\ touched \subseteq Paths
  /\ kept \in [Commits -> Files]

(* "Existing files are never overwritten": a commit never changes or       *)
(* removes a library file, except by moving the copy it replaces aside.    *)
NoOverwrite ==
  [][\A p \in Paths : lib[p] # None /\ lib'[p] # lib[p] =>
       \/ tampers' # tampers
       \/ /\ lib'[p] = None
          /\ \E c \in Commits : /\ req[c] # None /\ req[c].old = p
                                /\ aside'[req[c].area] = lib[p]]_vars

(* A retired old copy is not given up before a new one is registered: as   *)
(* long as the journal entry that set it aside may still fail, the file is *)
(* in the area of a commit to the same slot, or back at a path that a      *)
(* commit to the slot replaces (unless somebody else changed it there), or *)
(* another call gave the slot its new copy, or set that same file aside    *)
(* again and has aborted.                                                  *)
SameSlot(c) == {d \in Commits : req[d] # None /\ Slot(d) = Slot(c)}

InArea(c)   == \E d \in SameSlot(c) : aside[req[d].area] = kept[c]
Back(c)     == \E d \in SameSlot(c) :
                 /\ req[d].old # None
                 /\ lib[req[d].old] = kept[c] \/ req[d].old \in touched
Replaced(c) == \E d \in SameSlot(c) : jstate[d] \in {"registered", "done"}
TakenByAborted(c) ==
  \E d \in SameSlot(c) : kept[d] = kept[c] /\ jstate[d] = "aborted"

OldCopyKept ==
  \A c \in Commits :
    kept[c] # None /\ jstate[c] \in {"pending", "moved", "verified"} =>
      InArea(c) \/ Back(c) \/ Replaced(c) \/ TakenByAborted(c)

(* Only a verified artifact is registered, and a registered file stays: as *)
(* long as a slot's commits come one at a time and nobody else changed its *)
(* path, the file of a row that a commit has written is at its path with   *)
(* the recorded content, and the row says so: whatever was canceled, lost  *)
(* its location or crashed, and with or without hard links.                *)
RegisteredFileIsThere ==
  \A s \in Slots :
    /\ assets[s] # None /\ assets[s].content \in Artifacts
    /\ assets[s].path \notin touched
    => lib[assets[s].path] = assets[s].content /\ s \in sound

(* Nothing a commit put into the library is left there unaccounted for: an *)
(* artifact in the library is what the sound row of a slot says is there,  *)
(* or belongs to a journal entry that is still open.                       *)
NoOrphanArtifact ==
  \A p \in Paths :
    lib[p] \in Artifacts =>
      \/ \E s \in sound : assets[s] = [path |-> p, content |-> lib[p]]
      \/ \E c \in Commits : Open(c) /\ req[c].final = p

(* "If the commit aborts, the old file is put back": once the thread of an *)
(* aborted entry has ended, and the process serves on a mounted location,  *)
(* no old copy is left in the entry's area while its own place is empty.   *)
(* (Of entries whose final path nobody has taken: those that were aborted  *)
(* because the artifact was missing or failed its verification.)           *)
LeftAside(c) ==
  /\ jstate[c] = "aborted" /\ pc[c] = "idle" /\ kept[c] # None
  /\ mode = "up" /\ rootUp
  /\ aside[req[c].area] # None /\ lib[req[c].old] = None

AbortPutsBackIfFree ==
  \A c \in Commits : LeftAside(c) => lib[req[c].final] # None

(* "One bad entry must not block recovery of the others or startup":       *)
(* recover() ends, whichever of its entries fail, lose their location or   *)
(* find their files gone.                                                  *)
StartupEnds == mode = "recovering" ~> mode # "recovering"

(* Recovery settles what it looks at: an entry that was open at a restart  *)
(* gets closed, unless its registration conflicts with a row that exists   *)
(* by now, the process dies again, an I/O error interferes or the location *)
(* has been away.                                                          *)
RecoverySettles ==
  \A c \in Commits :
    c \in todo ~> \/ ~Open(c)
                  \/ mode = "down"
                  \/ jstate[c] = "verified" /\ Conflict(c)
                  \/ faults > 0 \/ flaps > 0

(* The journal implements an atomic publication.                           *)
Phase(c) ==
  CASE jstate[c] = "none"                            -> "new"
    [] jstate[c] \in {"pending", "moved", "verified"} -> "open"
    [] jstate[c] = "registered"                      -> "published"
    [] jstate[c] = "done"                            -> "closed"
    [] jstate[c] = "aborted"                         -> "refused"

Promise(c) ==
  IF jstate[c] = "none" THEN None
  ELSE [slot |-> Slot(c), row |-> [path |-> req[c].final, content |-> req[c].sha]]

Publication == INSTANCE AssetPublication WITH
  promise <- [c \in Commits |-> Promise(c)],
  phase   <- [c \in Commits |-> Phase(c)]

(* Every step of the journal publishes, closes or refuses at most one call *)
(* or is invisible; a crash never is more than a pause.                    *)
ImplementsPublication == Publication!Spec

(* A startup ends, and settles what it finds open.                         *)
RecoveryCompletes == StartupEnds /\ RecoverySettles
=============================================================================
