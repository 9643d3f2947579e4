---------------------------- MODULE Storage_proofs ----------------------------
(* That what is written to disk is neither lost nor torn (MCStorage), for every  *)
(* set of files, backups, imports, exports, assets, adapters and layouts: of     *)
(* each component an inductive invariant, why it holds at the start, and why     *)
(* each of its steps keeps it, then what that says of all.                       *)
EXTENDS MCStorage, FiniteSetTheorems, SequenceTheorems, WellFoundedInduction, TLAPS

-----------------------------------------------------------------------------
(* Storage migration.                                                        *)

Final == {"completed", "old_copy_removed"}
AssetRows == {None} \cup [is : Contents, integrity : {"ok", "missing"}]
EntryRows == {None} \cup [state : {"pending", "copied", "verified"}, sum : Contents]
FileTable == [Places -> [Paths -> Contents \cup {None}]]

(* What is registered and sound can be read where the root is now.               *)
Readable == \A p \in Paths \ stranded : assets[p] # None /\ assets[p].integrity = "ok" => file[rootAt][p] # None

(* Where the worker is tells what it has at hand; the root is switched before it *)
(* is reconciled, and reconciled before the migration is complete.               *)
WorkerAgrees ==
  /\ worker \in {"copy", "publish", "mark"} => cursor \in Entries
  /\ worker \in {"copy", "publish"} => cursor \notin linked
  /\ worker = "publish" => staged[cursor] # None
  /\ migration \in {None} \cup Final => worker = "idle"
  /\ worker \in {"reconcile", "complete"} \/ migration \in Final => rootAt = "new"
  /\ worker = "complete" \/ migration \in Final => Readable

MigrationInv == MigrationTypeOK /\ WorkerAgrees /\ ContentSomewhere

(* None stands for nothing there is.                                          *)
LEMMA NoneIsNothing == /\ None \notin Contents /\ None \notin Paths /\ None # Empty /\ None \notin MigrationStates
                       /\ None \notin [is : Contents, integrity : {"ok", "missing"}]
                       /\ None \notin [state : {"pending", "copied", "verified"}, sum : Contents]
                       /\ None \notin [path : Paths, at : Places, is : {Newer}]
BY MigrationAssumption

(* Everything is in the old directory before there is a migration.               *)
LEMMA MigrationInitially == MigrationInit => MigrationInv
<1> SUFFICES ASSUME MigrationInit PROVE MigrationInv
  OBVIOUS
<1> USE DEF MigrationInit
<1>1. MigrationTypeOK
  BY DEF MigrationTypeOK, Places, Contents, Paths, WorkerSteps
<1>2. WorkerAgrees
  BY NoneIsNothing DEF WorkerAgrees, Final, MigrationStates
<1>3. ContentSomewhere
  BY DEF ContentSomewhere, Places, Paths
<1> QED BY <1>1, <1>2, <1>3 DEF MigrationInv

(* What every step may do with a file of another program.                        *)
StrangersOK ==
  \A p \in Paths : file["new"][p] = Foreign /\ (file["new"][p])' # Foreign => commit # None /\ commit.path = p

-----------------------------------------------------------------------------
(* Steps that touch no file and no asset.                                        *)
FilesRest == UNCHANGED <<file, staged, linked, rootAt, assets, stranded>>

(* What a step that touches no file and no asset owes.                        *)
LEMMA RestKeeps ==
  ASSUME MigrationInv, FilesRest, WorkerAgrees',
         workspace' \in {"none", "dir", "owned"},
         staging' \in {None, Empty, Original}, marker' \in {None, Empty, Original, Foreign},
         migration' \in MigrationStates \cup {None}, worker' \in WorkerSteps,
         entry' \in [Paths -> EntryRows], cursor' \in Paths \cup {None}, done' \subseteq Paths,
         commit' \in {None} \cup [path : Paths, at : Places, is : {Newer}]
  PROVE  MigrationInv' /\ StrangersOK
<1>1. MigrationTypeOK'
  BY DEF MigrationInv, MigrationTypeOK, FilesRest, EntryRows
<1>2. ContentSomewhere' /\ StrangersOK
  BY DEF MigrationInv, ContentSomewhere, FilesRest, StrangersOK
<1> QED BY <1>1, <1>2 DEF MigrationInv

(* The worker stops with a failure.                                           *)
LEMMA FailsAgrees == ASSUME MigrationInv, worker # "idle", FilesRest, Fails PROVE WorkerAgrees' /\ migration' \in MigrationStates
BY NoneIsNothing DEF Fails, WorkerAgrees, Final, MigrationStates

(* A migration is asked for, begun and resumed.                               *)
LEMMA BeginSteps ==
  ASSUME MigrationInv, Plan \/ Resume \/ Begin \/ Own
  PROVE  MigrationInv' /\ StrangersOK
<1> USE NoneIsNothing DEF MigrationInv
<1>1. FilesRest /\ UNCHANGED <<commit, marker, staging>>
  BY DEF Plan, Resume, Begin, Own, FilesRest, libraryVars, commitVars, markerVars
<1>2. /\ workspace' \in {"none", "dir", "owned"} /\ migration' \in MigrationStates \cup {None} /\ worker' \in WorkerSteps
      /\ cursor' \in Paths \cup {None} /\ done' \subseteq Paths
  BY DEF Plan, Resume, Begin, Own, MigrationTypeOK, markerVars, rowVars, WorkerAt, Fails, MigrationStates, WorkerSteps
<1>3. entry' \in [Paths -> EntryRows]
  <2>1. CASE Plan
    <3>1. \A p \in Paths : assets[p] # None => assets[p].is \in Contents
      BY DEF MigrationTypeOK
    <3> QED BY <2>1, <3>1 DEF Plan, EntryRows
  <2>2. CASE ~Plan
    BY <2>2 DEF Resume, Begin, Own, MigrationTypeOK, rowVars, EntryRows
  <2> QED BY <2>1, <2>2
<1>5. WorkerAgrees'
  <2>1. CASE Begin /\ Fails
    BY <1>1, <2>1, FailsAgrees DEF Begin
  <2>2. CASE ~Fails
    <3>1. worker' \in {"begin", "own", "choose"} /\ migration' \notin Final /\ (migration' # None)
      BY <2>2 DEF Plan, Resume, Begin, Own, WorkerAt, rowVars, Final, WorkerAgrees, MigrationStates
    <3> QED BY <3>1, <1>1 DEF WorkerAgrees, FilesRest
  <2>3. ~Plan \/ ~Fails
    BY DEF Plan, Fails
  <2>4. ~Resume \/ ~Fails
    BY DEF Resume, Fails
  <2>5. ~Own \/ ~Fails
    BY DEF Own, Fails
  <2> QED BY <2>1, <2>2, <2>3, <2>4, <2>5
<1> QED BY <1>1, <1>2, <1>3, <1>5, RestKeeps DEF MigrationTypeOK

(* The worker goes through the files that were planned.                          *)
LEMMA EntryMarked ==
  ASSUME entry \in [Paths -> EntryRows], NEW p \in Entries, NEW s \in {"copied", "verified"},
         entry' = [entry EXCEPT ![p].state = s]
  PROVE  entry' \in [Paths -> EntryRows] /\ Entries' = Entries
<1>1. p \in Paths /\ entry[p] # None /\ entry[p] \in EntryRows
  BY DEF Entries
<1>2. entry[p] \in [state : {"pending", "copied", "verified"}, sum : Contents]
  BY <1>1 DEF EntryRows
<1>3. [entry[p] EXCEPT !.state = s] \in [state : {"pending", "copied", "verified"}, sum : Contents]
  BY <1>2
<1>4. entry' = [entry EXCEPT ![p] = [entry[p] EXCEPT !.state = s]]
  OBVIOUS
<1>5. entry' \in [Paths -> EntryRows] /\ \A q \in Paths : entry'[q] = IF q = p THEN [entry[p] EXCEPT !.state = s] ELSE entry[q]
  BY <1>1, <1>3, <1>4 DEF EntryRows
<1>6. [entry[p] EXCEPT !.state = s] # None
  BY <1>3, NoneIsNothing
<1> QED BY <1>1, <1>5, <1>6 DEF Entries

(* The entries are planned, verified and marked.                              *)
LEMMA EntrySteps ==
  ASSUME MigrationInv, Choose \/ MarkCopied \/ Copied \/ Verify \/ Verified
  PROVE  MigrationInv' /\ StrangersOK
<1> USE NoneIsNothing DEF MigrationInv
<1>1. FilesRest /\ UNCHANGED <<commit, workspace, marker, staging>>
  BY DEF Choose, MarkCopied, Copied, Verify, Verified, FilesRest, libraryVars, commitVars, markerVars
<1>2. worker \in {"choose", "mark", "verify"} /\ migration \notin {None} \cup Final /\ Entries \subseteq Paths
  BY DEF Choose, MarkCopied, Copied, Verify, Verified, WorkerAgrees, Entries
<1>3. entry \in [Paths -> EntryRows]
  BY DEF MigrationTypeOK, EntryRows
<1>4. CASE Choose
  <2> PICK p \in Entries \ done :
       /\ cursor' = p
       /\ IF entry[p].state # "pending" THEN done' = done \cup {p} /\ UNCHANGED <<worker, migration>>
          ELSE IF file["new"][p] = None THEN WorkerAt("copy") /\ UNCHANGED <<done, migration>>
          ELSE IF IsOurs(p) THEN WorkerAt("mark") /\ UNCHANGED <<done, migration>>
          ELSE migration' = "failed" /\ worker' = "idle" /\ done' = {}
    BY <1>4 DEF Choose
  <2>1. UNCHANGED entry /\ Entries' = Entries /\ worker = "choose"
    BY <1>4 DEF Choose, Entries
  <2>2. /\ migration' \in MigrationStates \cup {None} /\ worker' \in WorkerSteps
        /\ cursor' \in Paths \cup {None} /\ done' \subseteq Paths
    <3>1. p \in Paths /\ done \subseteq Paths /\ migration \in MigrationStates \cup {None} /\ worker \in WorkerSteps
      BY <1>2 DEF MigrationTypeOK
    <3>2. migration' \in {migration, "failed"} /\ worker' \in {worker, "copy", "mark", "idle"} /\ done' \in {done, done \cup {p}, {}}
      BY DEF WorkerAt
    <3> QED BY <3>1, <3>2 DEF MigrationStates, WorkerSteps
  <2>3. worker' = "copy" => p \notin linked
    BY <1>2, <2>1 DEF WorkerAt, MigrationTypeOK
  <2>4. migration' \notin {None} \cup Final /\ worker' \in {"choose", "copy", "mark", "idle"}
    BY <1>2, <2>1 DEF WorkerAt, Final, MigrationStates
  <2>5. WorkerAgrees'
    BY <1>1, <2>1, <2>3, <2>4 DEF WorkerAgrees, FilesRest
  <2> QED BY <1>1, <1>3, <2>1, <2>2, <2>5, RestKeeps DEF MigrationTypeOK
<1>5. CASE MarkCopied
  <2>1. cursor \in Entries /\ entry' = [entry EXCEPT ![cursor].state = "copied"] /\ worker' = "choose" /\ done' = done \cup {cursor}
        /\ UNCHANGED <<migration, cursor>>
    BY <1>5 DEF MarkCopied, WorkerAgrees, WorkerAt
  <2>2. entry' \in [Paths -> EntryRows]
    BY <1>3, <2>1, EntryMarked
  <2>3. WorkerAgrees'
    BY <1>1, <1>2, <2>1 DEF WorkerAgrees, FilesRest
  <2> QED BY <1>1, <1>2, <2>1, <2>2, <2>3, RestKeeps DEF MigrationTypeOK, WorkerSteps
<1>6. CASE Copied \/ Verified
  <2>1. UNCHANGED entry /\ worker' \in {"verify", "open marker", "publish marker"} /\ migration' \in {migration, "verifying"} /\ done' = {}
        /\ cursor' \in {cursor, None}
    BY <1>6 DEF Copied, Verified, WorkerAt, rowVars
  <2>3. WorkerAgrees'
    BY <1>1, <1>2, <2>1 DEF WorkerAgrees, FilesRest, Final, MigrationStates
  <2>4. /\ workspace' \in {"none", "dir", "owned"} /\ staging' \in {None, Empty, Original}
        /\ marker' \in {None, Empty, Original, Foreign} /\ commit' \in {None} \cup [path : Paths, at : Places, is : {Newer}]
    BY <1>1 DEF MigrationTypeOK
  <2>5. /\ migration' \in MigrationStates \cup {None} /\ worker' \in WorkerSteps
        /\ cursor' \in Paths \cup {None} /\ done' \subseteq Paths /\ entry' \in [Paths -> EntryRows]
    BY <1>3, <2>1 DEF MigrationTypeOK, WorkerSteps, MigrationStates
  <2> QED BY <1>1, <2>3, <2>4, <2>5, RestKeeps
<1>7. CASE Verify
  <2> PICK p \in Entries \ done :
       IF Matches("new", p)
       THEN /\ entry' = [entry EXCEPT ![p].state = "verified"] /\ done' = done \cup {p}
            /\ UNCHANGED <<migration, worker, cursor>>
       ELSE Fails /\ UNCHANGED entry
    BY <1>7 DEF Verify
  <2>0. worker = "verify"
    BY <1>7 DEF Verify
  <2>1. CASE Matches("new", p)
    <3>1. entry' \in [Paths -> EntryRows]
      BY <1>3, <2>1, EntryMarked
    <3>2. WorkerAgrees'
      BY <1>1, <1>2, <2>0, <2>1 DEF WorkerAgrees, FilesRest
    <3> QED BY <1>1, <1>2, <2>1, <3>1, <3>2, RestKeeps DEF MigrationTypeOK
  <2>2. CASE ~Matches("new", p)
    <3>1. WorkerAgrees' /\ migration' \in MigrationStates
      BY <1>1, <2>0, <2>2, FailsAgrees
    <3> QED BY <1>1, <1>3, <2>2, <3>1, RestKeeps DEF MigrationTypeOK, Fails, WorkerSteps
  <2> QED BY <2>1, <2>2
<1> QED BY <1>4, <1>5, <1>6, <1>7

(* The marker, the switch, and the end; others who touch none of the files.      *)
LEMMA MarkerSteps ==
  ASSUME MigrationInv,
         \/ OpenMarker \/ WriteMarker \/ PublishMarker \/ Switch \/ Complete
         \/ IoError \/ RegisterThere \/ \E p \in Paths : CommitStarts(p)
  PROVE  MigrationInv' /\ StrangersOK
<1> USE NoneIsNothing DEF MigrationInv
<1>1. FilesRest /\ UNCHANGED entry
  BY DEF OpenMarker, WriteMarker, PublishMarker, Switch, Complete, IoError, RegisterThere, CommitStarts, FilesRest, libraryVars,
         commitVars, rowVars
<1>2. entry' \in [Paths -> EntryRows]
  BY <1>1 DEF MigrationTypeOK, EntryRows
<1>3. commit' \in {None} \cup [path : Paths, at : Places, is : {Newer}]
  <2>1. ASSUME NEW p \in Paths, CommitStarts(p) PROVE commit' \in [path : Paths, at : Places, is : {Newer}]
    BY <2>1 DEF CommitStarts, MigrationTypeOK
  <2> QED BY <2>1 DEF OpenMarker, WriteMarker, PublishMarker, Switch, Complete, IoError, RegisterThere, MigrationTypeOK, commitVars
<1>4. /\ workspace' \in {"none", "dir", "owned"} /\ staging' \in {None, Empty, Original}
      /\ marker' \in {None, Empty, Original, Foreign}
  BY DEF OpenMarker, WriteMarker, PublishMarker, Switch, Complete, IoError, RegisterThere, CommitStarts, MigrationTypeOK, markerVars
<1>5. /\ migration' \in MigrationStates \cup {None} /\ worker' \in WorkerSteps
      /\ cursor' \in Paths \cup {None} /\ done' \subseteq Paths
  BY DEF OpenMarker, WriteMarker, PublishMarker, Switch, Complete, IoError, RegisterThere, CommitStarts, MigrationTypeOK,
         workerVars, rowVars, WorkerAt, Fails, MigrationStates, WorkerSteps
<1>6. WorkerAgrees'
  <2>1. CASE IoError
    BY <1>1, <2>1, FailsAgrees DEF IoError
  <2>2. CASE RegisterThere \/ \E p \in Paths : CommitStarts(p)
    BY <1>1, <2>2 DEF RegisterThere, CommitStarts, WorkerAgrees, FilesRest, workerVars, rowVars, Entries, Readable
  <2>3. CASE OpenMarker \/ WriteMarker \/ PublishMarker \/ Switch
    <3>1. worker # "idle" /\ worker' \in {"write marker", "publish marker", "switch", "remap"} /\ migration' \in {migration, "switched"}
      BY <2>3 DEF OpenMarker, WriteMarker, PublishMarker, Switch, WorkerAt, rowVars
    <3> QED BY <1>1, <3>1 DEF WorkerAgrees, FilesRest, Final, MigrationStates
  <2>4. CASE Complete
    BY <1>1, <2>4 DEF Complete, WorkerAt, WorkerAgrees, FilesRest, Final, Readable
  <2> QED BY <2>1, <2>2, <2>3, <2>4
<1> QED BY <1>1, <1>2, <1>3, <1>4, <1>5, <1>6, RestKeeps

-----------------------------------------------------------------------------
(* Steps that write files.                                                       *)

(* One file of one place is written.                                          *)
LEMMA FileWritten ==
  ASSUME file \in FileTable, NEW l \in Places, NEW q \in Paths, NEW c \in Contents \cup {None}, NEW f, f = [file EXCEPT ![l][q] = c]
  PROVE  f \in FileTable /\ \A m \in Places, p \in Paths : f[m][p] = IF m = l /\ p = q THEN c ELSE file[m][p]
BY DEF FileTable

(* A file is copied into the staging directory, or published.                 *)
LEMMA CopySteps == ASSUME MigrationInv, CopyFile \/ Publish PROVE MigrationInv' /\ StrangersOK
<1> USE NoneIsNothing DEF MigrationInv
<1>0. /\ cursor \in Paths /\ entry[cursor] # None /\ cursor \notin linked /\ migration \notin {None} \cup Final
      /\ entry[cursor].sum \in Contents /\ worker # "idle"
  <2>1. cursor \in Entries /\ cursor \notin linked /\ migration \notin {None} \cup Final /\ worker # "idle"
    BY DEF CopyFile, Publish, WorkerAgrees
  <2> QED BY <2>1 DEF Entries, MigrationTypeOK
<1>1. UNCHANGED <<workspace, staging, marker, commit, stranded, rootAt, assets, entry>> /\ Entries' = Entries
  BY DEF CopyFile, Publish, markerVars, commitVars, libraryVars, Entries
<1>2. CASE FilesRest /\ Fails
  <2>1. WorkerAgrees' /\ migration' \in MigrationStates
    BY <1>0, <1>2, FailsAgrees
  <2> QED BY <1>1, <1>2, <2>1, RestKeeps DEF MigrationTypeOK, EntryRows, Fails, WorkerSteps
<1>3. CASE CopyFile /\ ~Fails
  <2>1. /\ staged' = [staged EXCEPT ![cursor] = entry[cursor].sum] /\ worker' = "publish"
        /\ UNCHANGED <<file, linked, migration, cursor, done>> /\ worker = "copy"
    BY <1>3 DEF CopyFile, WorkerAt
  <2>2. staged' \in [Paths -> Contents \cup {None}] /\ staged'[cursor] # None
        /\ \A p \in Paths \ {cursor} : staged'[p] = staged[p]
    BY <1>0, <2>1 DEF MigrationTypeOK
  <2>3. MigrationTypeOK'
    BY <1>0, <1>1, <2>1, <2>2 DEF MigrationTypeOK, WorkerSteps
  <2>4. WorkerAgrees'
    BY <1>0, <1>1, <2>1, <2>2 DEF WorkerAgrees
  <2>5. ContentSomewhere' /\ StrangersOK
    BY <1>1, <2>1 DEF ContentSomewhere, StrangersOK
  <2> QED BY <2>3, <2>4, <2>5
<1>4. CASE Publish /\ ~Fails
  <2>1. /\ file["new"][cursor] = None /\ file' = [file EXCEPT !["new"][cursor] = staged[cursor]]
        /\ linked' = linked \cup {cursor} /\ worker' = "mark" /\ UNCHANGED <<staged, migration, cursor, done>>
        /\ worker = "publish"
    BY <1>4 DEF Publish, WorkerAt
  <2>2. staged[cursor] \in Contents
    BY <1>0, <2>1 DEF WorkerAgrees, MigrationTypeOK
  <2>3. file' \in FileTable /\ \A m \in Places, p \in Paths : file'[m][p] = IF m = "new" /\ p = cursor THEN staged[cursor] ELSE file[m][p]
    BY <1>0, <2>1, <2>2, FileWritten DEF MigrationTypeOK, FileTable, Places
  <2>4. MigrationTypeOK'
    BY <1>0, <1>1, <2>1, <2>2, <2>3 DEF MigrationTypeOK, FileTable, Places, WorkerSteps
  <2>5. WorkerAgrees'
    BY <1>0, <1>1, <2>1 DEF WorkerAgrees
  <2>6. ContentSomewhere'
    BY <1>0, <1>1, <2>1, <2>3 DEF ContentSomewhere, Places, MigrationTypeOK
  <2>7. StrangersOK
    BY <1>0, <2>1, <2>3 DEF StrangersOK, Places, Contents
  <2> QED BY <2>4, <2>5, <2>6, <2>7
<1>5. (CopyFile \/ Publish) /\ Fails => FilesRest
  <2>1. CopyFile /\ Fails => FilesRest
    BY DEF CopyFile, Fails, WorkerAt, FilesRest, libraryVars, commitVars
  <2>2. Publish /\ Fails => FilesRest
    BY DEF Publish, Fails, WorkerAt, FilesRest, libraryVars, commitVars
  <2> QED BY <2>1, <2>2
<1> QED BY <1>2, <1>3, <1>4, <1>5

(* Another program's file, a damaged copy.                                       *)
LEMMA FaultSteps == ASSUME MigrationInv, NEW q \in Paths, Stranger(q) \/ Damage(q) PROVE MigrationInv' /\ StrangersOK
<1> USE NoneIsNothing DEF MigrationInv
<1>1. UNCHANGED <<workspace, staging, marker, commit, stranded, rootAt, assets, entry, migration, worker, cursor, done, linked>>
      /\ Entries' = Entries
  BY DEF Stranger, Damage, markerVars, workerVars, commitVars, rowVars, libraryVars, Entries
<1>2. file' = [file EXCEPT !["new"][q] = Foreign]
  BY DEF Stranger, Damage
<1>3. file' \in FileTable /\ \A m \in Places, p \in Paths : file'[m][p] = IF m = "new" /\ p = q THEN Foreign ELSE file[m][p]
  BY <1>2, FileWritten DEF MigrationTypeOK, FileTable, Places, Contents
<1>4. staged' \in [Paths -> Contents \cup {None}]
      /\ \A p \in Paths : staged'[p] = IF p = q /\ q \in linked THEN Foreign ELSE staged[p]
  <2>1. CASE Stranger(q)
    BY <2>1 DEF Stranger, MigrationTypeOK
  <2>2. CASE Damage(q)
    BY <2>2 DEF Damage, MigrationTypeOK, Contents
  <2> QED BY <2>1, <2>2
<1>5. MigrationTypeOK'
  BY <1>1, <1>3, <1>4 DEF MigrationTypeOK, FileTable, Places, Contents
<1>6. Readable => Readable'
  <2>1. \A m \in Places, p \in Paths : file[m][p] # None => file'[m][p] # None
    BY <1>3 DEF Contents
  <2> QED BY <1>1, <2>1 DEF Readable, MigrationTypeOK
<1>7. WorkerAgrees'
  BY <1>1, <1>4, <1>6 DEF WorkerAgrees, Contents, Entries
<1>8. file["new"][q] \in {None, file["old"][q]}
  BY DEF Stranger, Damage
<1>9. ContentSomewhere'
  BY <1>1, <1>3, <1>8 DEF ContentSomewhere, Places, MigrationTypeOK
<1>10. StrangersOK
  BY <1>3 DEF StrangersOK, Places
<1> QED BY <1>5, <1>7, <1>9, <1>10

(* The table of assets after a reconciliation.                                   *)
LEMMA ReconciledIs ==
  ASSUME MigrationInv, NEW t \in [Paths -> AssetRows], NEW d
  PROVE  /\ Reconciled(t, d) \in [Paths -> AssetRows]
         /\ \A p \in Paths : Reconciled(t, d)[p] # None =>
              /\ t[p] # None /\ Reconciled(t, d)[p].is = t[p].is
              /\ Reconciled(t, d)[p].integrity = "ok" => d[rootAt][p] # None
<1>1. ASSUME NEW p \in Paths, t[p] # None
      PROVE  /\ [t[p] EXCEPT !.integrity = IF d[rootAt][p] = None THEN "missing" ELSE "ok"] \in [is : Contents, integrity : {"ok", "missing"}]
             /\ [t[p] EXCEPT !.integrity = IF d[rootAt][p] = None THEN "missing" ELSE "ok"].is = t[p].is
             /\ [t[p] EXCEPT !.integrity = IF d[rootAt][p] = None THEN "missing" ELSE "ok"].integrity = "ok" => d[rootAt][p] # None
  <2>1. t[p] \in [is : Contents, integrity : {"ok", "missing"}]
    BY <1>1 DEF AssetRows
  <2> QED BY <2>1
<1> QED BY <1>1, NoneIsNothing DEF Reconciled, AssetRows

(* The root is switched and reconciled.                                       *)
LEMMA SwitchSteps == ASSUME MigrationInv, Remap \/ Reconcile PROVE MigrationInv' /\ StrangersOK
<1> USE NoneIsNothing DEF MigrationInv
<1>1. UNCHANGED <<file, staged, linked, workspace, staging, marker, commit, stranded, entry, migration, cursor, done>>
      /\ migration \notin {None} \cup Final
  BY DEF Remap, Reconcile, markerVars, commitVars, rowVars, WorkerAgrees
<1>2. CASE Remap
  <2>1. UNCHANGED assets /\ rootAt' \in {rootAt, "new"} /\ worker' \in {"reconcile", "idle"} /\ (worker' = "reconcile" => rootAt' = "new")
    BY <1>2 DEF Remap, WorkerAt
  <2>2. MigrationTypeOK'
    BY <1>1, <2>1 DEF MigrationTypeOK, Places, WorkerSteps
  <2>3. WorkerAgrees'
    BY <1>1, <2>1 DEF WorkerAgrees
  <2> QED BY <1>1, <2>1, <2>2, <2>3 DEF ContentSomewhere, StrangersOK
<1>3. CASE Reconcile
  <2>1. assets' = Reconciled(assets, file) /\ rootAt' = rootAt /\ worker' = "complete" /\ rootAt = "new"
    BY <1>3 DEF Reconcile, WorkerAt, WorkerAgrees
  <2>2. assets \in [Paths -> AssetRows]
    BY DEF MigrationTypeOK, AssetRows
  <2>3. /\ assets' \in [Paths -> AssetRows]
        /\ \A p \in Paths : assets'[p] # None => assets[p] # None /\ assets'[p].is = assets[p].is
                                                /\ (assets'[p].integrity = "ok" => file[rootAt][p] # None)
    BY <2>1, <2>2, ReconciledIs
  <2>4. MigrationTypeOK'
    BY <1>1, <2>1, <2>3 DEF MigrationTypeOK, AssetRows, WorkerSteps
  <2>5. Readable' /\ ContentSomewhere'
    BY <1>1, <2>1, <2>3 DEF Readable, ContentSomewhere
  <2>6. WorkerAgrees'
    BY <1>1, <2>1, <2>5 DEF WorkerAgrees
  <2> QED BY <1>1, <2>4, <2>5, <2>6 DEF StrangersOK
<1> QED BY <1>2, <1>3

(* The old copy is discarded.                                                 *)
LEMMA DiscardKeeps == ASSUME MigrationInv, Discard PROVE MigrationInv' /\ StrangersOK
<1> USE NoneIsNothing DEF MigrationInv
<1>1. UNCHANGED <<staged, linked, workspace, staging, marker, commit, stranded, entry, worker, cursor, done, assets, rootAt>>
      /\ rootAt = "new" /\ worker = "idle" /\ migration' = "old_copy_removed" /\ Readable
  BY DEF Discard, markerVars, workerVars, commitVars, libraryVars, WorkerAgrees, Final
<1>2. /\ file' \in FileTable
      /\ \A p \in Paths : file'["new"][p] = file["new"][p] /\ file'["old"][p] = IF p \in Entries THEN None ELSE file["old"][p]
  BY DEF Discard, MigrationTypeOK, FileTable, Places
<1>3. MigrationTypeOK'
  BY <1>1, <1>2 DEF MigrationTypeOK, FileTable, MigrationStates
<1>4. Readable'
  BY <1>1, <1>2 DEF Readable
<1>5. WorkerAgrees'
  BY <1>1, <1>4 DEF WorkerAgrees
<1>6. \A p \in Entries : file["old"][p] # None => file["old"][p] = file["new"][p]
  BY <1>1 DEF Discard, MayDiscard, Matches
<1>7. ContentSomewhere'
  BY <1>1, <1>2, <1>6 DEF ContentSomewhere, Places, MigrationTypeOK
<1>8. StrangersOK
  BY <1>2 DEF StrangersOK
<1> QED BY <1>3, <1>5, <1>7, <1>8

(* A commit puts its file where it was told, and registers it.                   *)
LEMMA CommitWrites ==
  ASSUME MigrationInv, NEW c \in [path : Paths, at : Places, is : {Newer}]
  PROVE  /\ Written(c) \in FileTable
         /\ \A m \in Places, p \in Paths : Written(c)[m][p] = IF m = c.at /\ p = c.path THEN Newer ELSE file[m][p]
         /\ Registered(c) \in [Paths -> AssetRows] /\ Registered(c)[c.path] # None /\ Registered(c)[c.path].is = Newer
         /\ \A p \in Paths \ {c.path} : Registered(c)[p] = assets[p]
         /\ Unlinked(c) \subseteq linked /\ (c.at = "new" => c.path \notin Unlinked(c))
<1> USE NoneIsNothing DEF MigrationInv
<1>1. c.path \in Paths /\ c.at \in Places /\ c.is = Newer /\ Newer \in Contents
  BY DEF Contents
<1>2. Written(c) \in FileTable
      /\ \A m \in Places, p \in Paths : Written(c)[m][p] = IF m = c.at /\ p = c.path THEN Newer ELSE file[m][p]
  BY <1>1, FileWritten DEF Written, MigrationTypeOK, FileTable
<1>3. /\ Registered(c) \in [Paths -> AssetRows] /\ Registered(c)[c.path] # None /\ Registered(c)[c.path].is = Newer
      /\ \A p \in Paths \ {c.path} : Registered(c)[p] = assets[p]
  <2>1. [is |-> c.is, integrity |-> "ok"] \in [is : Contents, integrity : {"ok", "missing"}]
    BY <1>1
  <2> QED BY <1>1, <2>1 DEF Registered, MigrationTypeOK, AssetRows
<1> QED BY <1>2, <1>3 DEF Unlinked

(* The commit ends.                                                           *)
LEMMA CommitEndsKeeps == ASSUME MigrationInv, CommitEnds PROVE MigrationInv' /\ StrangersOK
<1> USE NoneIsNothing DEF MigrationInv
<1> PICK c \in [path : Paths, at : Places, is : {Newer}] : c = commit
  BY DEF CommitEnds, MigrationTypeOK
<1>1. /\ UNCHANGED <<staged, workspace, staging, marker, entry, migration, worker, cursor, done, rootAt>> /\ Entries' = Entries
      /\ file' = Written(c) /\ linked' = Unlinked(c) /\ assets' = Registered(c) /\ commit' = None
      /\ stranded' = IF c.at # rootAt THEN stranded \cup {c.path} ELSE stranded
  BY DEF CommitEnds, markerVars, workerVars, rowVars, Entries
<1>2. MigrationTypeOK'
  BY <1>1, CommitWrites DEF MigrationTypeOK, FileTable, AssetRows, Places
<1>3. Readable => Readable'
  BY <1>1, CommitWrites DEF Readable, MigrationTypeOK, Contents
<1>4. WorkerAgrees'
  BY <1>1, <1>3, CommitWrites DEF WorkerAgrees
<1>5. ContentSomewhere'
  BY <1>1, CommitWrites DEF ContentSomewhere, Places
<1>6. StrangersOK
  BY <1>1, CommitWrites DEF StrangersOK, Places
<1> QED BY <1>2, <1>4, <1>5, <1>6

(* A crash, and the recovery of the commit it cut.                            *)
LEMMA MigrationCrashKeeps == ASSUME MigrationInv, MigrationCrash PROVE MigrationInv' /\ StrangersOK
<1> USE NoneIsNothing DEF MigrationInv
<1>1. /\ UNCHANGED <<staged, workspace, staging, marker, entry, migration, rootAt, stranded>>
      /\ worker' = "idle" /\ cursor' = None /\ done' = {} /\ commit' = None
  BY DEF MigrationCrash, markerVars, rowVars
<1> PICK finished \in {c \in {commit} : c # None} \cup {None} :
       /\ file' = IF finished = None THEN file ELSE Written(finished)
       /\ linked' = IF finished = None THEN linked ELSE Unlinked(finished)
       /\ assets' = Reconciled(IF finished = None THEN assets ELSE Registered(finished), file')
  BY DEF MigrationCrash
<1>2. finished # None => finished = commit /\ finished \in [path : Paths, at : Places, is : {Newer}]
  BY DEF MigrationTypeOK
<1> PICK t : t = IF finished = None THEN assets ELSE Registered(finished)
  OBVIOUS
<1>3. /\ file' \in FileTable /\ linked' \subseteq linked /\ t \in [Paths -> AssetRows]
      /\ \A p \in linked' : file'["new"][p] = file["new"][p]
      /\ \A p \in Paths : file'["new"][p] # file["new"][p] => finished # None /\ finished.path = p
      /\ \A p \in Paths : t[p] # None => \E l \in Places : file'[l][p] = t[p].is
  <2>1. CASE finished = None
    BY <2>1 DEF MigrationTypeOK, FileTable, AssetRows, ContentSomewhere
  <2>2. CASE finished # None
    BY <1>2, <2>2, CommitWrites DEF MigrationTypeOK, Places, ContentSomewhere
  <2> QED BY <2>1, <2>2
<1>4. /\ assets' \in [Paths -> AssetRows]
      /\ \A p \in Paths : assets'[p] # None => t[p] # None /\ assets'[p].is = t[p].is
                                                /\ (assets'[p].integrity = "ok" => file'[rootAt][p] # None)
  <2>1. assets' = Reconciled(t, file')
    OBVIOUS
  <2> QED BY <1>3, <2>1, ReconciledIs
<1>5. MigrationTypeOK'
  <2>1. linked' \subseteq Paths /\ \A p \in linked' : staged'[p] # None /\ file'["new"][p] = staged'[p]
    BY <1>1, <1>3 DEF MigrationTypeOK
  <2>2. file' \in FileTable /\ assets' \in [Paths -> AssetRows]
    BY <1>3, <1>4
  <2>3. commit' = None /\ worker' \in WorkerSteps /\ cursor' = None /\ done' = {}
    BY <1>1 DEF WorkerSteps
  <2> QED BY <1>1, <2>1, <2>2, <2>3 DEF MigrationTypeOK, FileTable, AssetRows
<1>6. Readable' /\ ContentSomewhere'
  BY <1>1, <1>3, <1>4 DEF Readable, ContentSomewhere
<1>7. WorkerAgrees'
  BY <1>1, <1>6 DEF WorkerAgrees
<1>8. StrangersOK
  BY <1>2, <1>3 DEF StrangersOK
<1> QED BY <1>5, <1>6, <1>7, <1>8

(* Every step of a migration and of those around it.                             *)
LEMMA MigrationStep == MigrationInv /\ [MigrationNext]_migrationVars => MigrationInv' /\ StrangersOK
<1> SUFFICES ASSUME MigrationInv, [MigrationNext]_migrationVars PROVE MigrationInv' /\ StrangersOK
  OBVIOUS
<1>1. CASE UNCHANGED migrationVars
  <2>1. FilesRest /\ UNCHANGED <<workspace, staging, marker, migration, worker, entry, cursor, done, commit>>
    BY <1>1 DEF migrationVars, markerVars, rowVars, workerVars, libraryVars, commitVars, FilesRest
  <2>2. WorkerAgrees'
    BY <2>1 DEF MigrationInv, WorkerAgrees, FilesRest, Entries, Readable
  <2> QED BY <2>1, <2>2, RestKeeps DEF MigrationInv, MigrationTypeOK, EntryRows
<1> QED BY <1>1, BeginSteps, EntrySteps, MarkerSteps, CopySteps, FaultSteps, SwitchSteps, DiscardKeeps, CommitEndsKeeps, MigrationCrashKeeps
        DEF MigrationNext, Worker, Others

-----------------------------------------------------------------------------
(* Backups and restores.                                                     *)

MakerRecords == [at : {"idle", "archive", "list", "unlink", "mark"}, surplus : SUBSET (1..MaxRecords),
                 saves : Saving, made : 0..MaxRecords]
RestoreRecords == [at : {"idle", "open", "tables", "content", "publish", "ok"}, mode : {"merge", "replace"},
                   from : 0..MaxRecords, saved : Saving, todo : SUBSET Assets, asset : Assets \cup {NoFile}]

ContentShape == edits \subseteq Edits /\ rows \in [Assets -> [is : FileContents, ok : BOOLEAN]]
                /\ disk \in [Assets -> FileContents \cup {NoFile}]
MakingShape == records \in Seq(Records) /\ maker \in [Makers -> MakerRecords]
ScheduleShape == loop \in {"waiting", "making", "dead"} /\ stale \in BOOLEAN
RestoreShape == restore \in RestoreRecords /\ before \subseteq Edits /\ raced \subseteq Assets

(* Those who ask for a backup wait for it, and there is room for its record.     *)
MakersAreAwaited ==
  /\ maker["loop"].at # "idle" <=> loop = "making"
  /\ maker["user"].at # "idle" => restore.at = "idle" \/ (restore.at = "tables" /\ restore.mode = "replace")

Archiving == {m \in Makers : maker[m].at = "archive"}
RoomIsLeft == Len(records) + Cardinality(Archiving) <= MaxRecords

(* What a rotation lists, and what it has unlinked, has Keep newer backups: the  *)
(* newest of what is listed goes first, so no other is counted on meanwhile.     *)
RotationIsOld ==
  /\ \A i \in 1..Len(records) :
       (\E m \in Makers : i \in maker[m].surplus) \/ records[i].whole = FALSE => Cardinality(NewerThan(i)) >= Keep
  /\ \A i \in 1..Len(records) : records[i].whole = TRUE => records[i].state = "verified"
  /\ \A m \in Makers : maker[m].surplus \subseteq 1..Len(records) /\ (maker[m].at = "mark" => maker[m].surplus # {})

(* The Safety Snapshot of a restore holds every edit there was when it was asked *)
(* for.                                                                          *)
SnapshotHolds ==
  /\ restore.at \in {"open", "tables"} => before \subseteq edits
  /\ restore.at = "open" => restore.from \in 1..Len(records)
  /\ restore.at = "tables" /\ maker["user"].at = "archive" => before \subseteq maker["user"].saves.edits
  /\ restore.at = "tables" /\ maker["user"].at \in {"list", "unlink", "mark"} =>
       LET i == maker["user"].made
       IN i \in 1..Len(records) /\ (records[i].whole = TRUE => before \subseteq records[i].saves.edits)

(* An asset that is being restored is not "ok" before its file is the one that   *)
(* was saved.                                                                    *)
RestoredIsHonest ==
  restore.at \in {"publish", "ok"} =>
    /\ restore.asset \in Assets
    /\ restore.asset \notin raced =>
         /\ rows[restore.asset].ok = FALSE
         /\ restore.at = "ok" => disk[restore.asset] = Saved.is[restore.asset]

BackupInv ==
  /\ ContentShape /\ MakingShape /\ ScheduleShape /\ RestoreShape
  /\ MakersAreAwaited /\ RoomIsLeft /\ RotationIsOld /\ SnapshotHolds /\ RestoredIsHonest /\ OkIsHonest

(* A step of a restore takes no edit that cannot be had again.                   *)
UndoableOK ==
  \A e \in before \ edits' :
    e \in edits => \/ \E i \in VerifiedBackups : records[i].whole /\ e \in records[i].saves.edits
                   \/ SupersededSince(maker["user"].made)

-----------------------------------------------------------------------------
(* Nothing saved is a saving, too.                                            *)
LEMMA NothingIsSaved == NothingSaved \in Saving
BY DEF NothingSaved, Saving, Kinds, FileContents

(* What a maker has that makes nothing.                                       *)
LEMMA NotMakingIs == /\ NotMaking \in MakerRecords /\ NotMaking.at = "idle" /\ NotMaking.surplus = {} /\ NotMaking.made = 0
BY NothingIsSaved, BackupsAssumption DEF NotMaking, MakerRecords

(* What a restore has that is not there.                                      *)
LEMMA NoRestoreIs == /\ NoRestore \in RestoreRecords /\ NoRestore.at = "idle"
BY NothingIsSaved, BackupsAssumption DEF NoRestore, RestoreRecords

(* The records, by their number.                                                 *)
LEMMA RecordsFacts ==
  ASSUME MakingShape
  PROVE  /\ Len(records) \in Nat /\ \A i \in 1..Len(records) : records[i] \in Records
BY LenProperties, ElementOfSeq DEF MakingShape

(* The newer backups are counted, now and after a step.                       *)
LEMMA NewerIsFinite ==
  ASSUME MakingShape, NEW i \in Nat
  PROVE  IsFiniteSet(NewerThan(i)) /\ Cardinality(NewerThan(i)) \in Nat
<1> PICK len \in Nat : len = Len(records)
  BY RecordsFacts
<1>1. NewerThan(i) \in SUBSET (1..len) /\ IsFiniteSet(1..len)
  BY FS_Interval DEF NewerThan, VerifiedBackups
<1>2. IsFiniteSet(NewerThan(i))
  BY <1>1, FS_Subset
<1> QED BY <1>2, FS_CardinalityType

(* So they are after it.                                                      *)
LEMMA NewerStaysFinite ==
  ASSUME MakingShape', NEW i \in Nat
  PROVE  IsFiniteSet(NewerThan(i)') /\ Cardinality(NewerThan(i)') \in Nat
<1> PICK len : len = Len(records')
  OBVIOUS
<1>0. len \in Nat
  BY LenProperties DEF MakingShape
<1>1. NewerThan(i)' \in SUBSET (1..len) /\ IsFiniteSet(1..len)
  BY <1>0, FS_Interval DEF NewerThan, VerifiedBackups
<1>2. IsFiniteSet(NewerThan(i)')
  BY <1>1, FS_Subset
<1> QED BY <1>2, FS_CardinalityType

(* So are those that write an archive.                                        *)
LEMMA ArchivingIsFinite == IsFiniteSet(Archiving) /\ Cardinality(Archiving) \in Nat
<1>1. IsFiniteSet({"loop"}) 
  BY FS_Singleton
<1>2. IsFiniteSet({"loop"} \cup {"user"})
  BY <1>1, FS_AddElement
<1>3. Archiving \in SUBSET ({"loop"} \cup {"user"})
  BY DEF Archiving, Makers
<1>4. IsFiniteSet(Archiving)
  BY <1>2, <1>3, FS_Subset
<1> QED BY <1>4, FS_CardinalityType

(* The newest of what is listed is one of it.                                    *)
LEMMA NewestIsListed == ASSUME NEW S \in SUBSET (1..MaxRecords), S # {} PROVE Newest(S) \in S
<1> DEFINE T == {MaxRecords - i : i \in S}
<1> USE BackupsAssumption
<1>1. T \subseteq Nat /\ T # {}
  OBVIOUS
<1>2. \E x \in T : \A y \in T : <<y, x>> \notin OpToRel(<, Nat)
  BY <1>1, NatLessThanWellFounded, WFMin
<1>3. \A x, y \in Nat : <<y, x>> \notin OpToRel(<, Nat) => x <= y
  BY DEF OpToRel
<1>4. \E i \in S : \A j \in S : j <= i
  <2> PICK x \in T : \A y \in T : x <= y
    BY <1>1, <1>2, <1>3
  <2> PICK i \in S : x = MaxRecords - i
    OBVIOUS
  <2>1. ASSUME NEW j \in S PROVE j <= i
    <3>1. x <= MaxRecords - j
      OBVIOUS
    <3> QED BY <3>1
  <2> QED BY <2>1
<1> QED BY <1>4 DEF Newest

(* Nothing was backed up at the start.                                           *)
LEMMA BackupsInitially == BackupsInit => BackupInv
<1> SUFFICES ASSUME BackupsInit PROVE BackupInv
  OBVIOUS
<1> USE NotMakingIs, NoRestoreIs DEF BackupsInit
<1>1. ContentShape /\ ScheduleShape /\ RestoreShape
  BY DEF ContentShape, ScheduleShape, RestoreShape, FileContents
<1>2. MakingShape
  BY EmptySeq DEF MakingShape
<1>3. MakersAreAwaited
  BY DEF MakersAreAwaited, Makers
<1>4. Archiving = {} /\ Len(records) = 0
  BY DEF Archiving
<1>5. RoomIsLeft
  BY <1>4, FS_EmptySet, BackupsAssumption DEF RoomIsLeft
<1>6. RotationIsOld
  BY <1>4 DEF RotationIsOld
<1>7. SnapshotHolds /\ RestoredIsHonest
  BY DEF SnapshotHolds, RestoredIsHonest
<1>8. OkIsHonest
  BY DEF OkIsHonest
<1> QED BY <1>1, <1>2, <1>3, <1>5, <1>6, <1>7, <1>8 DEF BackupInv

-----------------------------------------------------------------------------
(* The makers: what a change of one of them keeps.                               *)

(* One maker changes.                                                         *)
LEMMA OneMakerChanges ==
  ASSUME maker \in [Makers -> MakerRecords], NEW m \in Makers, NEW n \in MakerRecords, maker' = [maker EXCEPT ![m] = n]
  PROVE  /\ maker' \in [Makers -> MakerRecords] /\ maker'[m] = n /\ \A o \in Makers \ {m} : maker'[o] = maker[o]
BY DEF Makers

(* A maker begins, lists what is surplus, or ends; the records stay.             *)
LEMMA MakerTurns ==
  ASSUME BackupInv, NEW m \in Makers, NEW n \in MakerRecords, maker' = [maker EXCEPT ![m] = n], records' = records,
         n.surplus \subseteq maker[m].surplus \cup Surplus, n.at = "mark" => n.surplus # {},
         n.at = "archive" => maker[m].at = "archive" \/ Room
  PROVE  MakingShape' /\ RoomIsLeft' /\ RotationIsOld'
<1> USE DEF BackupInv
<1>1. /\ maker' \in [Makers -> MakerRecords] /\ maker'[m] = n /\ \A o \in Makers \ {m} : maker'[o] = maker[o]
  BY OneMakerChanges DEF MakingShape
<1>2. MakingShape'
  BY <1>1 DEF MakingShape
<1>3. RotationIsOld'
  <2>1. \A i : NewerThan(i)' = NewerThan(i)
    BY DEF NewerThan, VerifiedBackups
  <2>2. Surplus \subseteq 1..Len(records) /\ \A i \in Surplus : Cardinality(NewerThan(i)) >= Keep
    BY DEF Surplus, VerifiedBackups
  <2> QED BY <1>1, <2>1, <2>2 DEF RotationIsOld
<1>4. RoomIsLeft'
  <2>0. Len(records) \in Nat
    BY RecordsFacts
  <2>1. CASE n.at = "archive" /\ maker[m].at # "archive"
    <3>1. Archiving' = Archiving \cup {m} /\ m \notin Archiving
      BY <1>1, <2>1 DEF Archiving
    <3>2. Cardinality(Archiving') = Cardinality(Archiving) + 1
      BY <3>1, ArchivingIsFinite, FS_AddElement
    <3>3. Len(records) + Cardinality(Archiving) < MaxRecords
      BY <2>1 DEF Room, Archiving
    <3> QED BY <2>0, <3>2, <3>3, ArchivingIsFinite, BackupsAssumption DEF RoomIsLeft
  <2>2. CASE ~(n.at = "archive" /\ maker[m].at # "archive")
    <3>1. Archiving' \in SUBSET Archiving
      BY <1>1, <2>2 DEF Archiving
    <3>2. Cardinality(Archiving') <= Cardinality(Archiving) /\ Cardinality(Archiving') \in Nat
      BY <3>1, ArchivingIsFinite, FS_Subset, FS_CardinalityType
    <3> QED BY <2>0, <3>2, ArchivingIsFinite, BackupsAssumption DEF RoomIsLeft
  <2> QED BY <2>1, <2>2
<1> QED BY <1>2, <1>3, <1>4

(* A backup is recorded.                                                         *)
LEMMA RecordKeeps ==
  ASSUME BackupInv, NEW m \in Makers, Record(m)
  PROVE  /\ MakingShape' /\ RoomIsLeft' /\ RotationIsOld' /\ Len(records') = Len(records) + 1
         /\ \A i \in 1..Len(records) : records'[i] = records[i]
         /\ records'[Len(records) + 1].saves = maker[m].saves
         /\ maker'[m].at = "list" /\ maker'[m].made = Len(records) + 1 /\ \A o \in Makers \ {m} : maker'[o] = maker[o]
<1> USE DEF BackupInv
<1> PICK len \in Nat : len = Len(records)
  BY RecordsFacts
<1> DEFINE r == [state |-> "verified", whole |-> TRUE, saves |-> maker[m].saves]
           n == [NotMaking EXCEPT !.at = "list", !.made = len + 1]
<1>0. maker[m].at = "archive" /\ records' = Append(records, r) /\ maker' = [maker EXCEPT ![m] = n]
  BY DEF Record
<1>1. Archiving = (Archiving \ {m}) \cup {m} /\ m \in Archiving
  BY <1>0 DEF Archiving
<1>2. Cardinality(Archiving \ {m}) = Cardinality(Archiving) - 1 /\ Cardinality(Archiving) \in Nat
      /\ Cardinality(Archiving \ {m}) \in Nat
  BY <1>1, ArchivingIsFinite, FS_RemoveElement, FS_CardinalityType
<1>3. len + 1 + Cardinality(Archiving \ {m}) <= MaxRecords /\ len + 1 <= MaxRecords
  BY <1>2, BackupsAssumption DEF RoomIsLeft
<1>4. r \in Records /\ r.whole = TRUE /\ r.state = "verified" /\ r.saves = maker[m].saves
  BY DEF Records, MakingShape, MakerRecords
<1>5. n \in MakerRecords /\ n.at = "list" /\ n.surplus = {} /\ n.made = len + 1
  <2>1. len + 1 \in 0..MaxRecords
    BY <1>3, BackupsAssumption
  <2> QED BY <2>1, NotMakingIs DEF MakerRecords
<1> HIDE DEF r, n
<1>6. /\ maker' \in [Makers -> MakerRecords] /\ maker'[m] = n /\ \A o \in Makers \ {m} : maker'[o] = maker[o]
  BY <1>0, <1>5, OneMakerChanges DEF MakingShape
<1>7. /\ records' \in Seq(Records) /\ Len(records') = len + 1 /\ records'[len + 1] = r
      /\ \A i \in 1..len : records'[i] = records[i]
  BY <1>0, <1>4, AppendProperties DEF MakingShape
<1>8. MakingShape'
  BY <1>6, <1>7 DEF MakingShape
<1>9. Archiving' = Archiving \ {m}
  BY <1>5, <1>6 DEF Archiving
<1>10. RoomIsLeft'
  BY <1>3, <1>7, <1>9 DEF RoomIsLeft
<1>11. ASSUME NEW i \in 1..len PROVE Cardinality(NewerThan(i)') >= Cardinality(NewerThan(i))
  <2>1. NewerThan(i)' = NewerThan(i) \cup {len + 1}
    BY <1>4, <1>7 DEF NewerThan, VerifiedBackups
  <2>0. IsFiniteSet(NewerThan(i))
    BY NewerIsFinite
  <2>2. NewerThan(i) \in SUBSET (NewerThan(i) \cup {len + 1}) /\ IsFiniteSet(NewerThan(i) \cup {len + 1})
    BY <2>0, FS_AddElement
  <2>3. Cardinality(NewerThan(i)) <= Cardinality(NewerThan(i)') /\ Cardinality(NewerThan(i)') \in Nat
    BY <2>1, <2>2, FS_Subset, FS_CardinalityType
  <2> QED BY <2>3, NewerIsFinite
<1>12. \A i \in 1..len : Cardinality(NewerThan(i)) \in Nat /\ Cardinality(NewerThan(i)') \in Nat
  BY <1>8, NewerIsFinite, NewerStaysFinite
<1>13. RotationIsOld'
  <2>1. ASSUME NEW i \in 1..(len + 1), (\E o \in Makers : i \in maker'[o].surplus) \/ records'[i].whole = FALSE
        PROVE  Cardinality(NewerThan(i)') >= Keep
    <3>1. i \in 1..len /\ ((\E o \in Makers : i \in maker[o].surplus) \/ records[i].whole = FALSE)
      BY <1>4, <1>5, <1>6, <1>7, <2>1 DEF RotationIsOld
    <3>2. Cardinality(NewerThan(i)) >= Keep
      BY <3>1 DEF RotationIsOld
    <3>3. Cardinality(NewerThan(i)') >= Cardinality(NewerThan(i)) /\ Cardinality(NewerThan(i)) \in Nat /\ Cardinality(NewerThan(i)') \in Nat
      BY <1>11, <1>12, <3>1
    <3> QED BY <3>2, <3>3, BackupsAssumption
  <2>2. \A i \in 1..(len + 1) : records'[i].whole = TRUE => records'[i].state = "verified"
    BY <1>4, <1>7 DEF RotationIsOld
  <2>3. \A o \in Makers : maker'[o].surplus \subseteq 1..(len + 1) /\ (maker'[o].at = "mark" => maker'[o].surplus # {})
    BY <1>5, <1>6 DEF RotationIsOld
  <2> QED BY <1>7, <2>1, <2>2, <2>3 DEF RotationIsOld
<1> QED BY <1>4, <1>5, <1>6, <1>7, <1>8, <1>10, <1>13

(* A backup is unlinked, or marked as rotated.                                   *)
LEMMA RotateKeeps ==
  ASSUME BackupInv, NEW m \in Makers, Unlink(m) \/ MarkRotated(m)
  PROVE  /\ MakingShape' /\ RoomIsLeft' /\ RotationIsOld' /\ Len(records') = Len(records)
         /\ \A i \in 1..Len(records) : records'[i].whole = TRUE => records'[i] = records[i]
         /\ maker'[m].at \in {"unlink", "mark"} /\ maker'[m].made = maker[m].made
         /\ maker[m].at \in {"unlink", "mark"} /\ \A o \in Makers \ {m} : maker'[o] = maker[o]
<1> USE DEF BackupInv
<1> PICK len \in Nat : len = Len(records)
  BY RecordsFacts
<1>0. maker[m].surplus # {} /\ maker[m].surplus \in SUBSET (1..MaxRecords) /\ maker[m].surplus \subseteq 1..len
      /\ maker[m] \in MakerRecords
  BY DEF Unlink, MarkRotated, RotationIsOld, MakingShape, MakerRecords
<1> PICK x \in 1..len : x = Newest(maker[m].surplus) /\ x \in maker[m].surplus
  BY <1>0, NewestIsListed
<1>1. records[x] \in Records /\ \A i \in 1..len : records[i] \in Records
  BY RecordsFacts
<1> DEFINE gone == [records[x] EXCEPT !.whole = FALSE]
           rotated == [state |-> "rotated", whole |-> FALSE, saves |-> NothingSaved]
           marks == [maker[m] EXCEPT !.at = "mark"]
           goesOn == [maker[m] EXCEPT !.at = "unlink", !.surplus = @ \ {x}]
<1>2. /\ gone \in Records /\ gone.whole = FALSE /\ gone.state = records[x].state
      /\ rotated \in Records /\ rotated.whole = FALSE /\ rotated.state = "rotated"
  BY <1>1, NothingIsSaved DEF Records
<1>3. /\ marks \in MakerRecords /\ marks.at = "mark" /\ marks.surplus = maker[m].surplus /\ marks.made = maker[m].made
      /\ goesOn \in MakerRecords /\ goesOn.at = "unlink" /\ goesOn.surplus = maker[m].surplus \ {x} /\ goesOn.made = maker[m].made
  BY <1>0 DEF MakerRecords
<1>4. \/ Unlink(m) /\ records' = [records EXCEPT ![x] = gone] /\ maker' = [maker EXCEPT ![m] = marks]
      \/ MarkRotated(m) /\ records' = [records EXCEPT ![x] = rotated] /\ maker' = [maker EXCEPT ![m] = goesOn]
  BY DEF Unlink, MarkRotated
<1> HIDE DEF gone, rotated, marks, goesOn
<1>5. PICK r \in {gone, rotated}, n \in {marks, goesOn} :
         records' = [records EXCEPT ![x] = r] /\ maker' = [maker EXCEPT ![m] = n]
  BY <1>4
<1>6. /\ maker' \in [Makers -> MakerRecords] /\ maker'[m] = n /\ \A o \in Makers \ {m} : maker'[o] = maker[o]
  BY <1>3, <1>5, OneMakerChanges DEF MakingShape
<1>7. /\ records' \in Seq(Records) /\ Len(records') = len /\ records'[x] = r
      /\ \A i \in 1..len \ {x} : records'[i] = records[i]
  BY <1>2, <1>5, ExceptSeq DEF MakingShape
<1>8. MakingShape'
  BY <1>6, <1>7 DEF MakingShape
<1>9. RoomIsLeft'
  <2>1. Archiving' = Archiving \/ Archiving' = Archiving \ {m}
    BY <1>3, <1>6 DEF Archiving
  <2>2. Cardinality(Archiving') <= Cardinality(Archiving) /\ Cardinality(Archiving') \in Nat /\ Cardinality(Archiving) \in Nat
    BY <2>1, ArchivingIsFinite, FS_Subset, FS_CardinalityType, FS_RemoveElement
  <2> QED BY <1>7, <2>2, BackupsAssumption DEF RoomIsLeft
<1>10. ASSUME NEW i \in 1..len, (\E o \in Makers : i \in maker'[o].surplus) \/ records'[i].whole = FALSE
       PROVE  Cardinality(NewerThan(i)') >= Keep
  <2>1. (\E o \in Makers : i \in maker[o].surplus) \/ records[i].whole = FALSE
    BY <1>3, <1>6, <1>7, <1>10
  <2>2. Cardinality(NewerThan(i)) >= Keep /\ Cardinality(NewerThan(x)) >= Keep
    BY <2>1 DEF RotationIsOld
  <2>3. CASE r = gone \/ x \notin NewerThan(i)
    <3>1. NewerThan(i)' = NewerThan(i)
      <4>1. \A j \in 1..len : j > i => (records'[j].state = "verified" <=> records[j].state = "verified")
        BY <1>2, <1>7, <2>3 DEF NewerThan, VerifiedBackups
      <4> QED BY <1>7, <4>1 DEF NewerThan, VerifiedBackups
    <3> QED BY <2>2, <3>1
  <2>4. CASE r = rotated /\ x \in NewerThan(i)
    <3>1. NewerThan(x) \subseteq NewerThan(i)'
      BY <1>7, <2>4 DEF NewerThan, VerifiedBackups
    <3>2. IsFiniteSet(NewerThan(i)')
      BY <1>8, NewerIsFinite, NewerStaysFinite
    <3>3. Cardinality(NewerThan(x)) <= Cardinality(NewerThan(i)')
      BY <3>1, <3>2, FS_Subset
    <3>4. Cardinality(NewerThan(x)) \in Nat /\ Cardinality(NewerThan(i)') \in Nat
      BY <1>8, NewerIsFinite, NewerStaysFinite
    <3> QED BY <2>2, <3>3, <3>4, BackupsAssumption
  <2> QED BY <1>5, <2>3, <2>4
<1>11. RotationIsOld'
  <2>1. \A i \in 1..len : records'[i].whole = TRUE => records'[i].state = "verified"
    BY <1>2, <1>7 DEF RotationIsOld
  <2>2. \A o \in Makers : maker'[o].surplus \subseteq 1..len /\ (maker'[o].at = "mark" => maker'[o].surplus # {})
    BY <1>0, <1>3, <1>6 DEF RotationIsOld
  <2> QED BY <1>7, <1>10, <2>1, <2>2 DEF RotationIsOld
<1>12. \A i \in 1..len : records'[i].whole = TRUE => records'[i] = records[i]
  BY <1>2, <1>5, <1>7
<1> QED BY <1>3, <1>6, <1>7, <1>8, <1>9, <1>11, <1>12 DEF Unlink, MarkRotated

-----------------------------------------------------------------------------
(* Steps that make backups and leave the library alone.                          *)

(* The Safety Snapshot still holds what it held when only a maker goes on.    *)
LEMMA SnapshotStays ==
  ASSUME BackupInv, UNCHANGED <<restore, before, edits>>, Len(records') \in Nat, Len(records') >= Len(records),
         \A i \in 1..Len(records) : records'[i].whole = TRUE => records'[i] = records[i],
         maker'["user"].at = "archive" => maker["user"].at = "archive" /\ maker'["user"].saves = maker["user"].saves,
         maker'["user"].at \in {"list", "unlink", "mark"} =>
           \/ maker["user"].at \in {"list", "unlink", "mark"} /\ maker'["user"].made = maker["user"].made
           \/ /\ maker["user"].at = "archive" /\ maker'["user"].made \in 1..Len(records')
              /\ records'[maker'["user"].made].saves = maker["user"].saves
  PROVE  SnapshotHolds'
<1> PICK len \in Nat : len = Len(records)
  BY RecordsFacts DEF BackupInv
<1> PICK len2 \in Nat : len2 = Len(records') /\ len2 >= len
  OBVIOUS
<1>1. ASSUME restore.at = "tables", maker'["user"].at \in {"list", "unlink", "mark"}
      PROVE  /\ maker'["user"].made \in 1..len2
             /\ records'[maker'["user"].made].whole = TRUE => before \subseteq records'[maker'["user"].made].saves.edits
  <2>1. CASE maker["user"].at \in {"list", "unlink", "mark"} /\ maker'["user"].made = maker["user"].made
    <3>1. maker["user"].made \in 1..len
          /\ (records[maker["user"].made].whole = TRUE => before \subseteq records[maker["user"].made].saves.edits)
      BY <1>1, <2>1 DEF BackupInv, SnapshotHolds
    <3> QED BY <2>1, <3>1
  <2>2. CASE maker["user"].at = "archive" /\ maker'["user"].made \in 1..len2
             /\ records'[maker'["user"].made].saves = maker["user"].saves
    BY <1>1, <2>2 DEF BackupInv, SnapshotHolds
  <2> QED BY <1>1, <2>1, <2>2
<1>2. restore.at = "open" => restore.from \in 1..len2
  BY DEF BackupInv, SnapshotHolds
<1> QED BY <1>1, <1>2 DEF BackupInv, SnapshotHolds

(* Nothing of the library or of a restore changes.                            *)
LEMMA ContentRests ==
  ASSUME BackupInv, UNCHANGED <<contentVars, restoreVars>>
  PROVE  ContentShape' /\ RestoreShape' /\ RestoredIsHonest' /\ OkIsHonest' /\ UndoableOK
BY DEF BackupInv, contentVars, restoreVars, ContentShape, RestoreShape, RestoredIsHonest, OkIsHonest, UndoableOK, Saved

(* A maker goes on.                                                           *)
LEMMA MakingKeeps == ASSUME BackupInv, NEW m \in Makers, Making(m) PROVE BackupInv' /\ UndoableOK
<1> USE DEF BackupInv
<1>0. UNCHANGED <<contentVars, restoreVars, loop>> /\ stale' \in BOOLEAN
  BY DEF Making, Record, ListSurplus, Unlink, MarkRotated, scheduleVars, ScheduleShape
<1>1. ContentShape' /\ RestoreShape' /\ RestoredIsHonest' /\ OkIsHonest' /\ UndoableOK /\ ScheduleShape'
  BY <1>0, ContentRests DEF ScheduleShape
<1>2. UNCHANGED <<restore, before, edits>> /\ "user" \in Makers /\ "loop" \in Makers
  BY <1>0 DEF restoreVars, contentVars, Makers
<1>3. Len(records) \in Nat
  BY RecordsFacts
<1>4. CASE Record(m)
  <2>1. /\ MakingShape' /\ RoomIsLeft' /\ RotationIsOld' /\ Len(records') = Len(records) + 1
        /\ \A i \in 1..Len(records) : records'[i] = records[i]
        /\ records'[Len(records) + 1].saves = maker[m].saves
        /\ maker'[m].at = "list" /\ maker'[m].made = Len(records) + 1 /\ \A o \in Makers \ {m} : maker'[o] = maker[o]
    BY <1>4, RecordKeeps
  <2>2. maker[m].at = "archive"
    BY <1>4 DEF Record
  <2>3. MakersAreAwaited'
    BY <1>0, <1>2, <2>1, <2>2 DEF MakersAreAwaited
  <2>4. SnapshotHolds'
    <3>1. Len(records') \in Nat /\ Len(records') >= Len(records) /\ Len(records) + 1 \in 1..Len(records')
      BY <1>3, <2>1
    <3>2. maker'["user"].at = "archive" => maker["user"].at = "archive" /\ maker'["user"].saves = maker["user"].saves
      BY <1>2, <2>1
    <3>3. maker'["user"].at \in {"list", "unlink", "mark"} =>
           \/ maker["user"].at \in {"list", "unlink", "mark"} /\ maker'["user"].made = maker["user"].made
           \/ /\ maker["user"].at = "archive" /\ maker'["user"].made \in 1..Len(records')
              /\ records'[maker'["user"].made].saves = maker["user"].saves
      BY <1>2, <2>1, <2>2, <3>1
    <3> QED BY <1>2, <2>1, <3>1, <3>2, <3>3, SnapshotStays
  <2> QED BY <1>1, <2>1, <2>3, <2>4
<1>5. CASE Unlink(m) \/ MarkRotated(m)
  <2>1. /\ MakingShape' /\ RoomIsLeft' /\ RotationIsOld' /\ Len(records') = Len(records)
        /\ \A i \in 1..Len(records) : records'[i].whole = TRUE => records'[i] = records[i]
        /\ maker'[m].at \in {"unlink", "mark"} /\ maker'[m].made = maker[m].made
        /\ maker[m].at \in {"unlink", "mark"} /\ \A o \in Makers \ {m} : maker'[o] = maker[o]
    BY <1>5, RotateKeeps
  <2>2. MakersAreAwaited'
    BY <1>0, <1>2, <2>1 DEF MakersAreAwaited
  <2>3. SnapshotHolds'
    <3>1. /\ maker'["user"].at = "archive" => maker["user"].at = "archive" /\ maker'["user"].saves = maker["user"].saves
          /\ maker'["user"].at \in {"list", "unlink", "mark"} =>
               maker["user"].at \in {"list", "unlink", "mark"} /\ maker'["user"].made = maker["user"].made
      BY <1>2, <2>1
    <3>2. Len(records') \in Nat /\ Len(records') >= Len(records)
      BY <1>3, <2>1
    <3>3. \A i \in 1..Len(records) : records'[i].whole = TRUE => records'[i] = records[i]
      BY <2>1
    <3> QED BY ONLY BackupInv, <1>2, <3>1, <3>2, <3>3, SnapshotStays
  <2> QED BY <1>1, <2>1, <2>2, <2>3
<1>6. CASE ListSurplus(m)
  <2> DEFINE n == [maker[m] EXCEPT !.at = "unlink", !.surplus = Surplus]
  <2>1. Surplus \subseteq 1..MaxRecords
    BY <1>3, ArchivingIsFinite, BackupsAssumption DEF Surplus, VerifiedBackups, RoomIsLeft
  <2>2. n \in MakerRecords /\ n.at = "unlink" /\ n.surplus = Surplus /\ n.made = maker[m].made
    BY <2>1 DEF MakingShape, MakerRecords
  <2>3. maker' = [maker EXCEPT ![m] = n] /\ records' = records /\ maker[m].at = "list"
    BY <1>6 DEF ListSurplus
  <2> HIDE DEF n
  <2>4. maker' \in [Makers -> MakerRecords] /\ maker'[m] = n /\ \A o \in Makers \ {m} : maker'[o] = maker[o]
    BY <2>2, <2>3, OneMakerChanges DEF MakingShape
  <2>5. MakingShape' /\ RoomIsLeft' /\ RotationIsOld'
    BY <2>2, <2>3, MakerTurns
  <2>6. MakersAreAwaited'
    BY <1>0, <1>2, <2>2, <2>3, <2>4 DEF MakersAreAwaited
  <2>7. SnapshotHolds'
    BY <1>2, <1>3, <2>2, <2>3, <2>4, SnapshotStays
  <2> QED BY <1>1, <2>5, <2>6, <2>7
<1> QED BY <1>4, <1>5, <1>6 DEF Making

(* A backup begins with what the library has, or ends.                           *)
LEMMA StartedIs ==
  ASSUME BackupInv, NEW m \in Makers, NEW kind \in Kinds, StartBackup(m, kind)
  PROVE  \E n \in MakerRecords : maker' = [maker EXCEPT ![m] = n] /\ n.at = "archive" /\ n.surplus = {} /\ n.saves.edits = edits
<1> DEFINE s == [kind |-> kind, edits |-> edits, is |-> [a \in Assets |-> rows[a].is],
                 content |-> {a \in Assets : kind = "full" /\ rows[a].ok}]
           n == [NotMaking EXCEPT !.at = "archive", !.saves = s]
<1>1. s \in Saving /\ s.edits = edits
  BY DEF BackupInv, ContentShape, Saving
<1>2. maker' = [maker EXCEPT ![m] = n]
  BY DEF StartBackup
<1> HIDE DEF s
<1>3. n \in MakerRecords /\ n.at = "archive" /\ n.surplus = {} /\ n.saves.edits = edits
  BY <1>1, NotMakingIs DEF MakerRecords
<1> QED BY <1>2, <1>3

(* The user's maker begins or ends: asked for, or as a Safety Snapshot.       *)
LEMMA UserTurns ==
  ASSUME BackupInv, UserBackupEnds \/ SafetySnapshot \/ SafetySnapshotFails \/ \E kind \in Kinds : UserBacksUp(kind)
  PROVE  BackupInv' /\ UndoableOK
<1> USE DEF BackupInv
<1>0. /\ UNCHANGED <<records, loop, stale, edits, rows, disk, before, raced>> /\ "user" \in Makers /\ "loop" \in Makers
      /\ restore' \in {restore, NoRestore} /\ maker["user"] \in MakerRecords
  BY DEF UserBackupEnds, SafetySnapshot, SafetySnapshotFails, UserBacksUp, scheduleVars, restoreVars, contentVars, Makers, MakingShape
<1>1. PICK n \in MakerRecords :
        /\ maker' = [maker EXCEPT !["user"] = n] /\ n.surplus = {}
        /\ \/ n.at = "archive" /\ n.saves.edits = edits /\ Room /\ maker["user"].at = "idle" /\ restore' = restore
              /\ (restore.at = "idle" \/ (restore.at = "tables" /\ restore.mode = "replace"))
           \/ n.at = "idle" /\ (restore' = NoRestore \/ (restore' = restore /\ restore.at = "idle"))
  <2>1. CASE UserBackupEnds \/ SafetySnapshotFails
    BY <2>1, NotMakingIs DEF UserBackupEnds, SafetySnapshotFails, restoreVars
  <2>2. CASE SafetySnapshot
    <3>1. StartBackup("user", "library") /\ "library" \in Kinds
      BY <2>2 DEF SafetySnapshot, Kinds
    <3> QED BY <1>0, <2>2, <3>1, StartedIs DEF SafetySnapshot, restoreVars
  <2>3. ASSUME NEW kind \in Kinds, UserBacksUp(kind)
        PROVE  \E n \in MakerRecords :
                 /\ maker' = [maker EXCEPT !["user"] = n] /\ n.surplus = {} /\ n.at = "archive" /\ n.saves.edits = edits /\ Room
                 /\ maker["user"].at = "idle" /\ restore' = restore /\ restore.at = "idle"
    BY <1>0, <2>3, StartedIs DEF UserBacksUp, restoreVars
  <2> QED BY <2>1, <2>2, <2>3
<1>2. maker' \in [Makers -> MakerRecords] /\ maker'["user"] = n /\ maker'["loop"] = maker["loop"]
  BY <1>0, <1>1, OneMakerChanges DEF MakingShape
<1>3. MakingShape' /\ RoomIsLeft' /\ RotationIsOld'
  BY <1>0, <1>1, MakerTurns
<1>4. ContentShape' /\ ScheduleShape' /\ OkIsHonest' /\ UndoableOK
  BY <1>0 DEF ContentShape, ScheduleShape, OkIsHonest, UndoableOK
<1>5. RestoreShape' /\ RestoredIsHonest'
  BY <1>0, NoRestoreIs DEF RestoreShape, RestoredIsHonest, Saved
<1>6. MakersAreAwaited'
  BY <1>0, <1>1, <1>2, NoRestoreIs DEF MakersAreAwaited
<1>7. SnapshotHolds'
  BY <1>0, <1>1, <1>2, NoRestoreIs DEF SnapshotHolds
<1> QED BY <1>3, <1>4, <1>5, <1>6, <1>7

(* Nothing is made.                                                              *)
LEMMA MakersRest ==
  ASSUME BackupInv, UNCHANGED makingVars
  PROVE  MakingShape' /\ RoomIsLeft' /\ RotationIsOld'
<1>1. \A i : NewerThan(i)' = NewerThan(i)
  BY DEF NewerThan, VerifiedBackups, makingVars
<1>2. Archiving' = Archiving /\ records' = records /\ maker' = maker
  BY DEF Archiving, makingVars
<1>3. MakingShape' /\ RoomIsLeft'
  BY <1>2 DEF BackupInv, MakingShape, RoomIsLeft
<1>4. RotationIsOld'
  BY <1>1, <1>2 DEF BackupInv, RotationIsOld
<1> QED BY <1>3, <1>4

(* The loop's maker begins or ends, the loop dies, a week passes.             *)
LEMMA LoopTurns ==
  ASSUME BackupInv, LoopBacksUp \/ LoopSucceeds \/ LoopFails \/ DueRaises \/ Week
  PROVE  BackupInv' /\ UndoableOK
<1> USE DEF BackupInv
<1>0. UNCHANGED <<records, contentVars, restoreVars>> /\ stale' \in BOOLEAN /\ loop' \in {"waiting", "making", "dead"}
      /\ "user" \in Makers /\ "loop" \in Makers
  BY DEF LoopBacksUp, LoopSucceeds, LoopFails, DueRaises, Week, scheduleVars, ScheduleShape, Makers, makingVars
<1>1. ContentShape' /\ RestoreShape' /\ RestoredIsHonest' /\ OkIsHonest' /\ UndoableOK /\ ScheduleShape'
  BY <1>0, ContentRests DEF ScheduleShape
<1>2. Len(records) \in Nat /\ UNCHANGED <<restore, before, edits>>
  BY <1>0, RecordsFacts DEF restoreVars, contentVars
<1>3. CASE DueRaises \/ Week
  <2>1. UNCHANGED makingVars /\ maker' = maker
    BY <1>3 DEF DueRaises, Week, makingVars
  <2>2. MakersAreAwaited'
    BY <1>2, <1>3, <2>1 DEF DueRaises, Week, MakersAreAwaited
  <2>3. SnapshotHolds'
    BY <1>0, <1>2, <2>1, SnapshotStays
  <2>4. MakingShape' /\ RoomIsLeft' /\ RotationIsOld'
    BY <2>1, MakersRest
  <2> QED BY <1>1, <2>2, <2>3, <2>4
<1>4. CASE LoopBacksUp \/ LoopSucceeds \/ LoopFails
  <2>1. PICK n \in MakerRecords :
          /\ maker' = [maker EXCEPT !["loop"] = n] /\ n.surplus = {}
          /\ (n.at = "archive" /\ loop' = "making" /\ Room) \/ (n.at = "idle" /\ loop' = "waiting")
    <3>1. CASE LoopBacksUp
      <4>1. StartBackup("loop", "library") /\ "library" \in Kinds
        BY <3>1 DEF LoopBacksUp, Kinds
      <4> QED BY <1>0, <3>1, <4>1, StartedIs DEF LoopBacksUp
    <3>2. CASE LoopSucceeds \/ LoopFails
      BY <3>2, NotMakingIs DEF LoopSucceeds, LoopFails
    <3> QED BY <1>4, <3>1, <3>2
  <2>2. maker' \in [Makers -> MakerRecords] /\ maker'["loop"] = n /\ maker'["user"] = maker["user"]
    BY <1>0, <2>1, OneMakerChanges DEF MakingShape
  <2>3. MakingShape' /\ RoomIsLeft' /\ RotationIsOld'
    BY <1>0, <2>1, MakerTurns
  <2>4. MakersAreAwaited'
    BY <1>2, <2>1, <2>2 DEF MakersAreAwaited
  <2>5. SnapshotHolds'
    BY <1>0, <1>2, <2>2, SnapshotStays
  <2> QED BY <1>1, <2>3, <2>4, <2>5
<1> QED BY <1>3, <1>4

-----------------------------------------------------------------------------
(* Steps of a restore, and of the library meanwhile, that make no backup.        *)

(* What a step that leaves the makers alone owes.                                *)
LEMMA RestoringKeeps ==
  ASSUME BackupInv, UNCHANGED <<makingVars, scheduleVars>>, ContentShape', RestoreShape',
         restore'.at \in {"idle", "content", "publish", "ok"} \/ (restore' = restore /\ before' = before /\ edits \subseteq edits'),
         restore'.at \in {"idle", "tables"} \/ maker["user"].at = "idle",
         restore'.at = "tables" => restore'.mode = restore.mode /\ restore.at = "tables",
         RestoredIsHonest', OkIsHonest', edits \subseteq edits'
  PROVE  BackupInv' /\ UndoableOK
<1> USE DEF BackupInv
<1>1. MakingShape' /\ RoomIsLeft' /\ RotationIsOld' /\ ScheduleShape'
  BY MakersRest DEF scheduleVars, ScheduleShape
<1>2. UndoableOK
  BY DEF UndoableOK
<1>3. records' = records /\ maker' = maker /\ loop' = loop
  BY DEF makingVars, scheduleVars
<1>4. MakersAreAwaited'
  BY <1>3 DEF MakersAreAwaited
<1>5. SnapshotHolds'
  BY <1>3 DEF SnapshotHolds
<1> QED BY <1>1, <1>2, <1>4, <1>5

(* A restore is asked for.                                                    *)
LEMMA AskKeeps ==
  ASSUME BackupInv, NEW mode \in {"merge", "replace"}, NEW i \in 1..Len(records), AskRestore(mode, i)
  PROVE  BackupInv' /\ UndoableOK
<1> USE DEF BackupInv
<1> PICK len \in Nat : len = Len(records) /\ i \in 1..len /\ len <= MaxRecords
  BY RecordsFacts, ArchivingIsFinite, BackupsAssumption DEF RoomIsLeft
<1> DEFINE n == [NoRestore EXCEPT !.at = "open", !.mode = mode, !.from = i]
<1>0. i \in 0..MaxRecords
  BY BackupsAssumption
<1>1. n \in RestoreRecords /\ n.at = "open" /\ n.from = i
  BY <1>0, NoRestoreIs DEF RestoreRecords
<1>2. restore' = n /\ before' = edits /\ maker["user"].at = "idle"
      /\ UNCHANGED <<makingVars, scheduleVars, raced, contentVars>>
  BY DEF AskRestore
<1> HIDE DEF n
<1>3. records' = records /\ maker' = maker /\ loop' = loop /\ edits' = edits /\ rows' = rows /\ disk' = disk
  BY <1>2 DEF makingVars, scheduleVars, contentVars
<1>4. MakingShape' /\ RoomIsLeft' /\ RotationIsOld' /\ ScheduleShape'
  BY <1>2, MakersRest DEF scheduleVars, ScheduleShape
<1>5. ContentShape' /\ RestoreShape' /\ RestoredIsHonest' /\ OkIsHonest' /\ UndoableOK
  BY <1>1, <1>2, <1>3 DEF ContentShape, RestoreShape, RestoredIsHonest, OkIsHonest, UndoableOK
<1>6. MakersAreAwaited'
  BY <1>1, <1>2, <1>3 DEF MakersAreAwaited
<1>7. SnapshotHolds'
  BY <1>1, <1>2, <1>3 DEF SnapshotHolds
<1> QED BY <1>4, <1>5, <1>6, <1>7

(* The archive is opened.                                                     *)
LEMMA OpenKeeps == ASSUME BackupInv, OpenArchive PROVE BackupInv' /\ UndoableOK
<1> USE DEF BackupInv
<1>0. restore.at = "open" /\ restore.from \in 1..Len(records) /\ records[restore.from] \in Records /\ restore \in RestoreRecords
  BY RecordsFacts DEF OpenArchive, SnapshotHolds, RestoreShape
<1>1. PICK n \in RestoreRecords : restore' = n /\ n.at \in {"tables", "idle"}
  <2> DEFINE o == [restore EXCEPT !.at = "tables", !.saved = records[restore.from].saves, !.from = 0]
  <2>1. o \in RestoreRecords /\ o.at = "tables"
    <3>1. 0 \in 0..MaxRecords /\ records[restore.from].saves \in Saving
      BY <1>0, BackupsAssumption DEF Records
    <3> QED BY <1>0, <3>1 DEF RestoreRecords
  <2>2. restore' = o \/ restore' = NoRestore
    BY DEF OpenArchive
  <2> HIDE DEF o
  <2> QED BY <2>1, <2>2, NoRestoreIs
<1>2. UNCHANGED <<makingVars, scheduleVars, contentVars, before, raced>>
  BY DEF OpenArchive
<1>3. records' = records /\ maker' = maker /\ loop' = loop /\ edits' = edits /\ rows' = rows /\ disk' = disk
  BY <1>2 DEF makingVars, scheduleVars, contentVars
<1>4. MakingShape' /\ RoomIsLeft' /\ RotationIsOld' /\ ScheduleShape'
  BY <1>2, MakersRest DEF scheduleVars, ScheduleShape
<1>5. ContentShape' /\ RestoreShape' /\ RestoredIsHonest' /\ OkIsHonest' /\ UndoableOK
  BY <1>1, <1>2, <1>3 DEF ContentShape, RestoreShape, RestoredIsHonest, OkIsHonest, UndoableOK
<1>6. maker["user"] \in MakerRecords /\ maker["user"].at = "idle"
  BY <1>0 DEF MakersAreAwaited, MakingShape, Makers
<1>7. MakersAreAwaited'
  BY <1>1, <1>3, <1>6 DEF MakersAreAwaited
<1>8. SnapshotHolds'
  BY <1>0, <1>1, <1>2, <1>3, <1>6 DEF SnapshotHolds
<1> QED BY <1>4, <1>5, <1>7, <1>8

(* The tables of the backup are merged into the library.                         *)
LEMMA MergeKeeps == ASSUME BackupInv, MergeTables PROVE BackupInv' /\ UndoableOK
<1> USE DEF BackupInv
<1> DEFINE n == [restore EXCEPT !.at = "content", !.todo = Saved.content]
<1>1. n \in RestoreRecords /\ n.at = "content"
  BY DEF RestoreShape, RestoreRecords, Saved, Saving
<1>2. restore' = n /\ restore.at = "tables" /\ restore.mode = "merge" /\ edits' = edits \cup Saved.edits
      /\ UNCHANGED <<makingVars, scheduleVars, before, raced, rows, disk>>
  BY DEF MergeTables
<1> HIDE DEF n
<1>3. Saved.edits \subseteq Edits
  BY DEF RestoreShape, RestoreRecords, Saved, Saving
<1>4. maker["user"].at = "idle"
  BY <1>2 DEF MakersAreAwaited
<1>5. ContentShape' /\ RestoreShape' /\ RestoredIsHonest' /\ OkIsHonest'
  BY <1>1, <1>2, <1>3 DEF ContentShape, RestoreShape, RestoredIsHonest, OkIsHonest
<1> QED BY <1>1, <1>2, <1>4, <1>5, RestoringKeeps

(* The tables of the backup take the place of the library's: the Safety Snapshot *)
(* has been verified.                                                            *)
LEMMA ReplaceKeeps == ASSUME BackupInv, ReplaceTables PROVE BackupInv' /\ UndoableOK
<1> USE DEF BackupInv
<1> DEFINE n == [restore EXCEPT !.at = "content", !.todo = Saved.content]
<1>1. n \in RestoreRecords /\ n.at = "content"
  BY DEF RestoreShape, RestoreRecords, Saved, Saving
<1>2. restore' = n /\ restore.at = "tables" /\ edits' = Saved.edits /\ rows' = Checked(Saved.is)
      /\ maker' = [maker EXCEPT !["user"] = NotMaking] /\ maker["user"].at = "unlink"
      /\ UNCHANGED <<records, scheduleVars, before, raced, disk>>
  BY DEF ReplaceTables, Made
<1> HIDE DEF n
<1>3. Saved.edits \subseteq Edits /\ Saved.is \in [Assets -> FileContents]
  BY DEF RestoreShape, RestoreRecords, Saved, Saving
<1>4. maker' \in [Makers -> MakerRecords] /\ maker'["user"] = NotMaking /\ maker'["loop"] = maker["loop"]
  BY <1>2, NotMakingIs, OneMakerChanges DEF MakingShape, Makers
<1>5. MakingShape' /\ RoomIsLeft' /\ RotationIsOld'
  BY <1>2, NotMakingIs, MakerTurns DEF Makers
<1>6. rows' = [a \in Assets |-> [is |-> Saved.is[a], ok |-> disk[a] = Saved.is[a]]]
  BY <1>2 DEF Checked
<1>7. rows' \in [Assets -> [is : FileContents, ok : BOOLEAN]] /\ \A a \in Assets : rows'[a].ok = TRUE => disk[a] = rows'[a].is
  BY <1>3, <1>6
<1>8. ContentShape' /\ RestoreShape' /\ ScheduleShape' /\ OkIsHonest'
  BY <1>1, <1>2, <1>3, <1>7 DEF ContentShape, RestoreShape, ScheduleShape, OkIsHonest, scheduleVars
<1>9. RestoredIsHonest' /\ SnapshotHolds' /\ MakersAreAwaited'
  BY <1>1, <1>2, <1>4, NotMakingIs DEF RestoredIsHonest, SnapshotHolds, MakersAreAwaited, scheduleVars
<1>10. UndoableOK
  <2> PICK i : i = maker["user"].made
    OBVIOUS
  <2>1. i \in 1..Len(records) /\ (records[i].whole = TRUE => before \subseteq records[i].saves.edits)
    BY <1>2 DEF SnapshotHolds
  <2>2. records[i] \in Records /\ Len(records) \in Nat
    BY <2>1, RecordsFacts
  <2>3. CASE records[i].whole = TRUE
    <3>1. i \in VerifiedBackups
      BY <2>1, <2>3 DEF VerifiedBackups, RotationIsOld
    <3> QED BY <2>1, <2>3, <3>1 DEF UndoableOK
  <2>4. CASE records[i].whole = FALSE
    <3>1. SupersededSince(i)
      BY <2>1, <2>2, <2>4 DEF SupersededSince, RotationIsOld
    <3> QED BY <3>1 DEF UndoableOK
  <2> QED BY <2>2, <2>3, <2>4 DEF Records
<1> QED BY <1>5, <1>8, <1>9, <1>10

(* The file of an asset: marked, published, "ok" again, or given up.             *)
LEMMA MarkKeeps == ASSUME BackupInv, NEW a \in Assets, MarkAsset(a) PROVE BackupInv' /\ UndoableOK
<1> USE DEF BackupInv
<1> DEFINE n == [restore EXCEPT !.at = "publish", !.asset = a]
           row == [rows[a] EXCEPT !.ok = FALSE]
<1>1. n \in RestoreRecords /\ n.at = "publish" /\ n.asset = a
  BY DEF RestoreShape, RestoreRecords
<1>2. row \in [is : FileContents, ok : BOOLEAN] /\ row.ok = FALSE
  BY DEF ContentShape
<1>3. restore' = n /\ restore.at = "content" /\ rows' = [rows EXCEPT ![a] = row]
      /\ UNCHANGED <<makingVars, scheduleVars, before, raced, edits, disk>>
  BY DEF MarkAsset
<1> HIDE DEF n, row
<1>4. maker["user"].at = "idle"
  BY <1>3 DEF MakersAreAwaited
<1>5. ContentShape' /\ RestoreShape'
  BY <1>1, <1>2, <1>3 DEF ContentShape, RestoreShape
<1>6. RestoredIsHonest' /\ OkIsHonest'
  BY <1>1, <1>2, <1>3 DEF RestoredIsHonest, OkIsHonest, ContentShape
<1> QED BY <1>1, <1>3, <1>4, <1>5, <1>6, RestoringKeeps

(* The file is published.                                                     *)
LEMMA PublishAssetKeeps == ASSUME BackupInv, PublishAsset PROVE BackupInv' /\ UndoableOK
<1> USE DEF BackupInv
<1> PICK a \in Assets : a = restore.asset
  BY DEF PublishAsset, RestoredIsHonest
<1> DEFINE n == [restore EXCEPT !.at = "ok"]
<1>1. n \in RestoreRecords /\ n.at = "ok" /\ n.asset = a /\ n.saved = restore.saved
  BY DEF RestoreShape, RestoreRecords
<1>2. Saved.is \in [Assets -> FileContents]
  BY DEF RestoreShape, RestoreRecords, Saved, Saving
<1>3. restore' = n /\ restore.at = "publish" /\ disk' = [disk EXCEPT ![a] = Saved.is[a]]
      /\ UNCHANGED <<makingVars, scheduleVars, before, raced, edits, rows>>
  BY DEF PublishAsset, RestoreAt
<1> HIDE DEF n
<1>4. maker["user"].at = "idle"
  BY <1>3 DEF MakersAreAwaited
<1>5. ContentShape' /\ RestoreShape'
  BY <1>1, <1>2, <1>3 DEF ContentShape, RestoreShape
<1>6. RestoredIsHonest' /\ OkIsHonest'
  BY <1>1, <1>3 DEF RestoredIsHonest, OkIsHonest, ContentShape, Saved
<1> QED BY <1>1, <1>3, <1>4, <1>5, <1>6, RestoringKeeps

(* The asset is "ok" again.                                                   *)
LEMMA OkKeeps == ASSUME BackupInv, AssetIsOk PROVE BackupInv' /\ UndoableOK
<1> USE DEF BackupInv
<1> PICK a \in Assets : a = restore.asset
  BY DEF AssetIsOk, RestoredIsHonest
<1> DEFINE n == [restore EXCEPT !.at = "content", !.todo = @ \ {restore.asset}, !.asset = NoFile]
           row == [is |-> Saved.is[a], ok |-> TRUE]
<1>1. n \in RestoreRecords /\ n.at = "content"
  BY DEF RestoreShape, RestoreRecords
<1>2. Saved.is \in [Assets -> FileContents]
  BY DEF RestoreShape, RestoreRecords, Saved, Saving
<1>3. row \in [is : FileContents, ok : BOOLEAN] /\ row.is = Saved.is[a]
  BY <1>2
<1>4. restore' = n /\ restore.at = "ok" /\ rows' = [rows EXCEPT ![a] = row]
      /\ UNCHANGED <<makingVars, scheduleVars, before, raced, edits, disk>>
  BY DEF AssetIsOk
<1> HIDE DEF n, row
<1>5. maker["user"].at = "idle"
  BY <1>4 DEF MakersAreAwaited
<1>6. ContentShape' /\ RestoreShape'
  BY <1>1, <1>3, <1>4 DEF ContentShape, RestoreShape
<1>7. RestoredIsHonest' /\ OkIsHonest'
  BY <1>1, <1>3, <1>4 DEF RestoredIsHonest, OkIsHonest, ContentShape
<1> QED BY <1>1, <1>4, <1>5, <1>6, <1>7, RestoringKeeps

(* An asset is given up, or there is none left.                               *)
LEMMA AssetEnds == ASSUME BackupInv, AssetFails \/ RestoreEnds PROVE BackupInv' /\ UndoableOK
<1> USE DEF BackupInv
<1> DEFINE o == [restore EXCEPT !.at = "content", !.todo = @ \ {restore.asset}, !.asset = NoFile]
<1>1. o \in RestoreRecords /\ o.at = "content"
  BY DEF RestoreShape, RestoreRecords
<1>2. (restore' = o \/ restore' = NoRestore) /\ restore.at \in {"content", "publish", "ok"}
      /\ UNCHANGED <<makingVars, scheduleVars, before, raced, contentVars>>
  BY DEF AssetFails, RestoreEnds
<1> HIDE DEF o
<1>3. restore' \in RestoreRecords /\ restore'.at \in {"content", "idle"}
  BY <1>1, <1>2, NoRestoreIs
<1>4. maker["user"].at = "idle"
  BY <1>2 DEF MakersAreAwaited
<1>5. ContentShape' /\ RestoreShape' /\ RestoredIsHonest' /\ OkIsHonest' /\ edits' = edits
  BY <1>2, <1>3 DEF ContentShape, RestoreShape, RestoredIsHonest, OkIsHonest, contentVars
<1> QED BY <1>2, <1>3, <1>4, <1>5, RestoringKeeps

(* An edit, a download, a lost file.                                          *)
LEMMA LibraryChanges ==
  ASSUME BackupInv, (\E e \in Edits : Edit(e)) \/ (\E a \in Assets : DownloadAsset(a) \/ LoseFile(a))
  PROVE  BackupInv' /\ UndoableOK
<1> USE DEF BackupInv
<1>1. restore' = restore /\ before' = before /\ UNCHANGED <<makingVars, scheduleVars>> /\ edits \subseteq edits'
  BY DEF Edit, DownloadAsset, LoseFile, restoreVars
<1>2. ASSUME NEW e \in Edits, Edit(e)
      PROVE  ContentShape' /\ RestoreShape' /\ RestoredIsHonest' /\ OkIsHonest'
  BY <1>2 DEF Edit, restoreVars, ContentShape, RestoreShape, RestoredIsHonest, OkIsHonest, Saved
<1>3. ASSUME NEW a \in Assets, DownloadAsset(a)
      PROVE  ContentShape' /\ RestoreShape' /\ RestoredIsHonest' /\ OkIsHonest'
  <2> DEFINE row == [is |-> Later, ok |-> TRUE]
  <2>1. row \in [is : FileContents, ok : BOOLEAN] /\ row.is = Later
    BY DEF FileContents
  <2>2. rows' = [rows EXCEPT ![a] = row] /\ disk' = [disk EXCEPT ![a] = Later] /\ edits' = edits
        /\ raced' = IF restore.asset = a THEN raced \cup {a} ELSE raced
    BY <1>3 DEF DownloadAsset
  <2> HIDE DEF row
  <2>3. ContentShape' /\ RestoreShape'
    BY <1>1, <2>1, <2>2 DEF ContentShape, RestoreShape, FileContents
  <2>4. OkIsHonest'
    BY <2>1, <2>2 DEF OkIsHonest, ContentShape
  <2>5. RestoredIsHonest'
    BY <1>1, <2>2 DEF RestoredIsHonest, ContentShape, Saved
  <2> QED BY <2>3, <2>4, <2>5
<1>4. ASSUME NEW a \in Assets, LoseFile(a)
      PROVE  ContentShape' /\ RestoreShape' /\ RestoredIsHonest' /\ OkIsHonest'
  <2> DEFINE row == [rows[a] EXCEPT !.ok = FALSE]
  <2>1. row \in [is : FileContents, ok : BOOLEAN] /\ row.ok = FALSE
    BY DEF ContentShape
  <2>2. rows' = [rows EXCEPT ![a] = row] /\ disk' = [disk EXCEPT ![a] = NoFile] /\ edits' = edits /\ raced' = raced
        /\ restore.asset # a
    BY <1>4 DEF LoseFile, restoreVars
  <2> HIDE DEF row
  <2>3. ContentShape' /\ RestoreShape'
    BY <1>1, <2>1, <2>2 DEF ContentShape, RestoreShape
  <2>4. OkIsHonest'
    BY <2>1, <2>2 DEF OkIsHonest, ContentShape
  <2>5. RestoredIsHonest'
    BY <1>1, <2>2 DEF RestoredIsHonest, ContentShape, Saved
  <2> QED BY <2>3, <2>4, <2>5
<1>5. ContentShape' /\ RestoreShape' /\ RestoredIsHonest' /\ OkIsHonest'
  BY <1>2, <1>3, <1>4
<1>6. restore'.at \in {"idle", "tables"} \/ maker["user"].at = "idle"
  BY <1>1 DEF MakersAreAwaited
<1> QED BY ONLY BackupInv, <1>1, <1>5, <1>6, RestoringKeeps

(* A crash ends every maker and the restore.                                  *)
LEMMA BackupCrashKeeps == ASSUME BackupInv, BackupCrash PROVE BackupInv' /\ UndoableOK
<1> USE DEF BackupInv
<1>1. /\ maker' = [m \in Makers |-> NotMaking] /\ loop' = "waiting" /\ restore' = NoRestore
      /\ UNCHANGED <<records, stale, before, raced, contentVars>>
  BY DEF BackupCrash
<1>2. UNCHANGED <<edits, rows, disk>>
  BY <1>1 DEF contentVars
<1>3. ContentShape' /\ RestoreShape' /\ ScheduleShape' /\ OkIsHonest' /\ RestoredIsHonest' /\ UndoableOK /\ SnapshotHolds'
  BY <1>1, <1>2, NoRestoreIs
     DEF ContentShape, RestoreShape, ScheduleShape, OkIsHonest, RestoredIsHonest, UndoableOK, SnapshotHolds
<1>4. MakingShape' /\ MakersAreAwaited'
  BY <1>1, NotMakingIs, NoRestoreIs DEF MakingShape, MakersAreAwaited, Makers
<1>5. RoomIsLeft'
  <2>1. Archiving' = {}
    BY <1>1, NotMakingIs DEF Archiving
  <2>2. Cardinality(Archiving') = 0 /\ Len(records') = Len(records) /\ Len(records) \in Nat
    BY <1>1, <2>1, FS_EmptySet, RecordsFacts
  <2> QED BY <2>2, ArchivingIsFinite, BackupsAssumption DEF RoomIsLeft
<1>6. RotationIsOld'
  <2>1. \A i : NewerThan(i)' = NewerThan(i)
    BY <1>1 DEF NewerThan, VerifiedBackups
  <2> QED BY <1>1, <2>1, NotMakingIs DEF RotationIsOld
<1> QED BY <1>3, <1>4, <1>5, <1>6

(* Nothing happens to the backups.                                            *)
LEMMA BackupsRest == ASSUME BackupInv, UNCHANGED backupVars PROVE BackupInv' /\ UndoableOK
<1>1. UNCHANGED <<makingVars, loop, stale, contentVars, restoreVars>>
  BY DEF backupVars, scheduleVars
<1>2. MakingShape' /\ RoomIsLeft' /\ RotationIsOld'
  BY <1>1, MakersRest
<1>3. ContentShape' /\ RestoreShape' /\ RestoredIsHonest' /\ OkIsHonest' /\ UndoableOK
  BY <1>1, ContentRests
<1>4. ScheduleShape' /\ MakersAreAwaited' /\ SnapshotHolds'
  BY <1>1 DEF BackupInv, ScheduleShape, MakersAreAwaited, SnapshotHolds, makingVars, contentVars, restoreVars
<1> QED BY <1>2, <1>3, <1>4 DEF BackupInv

(* Every step of the backups.                                                    *)
LEMMA BackupsStep == BackupInv /\ [BackupsNext]_backupVars => BackupInv' /\ UndoableOK
<1> SUFFICES ASSUME BackupInv, [BackupsNext]_backupVars PROVE BackupInv' /\ UndoableOK
  OBVIOUS
<1>1. CASE Making("user") \/ Making("loop")
  BY <1>1, MakingKeeps DEF Makers
<1>2. CASE UserBackupEnds \/ SafetySnapshot \/ SafetySnapshotFails \/ \E kind \in Kinds : UserBacksUp(kind)
  BY <1>2, UserTurns
<1>3. CASE LoopBacksUp \/ LoopSucceeds \/ LoopFails \/ DueRaises \/ Week
  BY <1>3, LoopTurns
<1>4. CASE \E mode \in {"merge", "replace"}, i \in 1..Len(records) : AskRestore(mode, i)
  BY <1>4, AskKeeps
<1>5. CASE OpenArchive \/ ReplaceTables \/ MergeTables \/ PublishAsset \/ AssetIsOk
  BY <1>5, OpenKeeps, ReplaceKeeps, MergeKeeps, PublishAssetKeeps, OkKeeps
<1>6. CASE \E a \in Assets : MarkAsset(a)
  BY <1>6, MarkKeeps
<1>7. CASE AssetFails \/ RestoreEnds
  BY <1>7, AssetEnds
<1>8. CASE (\E e \in Edits : Edit(e)) \/ (\E a \in Assets : DownloadAsset(a) \/ LoseFile(a))
  BY <1>8, LibraryChanges
<1>9. CASE BackupCrash
  BY <1>9, BackupCrashKeeps
<1>10. CASE UNCHANGED backupVars
  BY <1>10, BackupsRest
<1> QED
  BY <1>1, <1>2, <1>3, <1>4, <1>5, <1>6, <1>7, <1>8, <1>9, <1>10 DEF BackupsNext, LoopStep, Restoring

(* What the invariant says of a state.                                           *)
LEMMA BackupsAreKept == BackupInv => BackupsTypeOK /\ NewestKept /\ OkIsHonest
<1> SUFFICES ASSUME BackupInv PROVE BackupsTypeOK /\ NewestKept /\ OkIsHonest
  OBVIOUS
<1> USE DEF BackupInv
<1>1. Len(records) <= MaxRecords
  BY RecordsFacts, ArchivingIsFinite, BackupsAssumption DEF RoomIsLeft
<1>2. BackupsTypeOK
  BY <1>1 DEF BackupsTypeOK, ContentShape, MakingShape, ScheduleShape, RestoreShape, MakersAreAwaited, MakerRecords, RestoreRecords
<1>3. NewestKept
  <2> SUFFICES ASSUME NEW i \in VerifiedBackups, Cardinality(NewerThan(i)) < Keep PROVE records[i].whole
    BY DEF NewestKept
  <2>1. i \in 1..Len(records) /\ records[i] \in Records /\ i \in Nat
    BY RecordsFacts DEF VerifiedBackups
  <2>2. Cardinality(NewerThan(i)) \in Nat
    BY <2>1, NewerIsFinite
  <2>3. records[i].whole # FALSE
    <3> SUFFICES ASSUME records[i].whole = FALSE PROVE FALSE
      OBVIOUS
    <3>1. Cardinality(NewerThan(i)) >= Keep
      BY <2>1 DEF RotationIsOld
    <3> QED BY <2>2, <3>1, BackupsAssumption
  <2> QED BY <2>1, <2>3 DEF Records
<1> QED BY <1>2, <1>3

-----------------------------------------------------------------------------
(* Imports.                                                                  *)

(* Where a call stands tells what its two records say.                           *)
CallAgrees(i) ==
  /\ importWorker[i] = "idle" => import[i] = "none" /\ journal[i] = "none"
  /\ importWorker[i] = "check" => import[i] = "validating" /\ journal[i] = "none"
  /\ importWorker[i] = "commit" => import[i] = "committing" /\ journal[i] = "none"
  /\ importWorker[i] = "advance" => import[i] = "committing" /\ journal[i] = "open"
  /\ importWorker[i] = "close" => i \in registered /\ import[i] = "completed"
  /\ import[i] = "completed" <=> i \in registered

ImportInv ==
  /\ ImportTypeOK /\ OneFilePerUnit
  /\ \A i \in Imports : CallAgrees(i) /\ (~serving => importWorker[i] \in {"idle", "gone"})

(* No import has begun at the start.                                             *)
LEMMA ImportsInitially == ImportsInit => ImportInv
BY DEF ImportsInit, ImportInv, ImportTypeOK, CallAgrees, OneFilePerUnit

(* The steps of a call concern only its own import.                              *)
LEMMA ImportCallKeeps ==
  ASSUME ImportInv, NEW i \in Imports,
         \/ BeginImport(i) \/ CheckImport(i) \/ OpenJournal(i) \/ AdvanceImport(i) \/ CloseImport(i)
  PROVE  ImportInv' /\ serving
<1> USE DEF ImportInv, ImportTypeOK, CallAgrees, Becomes, Ends
<1>0. serving /\ serving'
  BY DEF BeginImport, CheckImport, OpenJournal, AdvanceImport, CloseImport
<1>1. CASE BeginImport(i)
  BY <1>0, <1>1 DEF BeginImport, OneFilePerUnit
<1>2. CASE CheckImport(i)
  BY <1>0, <1>2 DEF CheckImport, OneFilePerUnit
<1>3. CASE OpenJournal(i)
  BY <1>0, <1>3 DEF OpenJournal, OneFilePerUnit
<1>4. CASE AdvanceImport(i)
  <2>1. UNCHANGED <<target, workThere, serving>> /\ importWorker' \in [Imports -> {"idle", "check", "commit", "advance", "close", "gone"}]
        /\ \A j \in Imports \ {i} : importWorker'[j] = importWorker[j] /\ import'[j] = import[j] /\ journal'[j] = journal[j]
                                    /\ (j \in registered' <=> j \in registered)
    BY <1>4 DEF AdvanceImport, Registers
  <2>2. /\ import' \in [Imports -> {"none", "validating", "committing", "completed", "rejected", "failed"}]
        /\ journal' \in [Imports -> {"none", "open", "done", "aborted"}]
        /\ registered' \subseteq Imports /\ upload' \subseteq Imports
    BY <1>4 DEF AdvanceImport, Registers
  <2>3. CallAgrees(i)'
    BY <1>4 DEF AdvanceImport, Registers
  <2>4. OneFilePerUnit'
    <3>1. CASE registered' = registered
      BY <2>1, <3>1 DEF OneFilePerUnit
    <3>2. CASE registered' = registered \cup {i} /\ ~UnitTaken(i)
      BY <2>1, <3>2 DEF OneFilePerUnit, UnitTaken
    <3> QED BY <1>4, <3>1, <3>2 DEF AdvanceImport, Registers, CanRegister
  <2> QED BY <1>0, <1>4, <2>1, <2>2, <2>3, <2>4 DEF AdvanceImport
<1>5. CASE CloseImport(i)
  BY <1>0, <1>5 DEF CloseImport, OnLateError, OneFilePerUnit
<1> QED BY <1>1, <1>2, <1>3, <1>4, <1>5

(* What a start may do with the imports it finds.                                *)
SettlesOK ==
  ~serving /\ serving' => \A i \in Imports : /\ import'[i] = "validating" => journal'[i] = "open"
                                             /\ import'[i] = "committing" => journal'[i] = "open"

(* The start settles what it finds.                                           *)
LEMMA StartUpKeeps == ASSUME ImportInv, StartUp PROVE ImportInv' /\ SettlesOK
<1> USE DEF ImportInv, ImportTypeOK, OpenEntries
<1> PICK settles \in SUBSET {i \in OpenEntries : i \in registered \/ CanRegister(i)}, aborted \in SUBSET (OpenEntries \ registered) :
       /\ settles \cap aborted = {}
       /\ ~\E i, j \in settles \cup registered : i # j /\ target[i] = "unit" /\ target[j] = "unit"
       /\ journal' = [i \in Imports |-> IF i \in settles THEN "done" ELSE IF i \in aborted THEN "aborted" ELSE journal[i]]
       /\ registered' = registered \cup settles
       /\ import' = [i \in Imports |-> IF i \in settles THEN "completed" ELSE FailInterrupted(journal'[i], import[i])]
    BY DEF StartUp
<1>1. UNCHANGED <<target, upload, importWorker, workThere>> /\ ~serving /\ serving' = TRUE
  BY DEF StartUp
<1>2. ImportTypeOK'
  BY <1>1 DEF FailInterrupted
<1>3. \A i \in Imports : CallAgrees(i)'
  BY <1>1 DEF FailInterrupted, CallAgrees
<1>4. OneFilePerUnit'
  BY <1>1 DEF OneFilePerUnit
<1>5. SettlesOK
  BY <1>1 DEF FailInterrupted, SettlesOK
<1> QED BY <1>1, <1>2, <1>3, <1>4, <1>5

(* Every step of the imports.                                                    *)
LEMMA ImportsStep == ImportInv /\ [ImportsNext]_importVars => ImportInv' /\ SettlesOK
<1> SUFFICES ASSUME ImportInv, [ImportsNext]_importVars PROVE ImportInv' /\ SettlesOK
  OBVIOUS
<1>1. ASSUME NEW i \in Imports,
             \/ BeginImport(i) \/ CheckImport(i) \/ OpenJournal(i) \/ AdvanceImport(i) \/ CloseImport(i)
      PROVE  ImportInv' /\ SettlesOK
  BY <1>1, ImportCallKeeps DEF SettlesOK
<1>2. CASE MergeWork
  <2>1. serving /\ workThere' \in BOOLEAN /\ UNCHANGED <<import, target, journal, registered, upload, importWorker, serving>>
    BY <1>2 DEF MergeWork
  <2> QED BY <2>1 DEF ImportInv, ImportTypeOK, CallAgrees, OneFilePerUnit, SettlesOK
<1>3. CASE ImportCrash
  <2>1. serving /\ serving' = FALSE /\ UNCHANGED <<import, target, journal, registered, upload, workThere>>
    BY <1>3 DEF ImportCrash
  <2>2. importWorker' \in [Imports -> {"idle", "gone"}] /\ \A i \in Imports : importWorker'[i] = "idle" => importWorker[i] = "idle"
    BY <1>3 DEF ImportCrash
  <2>3. ImportTypeOK'
    BY <2>1, <2>2 DEF ImportInv, ImportTypeOK
  <2>4. OneFilePerUnit' /\ \A i \in Imports : CallAgrees(i)'
    BY <2>1, <2>2 DEF ImportInv, CallAgrees, OneFilePerUnit
  <2> QED BY <2>1, <2>2, <2>3, <2>4 DEF ImportInv, SettlesOK
<1>4. CASE StartUp
  BY <1>4, StartUpKeeps
<1>5. CASE UNCHANGED importVars
  BY <1>5 DEF importVars, ImportInv, ImportTypeOK, CallAgrees, OneFilePerUnit, SettlesOK
<1> QED BY <1>1, <1>2, <1>3, <1>4, <1>5 DEF ImportsNext

-----------------------------------------------------------------------------
(* Exports.                                                                  *)

ExportRun == [pc : {"idle", "pick", "publish", "mark", "finish", "ended"}, todo : SUBSET Items, bad : BOOLEAN, verified : BOOLEAN]

(* A run publishes what it compared, and has it to do until it is marked; and    *)
(* what is pending is what some run has to do, or was put back.                  *)
RunAgrees(r) ==
  /\ runs[r].pc \in {"publish", "mark"} => runs[r].todo # {}
  /\ runs[r].pc = "publish" => runs[r].verified = TRUE
  /\ runs[r].pc = "finish" => runs[r].todo = {}
  /\ UnderWay(r) => exportJob.state # "none"
  /\ UnderWay(r) /\ runs[r].bad = FALSE => \A i \in Items \ again : items[i] = "pending" => i \in runs[r].todo

ExportInv ==
  /\ ExportTypeOK /\ (\A r \in ExportRuns : RunAgrees(r))
  /\ \A i \in Items : items[i] = "none" <=> exportJob.state = "none"

(* A run that is not there is a run.                                          *)
LEMMA NotRunningIsRun == NotRunning \in ExportRun /\ NotRunning.pc = "idle" /\ NotRunning.bad = FALSE
BY DEF NotRunning, ExportRun

(* Nothing is exported at the start.                                             *)
LEMMA ExportsInitially == ExportsInit => ExportInv
<1> SUFFICES ASSUME ExportsInit PROVE ExportInv
  OBVIOUS
<1>1. ExportTypeOK
  BY NotRunningIsRun DEF ExportsInit, ExportTypeOK, ExportRun, Outputs, Policies
<1> QED BY <1>1, NotRunningIsRun DEF ExportsInit, ExportInv, RunAgrees, UnderWay

(* What every step may do: what it publishes, what it replaces, and when it ends *)
(* the job.                                                                      *)
PublishesOK == Published => \A t \in Targets : dest'[t] # dest[t] => dest'[t] # OtherFile
OverwritesOK == Published /\ exportJob.conflict # "replace" => \A t \in Targets : dest[t] # NoCopy => dest'[t] = dest[t]
CompletesOK ==
  exportJob.state # "completed" /\ exportJob'.state = "completed"
    => \A i \in Items \ again : items[i] \in {"copied", "skipped"}
ExportOK == PublishesOK /\ OverwritesOK /\ CompletesOK

(* What a run works at is of what it has to do.                               *)
LEMMA RunPart ==
  ASSUME ExportInv, NEW r \in ExportRuns, runs[r].todo # {}
  PROVE  Part(r) \subseteq runs[r].todo /\ Part(r) \subseteq Items /\ Target(r) \in Targets
BY DEF ExportInv, ExportTypeOK, Part, Target, Next1, Targets

(* A run that works at its part leaves what is pending to the others.            *)
LEMMA RunGoesOn ==
  ASSUME ExportInv, NEW r \in ExportRuns, NEW n \in ExportRun, UnderWay(r),
         UNCHANGED <<exportJob, again>>, runs' = [runs EXCEPT ![r] = n],
         items' \in [Items -> {"none", "pending", "copied", "skipped", "failed"}],
         \A i \in Items : items'[i] = items[i] \/ items'[i] \in {"copied", "skipped", "failed"},
         n.pc \in {"publish", "mark"} => n.todo # {},
         n.pc = "publish" => n.verified = TRUE,
         n.pc = "finish" => n.todo = {},
         n.bad = FALSE => runs[r].bad = FALSE /\ \A i \in runs[r].todo : i \in n.todo \/ items'[i] # "pending",
         source' = source, dest' \in [Targets -> {NoCopy, OtherFile} \cup SUBSET Items], second' \subseteq Targets
  PROVE  ExportInv'
<1> USE DEF ExportInv
<1>1. runs' \in [ExportRuns -> ExportRun] /\ runs'[r] = n /\ \A o \in ExportRuns \ {r} : runs'[o] = runs[o]
  BY DEF ExportTypeOK, ExportRun
<1>2. ExportTypeOK'
  BY <1>1 DEF ExportTypeOK, ExportRun
<1>3. RunAgrees(r)'
  BY <1>1 DEF RunAgrees, UnderWay, ExportTypeOK
<1>4. ASSUME NEW o \in ExportRuns \ {r} PROVE RunAgrees(o)'
  BY <1>1 DEF RunAgrees, UnderWay, ExportTypeOK
<1>5. \A i \in Items : items'[i] = "none" <=> exportJob'.state = "none"
  BY DEF RunAgrees
<1> QED BY <1>2, <1>3, <1>4, <1>5

(* What an item is once it is settled.                                        *)
LEMMA SettledIs ==
  ASSUME ExportTypeOK, NEW S, NEW state \in {"copied", "skipped", "failed"}
  PROVE  /\ Settled(S, state) \in [Items -> {"none", "pending", "copied", "skipped", "failed"}]
         /\ \A i \in Items : Settled(S, state)[i] = IF i \in S THEN state ELSE items[i]
BY DEF Settled, ExportTypeOK

(* A run picks what it does next, and compares it.                               *)
LEMMA PickKeeps == ASSUME ExportInv, NEW r \in ExportRuns, Pick(r) PROVE ExportInv' /\ ~Published /\ exportJob' = exportJob
<1> USE DEF ExportInv
<1>0. runs[r].pc = "pick" /\ runs[r].todo # {} /\ UNCHANGED <<exportJob, source, dest, second, again>> /\ UnderWay(r)
      /\ runs[r] \in ExportRun
  BY DEF Pick, UnderWay, ExportTypeOK, ExportRun
<1>00. ExportTypeOK
  OBVIOUS
<1> DEFINE goesOn == [runs[r] EXCEPT !.pc = "pick", !.todo = @ \ Part(r)]
           badly == [runs[r] EXCEPT !.pc = "pick", !.todo = @ \ Part(r), !.bad = TRUE]
           go == [runs[r] EXCEPT !.pc = "publish", !.verified = \A i \in Part(r) : source[i] = "recorded"]
<1>1. /\ goesOn \in ExportRun /\ goesOn.pc = "pick" /\ goesOn.todo = runs[r].todo \ Part(r) /\ goesOn.bad = runs[r].bad
      /\ badly \in ExportRun /\ badly.pc = "pick" /\ badly.bad = TRUE
      /\ go \in ExportRun /\ go.pc = "publish" /\ go.todo = runs[r].todo /\ go.bad = runs[r].bad
      /\ go.verified = (\A i \in Part(r) : source[i] = "recorded")
  BY <1>0 DEF ExportRun
<1>2. Done(r) = [runs EXCEPT ![r] = goesOn] /\ DoneBadly(r) = [runs EXCEPT ![r] = badly]
      /\ [runs EXCEPT ![r].pc = "publish", ![r].verified = \A i \in Part(r) : source[i] = "recorded"] = [runs EXCEPT ![r] = go]
  BY <1>0 DEF Done, DoneBadly, ExportTypeOK, ExportRun
<1> HIDE DEF goesOn, badly, go
<1>3. dest' \in [Targets -> {NoCopy, OtherFile} \cup SUBSET Items] /\ second' \subseteq Targets
  BY <1>0 DEF ExportTypeOK
<1>4. CASE runs' = DoneBadly(r) /\ (items' = Settled(Bad(r), "failed") \/ items' = FailedPart(r))
  <2>1. \E S : items' = Settled(S, "failed") \/ items' = items
    BY <1>4 DEF FailedPart
  <2>2. items' \in [Items -> {"none", "pending", "copied", "skipped", "failed"}]
        /\ \A i \in Items : items'[i] = items[i] \/ items'[i] \in {"copied", "skipped", "failed"}
    BY <2>1, SettledIs DEF ExportTypeOK
  <2> QED BY <1>0, <1>1, <1>2, <1>3, <1>4, <2>2, RunGoesOn DEF Published, ExportTypeOK
<1>5. CASE runs' = Done(r) /\ items' = Settled(Part(r), "skipped")
  <2>2. items' \in [Items -> {"none", "pending", "copied", "skipped", "failed"}]
        /\ (\A i \in Items : items'[i] = items[i] \/ items'[i] \in {"copied", "skipped", "failed"})
        /\ \A i \in runs[r].todo : i \in goesOn.todo \/ items'[i] # "pending"
    BY <1>00, <1>1, <1>5, SettledIs DEF ExportTypeOK
  <2>3. runs' = [runs EXCEPT ![r] = goesOn] /\ UNCHANGED <<exportJob, again, source>>
    BY <1>0, <1>2, <1>5
  <2>4. ExportInv'
    BY <1>0, <1>1, <1>3, <2>2, <2>3, RunGoesOn
  <2> QED BY <1>0, <1>1, <2>3, <2>4 DEF Published, ExportTypeOK
<1>6. CASE items' = items /\ Bad(r) = {} /\ ~Compares(Target(r)) /\ runs' = [runs EXCEPT ![r] = go]
  <2>1. \A i \in Part(r) : source[i] = "recorded"
    BY <1>6, <1>0, RunPart DEF Bad, CopiedWell
  <2>2. items' \in [Items -> {"none", "pending", "copied", "skipped", "failed"}]
    BY <1>6 DEF ExportTypeOK
  <2>3. ExportInv'
    BY <1>0, <1>1, <1>3, <1>6, <2>1, <2>2, RunGoesOn
  <2> QED BY <1>0, <1>1, <1>6, <2>3 DEF Published, ExportTypeOK
<1> QED BY <1>0, <1>2, <1>4, <1>5, <1>6 DEF Pick

(* It publishes the part.                                                     *)
LEMMA PublishKeeps == ASSUME ExportInv, NEW r \in ExportRuns, PublishExport(r) PROVE ExportInv' /\ ExportOK
<1> USE DEF ExportInv
<1>0. runs[r].pc = "publish" /\ runs[r].verified = TRUE /\ runs[r].todo # {} /\ UNCHANGED <<exportJob, source, again>> /\ UnderWay(r)
      /\ runs[r] \in ExportRun
  BY DEF PublishExport, UnderWay, ExportTypeOK, ExportRun, RunAgrees
<1>00. ExportTypeOK
  OBVIOUS
<1> DEFINE badly == [runs[r] EXCEPT !.pc = "pick", !.todo = @ \ Part(r), !.bad = TRUE]
           mark == [runs[r] EXCEPT !.pc = "mark"]
<1>1. /\ badly \in ExportRun /\ badly.pc = "pick" /\ badly.bad = TRUE
      /\ mark \in ExportRun /\ mark.pc = "mark" /\ mark.todo = runs[r].todo /\ mark.bad = runs[r].bad
  BY <1>0 DEF ExportRun
<1>2. DoneBadly(r) = [runs EXCEPT ![r] = badly] /\ [runs EXCEPT ![r].pc = "mark"] = [runs EXCEPT ![r] = mark]
  BY <1>0 DEF Done, DoneBadly, ExportTypeOK, ExportRun
<1> HIDE DEF badly, mark
<1>3. Part(r) \subseteq Items /\ Target(r) \in Targets
  BY <1>0, RunPart
<1>4. CASE runs' = DoneBadly(r) /\ items' = FailedPart(r) /\ UNCHANGED <<dest, second>>
  <2>1. \E S : items' = Settled(S, "failed") \/ items' = items
    BY <1>4, <1>0 DEF FailedPart
  <2>2. items' \in [Items -> {"none", "pending", "copied", "skipped", "failed"}]
        /\ \A i \in Items : items'[i] = items[i] \/ items'[i] \in {"copied", "skipped", "failed"}
    BY <2>1, SettledIs DEF ExportTypeOK
  <2>3. dest' \in [Targets -> {NoCopy, OtherFile} \cup SUBSET Items] /\ second' \subseteq Targets
    BY <1>4 DEF ExportTypeOK
  <2>4. ExportInv'
    BY <1>0, <1>1, <1>2, <1>4, <2>2, <2>3, RunGoesOn
  <2> QED BY <1>0, <1>4, <2>4 DEF ExportOK, PublishesOK, OverwritesOK, CompletesOK
<1>5. ASSUME runs' = [runs EXCEPT ![r].pc = "mark"], items' = items, second' \subseteq Targets,
             dest' \in [Targets -> {NoCopy, OtherFile} \cup SUBSET Items]
      PROVE  ExportInv'
  <2>1. items' \in [Items -> {"none", "pending", "copied", "skipped", "failed"}]
    BY <1>5 DEF ExportTypeOK
  <2> QED BY <1>0, <1>1, <1>2, <1>5, <2>1, RunGoesOn
<1>6. CASE (MayReplace \/ dest[Target(r)] = NoCopy) /\ dest' = [dest EXCEPT ![Target(r)] = IF runs[r].verified THEN Part(r) ELSE OtherFile]
           /\ runs' = [runs EXCEPT ![r].pc = "mark"] /\ UNCHANGED <<items, second>>
  <2>1. dest' \in [Targets -> {NoCopy, OtherFile} \cup SUBSET Items] /\ dest'[Target(r)] = Part(r)
        /\ \A t \in Targets \ {Target(r)} : dest'[t] = dest[t]
    BY <1>0, <1>3, <1>6 DEF ExportTypeOK
  <2>2. second' \subseteq Targets
    BY <1>6 DEF ExportTypeOK
  <2>3. PublishesOK
    BY <1>3, <2>1, ExportsAssumption DEF PublishesOK
  <2>4. OverwritesOK
    BY <1>6, <2>1 DEF OverwritesOK, MayReplace
  <2>5. ExportInv'
    BY <1>5, <1>6, <2>1, <2>2
  <2> QED BY <1>0, <2>3, <2>4, <2>5 DEF ExportOK, CompletesOK
<1>7. CASE second' = second \cup {Target(r)} /\ runs' = [runs EXCEPT ![r].pc = "mark"] /\ UNCHANGED <<items, dest>>
  <2>1. second' \subseteq Targets /\ dest' \in [Targets -> {NoCopy, OtherFile} \cup SUBSET Items]
    BY <1>3, <1>7 DEF ExportTypeOK
  <2> QED BY <1>0, <1>5, <1>7, <2>1 DEF ExportOK, PublishesOK, OverwritesOK, CompletesOK
<1> QED BY <1>4, <1>6, <1>7 DEF PublishExport

(* The other steps of a run that is under way.                                   *)
LEMMA RunStepKeeps ==
  ASSUME ExportInv, NEW r \in ExportRuns, PickNothing(r) \/ MarkItemCopied(r)
  PROVE  ExportInv' /\ ~Published /\ exportJob' = exportJob
<1> USE DEF ExportInv
<1>0. UNCHANGED <<exportJob, source, dest, second, again>> /\ UnderWay(r) /\ runs[r] \in ExportRun
  BY DEF PickNothing, MarkItemCopied, UnderWay, ExportTypeOK, ExportRun
<1>00. ExportTypeOK
  OBVIOUS
<1>1. dest' \in [Targets -> {NoCopy, OtherFile} \cup SUBSET Items] /\ second' \subseteq Targets
  BY <1>0 DEF ExportTypeOK
<1>2. CASE PickNothing(r)
  <2> DEFINE n == [runs[r] EXCEPT !.pc = "finish"]
  <2>1. n \in ExportRun /\ n.pc = "finish" /\ n.todo = {} /\ n.bad = runs[r].bad /\ runs' = [runs EXCEPT ![r] = n] /\ runs[r].todo = {}
    BY <1>0, <1>2 DEF PickNothing, ExportRun
  <2> HIDE DEF n
  <2>2. items' = items /\ items' \in [Items -> {"none", "pending", "copied", "skipped", "failed"}]
    BY <1>2 DEF PickNothing, ExportTypeOK
  <2> QED BY <1>0, <1>1, <2>1, <2>2, RunGoesOn DEF Published, ExportTypeOK
<1>3. CASE MarkItemCopied(r)
  <2> DEFINE n == [runs[r] EXCEPT !.pc = "pick", !.todo = @ \ Part(r)]
  <2>1. n \in ExportRun /\ n.pc = "pick" /\ n.todo = runs[r].todo \ Part(r) /\ n.bad = runs[r].bad
    BY <1>0 DEF ExportRun
  <2>2. runs' = [runs EXCEPT ![r] = n] /\ items' = Settled(Part(r), "copied")
    BY <1>0, <1>3 DEF MarkItemCopied, Done, ExportTypeOK, ExportRun
  <2> HIDE DEF n
  <2>3. items' \in [Items -> {"none", "pending", "copied", "skipped", "failed"}]
        /\ (\A i \in Items : items'[i] = items[i] \/ items'[i] \in {"copied", "skipped", "failed"})
        /\ \A i \in runs[r].todo : i \in n.todo \/ items'[i] # "pending"
    BY <1>00, <2>1, <2>2, SettledIs DEF ExportTypeOK
  <2> QED BY <1>0, <1>1, <2>1, <2>2, <2>3, RunGoesOn DEF Published, ExportTypeOK
<1> QED BY <1>2, <1>3

(* A run begins, and ends the job when it has done what there was.               *)
LEMMA BeginRunKeeps == ASSUME ExportInv, NEW r \in ExportRuns, BeginRun(r) PROVE ExportInv' /\ ExportOK
<1> USE DEF ExportInv
<1> DEFINE n == [NotRunning EXCEPT !.pc = "pick", !.todo = Chosen]
<1>0. UNCHANGED <<items, source, dest, second, again>> /\ exportJob.state # "none" /\ runs[r].pc = "idle"
  BY DEF BeginRun
<1>1. n \in ExportRun /\ n.pc = "pick" /\ n.bad = FALSE /\ \A i \in Items : items[i] = "pending" => i \in n.todo
  BY DEF NotRunning, ExportRun, Chosen
<1>2. runs' = [runs EXCEPT ![r] = n]
  BY DEF BeginRun
<1> HIDE DEF n
<1>3. /\ exportJob'.state = "running" /\ exportJob' \in [state : {"none", "queued", "running", "completed", "completed_with_issues"},
                    output : Outputs, conflict : Policies]
  BY DEF BeginRun, ExportTypeOK
<1>4. runs' \in [ExportRuns -> ExportRun] /\ runs'[r] = n /\ \A o \in ExportRuns \ {r} : runs'[o] = runs[o]
  BY <1>1, <1>2 DEF ExportTypeOK, ExportRun
<1>5. ExportTypeOK'
  BY <1>0, <1>3, <1>4 DEF ExportTypeOK, ExportRun
<1>6. \A o \in ExportRuns : RunAgrees(o)'
  BY <1>0, <1>1, <1>3, <1>4 DEF RunAgrees, UnderWay
<1>7. ExportOK
  BY <1>0, <1>1, <1>3, <1>4 DEF ExportOK, PublishesOK, OverwritesOK, CompletesOK, Published
<1> QED BY <1>0, <1>3, <1>5, <1>6, <1>7

(* A run finishes its job.                                                    *)
LEMMA FinishRunKeeps == ASSUME ExportInv, NEW r \in ExportRuns, FinishRun(r) PROVE ExportInv' /\ ExportOK
<1> USE DEF ExportInv
<1> DEFINE n == [NotRunning EXCEPT !.pc = "ended"]
<1> PICK metadata \in BOOLEAN :
       exportJob' = [exportJob EXCEPT !.state = IF Issues(r, metadata) THEN "completed_with_issues" ELSE "completed"]
  BY DEF FinishRun
<1>0. UNCHANGED <<items, source, dest, second, again>> /\ runs[r].pc = "finish" /\ runs[r].todo = {} /\ UnderWay(r) /\ exportJob.state # "none"
  BY DEF FinishRun, RunAgrees, UnderWay
<1>1. n \in ExportRun /\ n.pc = "ended" /\ runs' = [runs EXCEPT ![r] = n]
  BY DEF NotRunning, ExportRun, FinishRun
<1> HIDE DEF n
<1>3. /\ exportJob'.state = IF Issues(r, metadata) THEN "completed_with_issues" ELSE "completed"
      /\ exportJob' \in [state : {"none", "queued", "running", "completed", "completed_with_issues"},
                    output : Outputs, conflict : Policies]
  BY DEF ExportTypeOK
<1>4. runs' \in [ExportRuns -> ExportRun] /\ runs'[r] = n /\ \A o \in ExportRuns \ {r} : runs'[o] = runs[o]
  BY <1>1 DEF ExportTypeOK, ExportRun
<1>5. ExportTypeOK'
  BY <1>0, <1>3, <1>4 DEF ExportTypeOK, ExportRun
<1>6. \A o \in ExportRuns : RunAgrees(o)'
  BY <1>0, <1>1, <1>3, <1>4 DEF RunAgrees, UnderWay
<1>7. CompletesOK
  <2> SUFFICES ASSUME exportJob'.state = "completed", NEW i \in Items \ again PROVE items[i] \in {"copied", "skipped"}
    BY DEF CompletesOK
  <2>1. runs[r].bad = FALSE /\ items[i] # "failed"
    BY <1>3 DEF Issues, ExportTypeOK
  <2>2. items[i] # "pending"
    BY <1>0, <2>1 DEF RunAgrees
  <2> QED BY <1>0, <2>1, <2>2 DEF ExportTypeOK
<1>8. ~Published
  BY <1>1, <1>4 DEF Published
<1> QED BY <1>0, <1>3, <1>5, <1>6, <1>7, <1>8 DEF ExportOK, PublishesOK, OverwritesOK

(* Every step of the exports.                                                    *)
LEMMA ExportsStep == ExportInv /\ [ExportsNext]_exportVars => ExportInv' /\ ExportOK
<1> SUFFICES ASSUME ExportInv, [ExportsNext]_exportVars PROVE ExportInv' /\ ExportOK
  OBVIOUS
<1> USE DEF ExportInv
<1>1. CASE StartExport
  <2>1. UNCHANGED <<source, dest, second, runs, again>> /\ exportJob'.state = "queued" /\ exportJob.state = "none"
    BY <1>1 DEF StartExport
  <2>2. ExportTypeOK'
    BY <1>1 DEF StartExport, ExportTypeOK
  <2>3. \A r \in ExportRuns : ~UnderWay(r)
    BY <2>1 DEF RunAgrees
  <2>4. \A r \in ExportRuns : RunAgrees(r)'
    BY <2>1, <2>3 DEF RunAgrees, UnderWay
  <2>5. \A i \in Items : items'[i] # "none"
    BY <1>1 DEF StartExport
  <2> QED BY <2>1, <2>2, <2>4, <2>5 DEF ExportOK, PublishesOK, OverwritesOK, CompletesOK, Published
<1>2. ASSUME NEW r \in ExportRuns, Requeue(r) PROVE ExportInv' /\ ExportOK
  <2>1. UNCHANGED <<source, dest, second, runs>> /\ exportJob'.state = "queued" /\ exportJob.state # "none"
    BY <1>2 DEF Requeue, ExportTypeOK
  <2>2. ExportTypeOK'
    BY <1>2 DEF Requeue, ExportTypeOK
  <2>3. \A o \in ExportRuns : RunAgrees(o)'
    BY <1>2, <2>1 DEF Requeue, RunAgrees, UnderWay
  <2>4. \A i \in Items : items'[i] # "none"
    BY <1>2, <2>1 DEF Requeue
  <2> QED BY <2>1, <2>2, <2>3, <2>4 DEF ExportOK, PublishesOK, OverwritesOK, CompletesOK, Published
<1>3. CASE Meddle
  <2>1. UNCHANGED <<exportJob, items, second, runs, again>>
    BY <1>3 DEF Meddle
  <2>2. ExportTypeOK'
    BY <1>3 DEF Meddle, ExportTypeOK
  <2> QED BY <2>1, <2>2 DEF ExportOK, PublishesOK, OverwritesOK, CompletesOK, Published, RunAgrees, UnderWay
<1>4. CASE ExportCrash
  <2>1. UNCHANGED <<exportJob, items, source, dest, second, again>>
    BY <1>4 DEF ExportCrash
  <2>2. [NotRunning EXCEPT !.pc = "ended"] \in ExportRun /\ [NotRunning EXCEPT !.pc = "ended"].pc = "ended"
    BY DEF NotRunning, ExportRun
  <2>3. runs' \in [ExportRuns -> ExportRun] /\ \A r \in ExportRuns : runs'[r].pc \in {"idle", "ended"}
    BY <1>4, <2>2, NotRunningIsRun DEF ExportCrash
  <2>4. ExportTypeOK'
    BY <2>1, <2>3 DEF ExportTypeOK, ExportRun
  <2> QED BY <2>1, <2>3, <2>4 DEF ExportOK, PublishesOK, OverwritesOK, CompletesOK, Published, RunAgrees, UnderWay
<1>5. CASE UNCHANGED exportVars
  BY <1>5 DEF exportVars, ExportTypeOK, ExportOK, PublishesOK, OverwritesOK, CompletesOK, Published, RunAgrees, UnderWay
<1>6. ASSUME NEW r \in ExportRuns, Pick(r) \/ PickNothing(r) \/ MarkItemCopied(r) PROVE ExportInv' /\ ExportOK
  BY <1>6, PickKeeps, RunStepKeeps DEF ExportOK, PublishesOK, OverwritesOK, CompletesOK
<1> QED BY <1>1, <1>2, <1>3, <1>4, <1>5, <1>6, BeginRunKeeps, PublishKeeps, FinishRunKeeps DEF ExportsNext

-----------------------------------------------------------------------------
(* Removal from the shelf.                                                   *)

RowValues == {NoRow} \cup FilePaths

RemovalShape ==
  /\ assetRows \in [ShelfAssets -> RowValues] /\ files \in [FilePaths -> {"none", "file", "foreign"}]
  /\ removal \in [pc : {"idle", "next", "row"}, todo : SUBSET ShelfAssets, listed : [ShelfAssets -> RowValues],
                  removed : SUBSET ShelfAssets, at : ShelfAssets \cup {NoRow}]
  /\ placing \in [asset : ShelfAssets \cup {NoRow}, path : RowValues] /\ job \in ShelfAssets \cup {NoRow}
  /\ replaced \in Nat
  /\ placing.asset # NoRow => placing.path \in PathsOf(placing.asset) /\ replaced > 0
  /\ removal.pc = "row" => removal.at \in ShelfAssets \ removal.todo

(* OneShelf may delete what the row names, or it names nothing.                  *)
IsOurs2(a) == assetRows[a] = NoRow \/ files[assetRows[a]] # "foreign"

(* A removal and a replacement change the row of no file that is refused: such a *)
(* row is still as the removal listed it.                                        *)
RefusedIsSafe ==
  /\ placing.asset # NoRow => /\ files[placing.path] # "foreign"
                              /\ IsOurs2(placing.asset)
  /\ removal.pc # "idle" => \A a \in removal.todo : assetRows[a] = removal.listed[a] \/ IsOurs2(a)
  /\ removal.pc = "row" => IsOurs2(removal.at)

(* Without replacements a row is deleted after its file, and only then.          *)
RowGoesLast ==
  replaced = 0 =>
    /\ placing = NoPlacing /\ NothingForgotten
    /\ removal.pc # "idle" => \A a \in removal.todo : assetRows[a] = removal.listed[a] /\ assetRows[a] # NoRow
    /\ removal.pc = "row" /\ assetRows[removal.at] \in FilePaths => files[assetRows[removal.at]] # "file"

RemovalInv == RemovalTypeOK /\ RemovalShape /\ RefusedIsSafe /\ RowGoesLast

(* NoRow is neither a path nor an asset, and every path is an asset's.        *)
LEMMA NoRowIsNoPath == /\ NoRow \notin FilePaths /\ NoRow \notin ShelfAssets
                       /\ \A a \in ShelfAssets : PathsOf(a) \subseteq FilePaths
                       /\ \A p \in FilePaths : \E a \in ShelfAssets : p \in PathsOf(a)
BY RemovalAssumption DEF FilePaths, PathsOf

(* No request is a request, too.                                              *)
LEMMA IdleIsARequest ==
  Idle \in [pc : {"idle", "next", "row"}, todo : SUBSET ShelfAssets, listed : [ShelfAssets -> RowValues],
            removed : SUBSET ShelfAssets, at : ShelfAssets \cup {NoRow}]
BY DEF Idle, RowValues

(* Nobody deletes anything at the start.                                         *)
LEMMA RemovalInitially == RemovalInit => RemovalInv
<1> SUFFICES ASSUME RemovalInit PROVE RemovalInv
  OBVIOUS
<1> USE DEF RemovalInit, NoPlacing
<1>1. RemovalTypeOK
  BY NoRowIsNoPath DEF RemovalTypeOK, PathsOf, Idle
<1>2. RemovalShape
  BY NoRowIsNoPath, IdleIsARequest DEF RemovalShape, Idle, PathsOf, RowValues
<1>3. RefusedIsSafe
  BY DEF RefusedIsSafe, Idle
<1>4. NothingForgotten
  BY DEF NothingForgotten, FilePaths
<1>5. RowGoesLast
  BY <1>4 DEF RowGoesLast, Idle
<1> QED BY <1>1, <1>2, <1>3, <1>5 DEF RemovalInv

(* What every step may do with what is refused.                                  *)
RefusedOK ==
  \A p \in FilePaths : files[p] = "foreign" => /\ files'[p] = "foreign"
                                               /\ \A a \in ShelfAssets : assetRows[a] = p => assetRows'[a] = p

(* The request lists the files.                                               *)
LEMMA ListKeeps == ASSUME RemovalInv, ListFiles PROVE RemovalInv' /\ RefusedOK
<1> DEFINE r == [Idle EXCEPT !.pc = "next", !.todo = {a \in ShelfAssets : assetRows[a] # NoRow}, !.listed = assetRows]
<1>1. /\ r \in [pc : {"idle", "next", "row"}, todo : SUBSET ShelfAssets, listed : [ShelfAssets -> RowValues],
                removed : SUBSET ShelfAssets, at : ShelfAssets \cup {NoRow}]
      /\ r.pc = "next" /\ r.todo = {a \in ShelfAssets : assetRows[a] # NoRow} /\ r.listed = assetRows /\ r.removed = {}
  BY IdleIsARequest DEF RemovalInv, RemovalShape, Idle
<1>2. removal' = r /\ UNCHANGED <<assetRows, files, placing, job, replaced>>
  BY DEF ListFiles
<1> HIDE DEF r
<1> QED BY <1>1, <1>2 DEF RemovalInv, RemovalTypeOK, RemovalShape, RefusedIsSafe, RowGoesLast, IsOurs2, NothingForgotten, RefusedOK

(* It deletes a file.                                                         *)
LEMMA DeleteFileKeeps == ASSUME RemovalInv, NEW a \in ShelfAssets, DeleteFile(a) PROVE RemovalInv' /\ RefusedOK
<1> USE DEF RemovalInv
<1>0. removal.pc = "next" /\ a \in removal.todo /\ UNCHANGED <<assetRows, placing, job, replaced>>
  BY DEF DeleteFile
<1>1. CASE ~MayDelete(a)
  <2> DEFINE r == [removal EXCEPT !.todo = @ \ {a}]
  <2>1. /\ r \in [pc : {"idle", "next", "row"}, todo : SUBSET ShelfAssets, listed : [ShelfAssets -> RowValues],
                  removed : SUBSET ShelfAssets, at : ShelfAssets \cup {NoRow}]
        /\ r.pc = "next" /\ r.todo = removal.todo \ {a} /\ r.listed = removal.listed /\ r.removed = removal.removed
    BY <1>0 DEF RemovalShape
  <2>2. removal' = r /\ UNCHANGED files
    BY <1>1 DEF DeleteFile
  <2> HIDE DEF r
  <2> QED BY <1>0, <2>1, <2>2 DEF RemovalTypeOK, RemovalShape, RefusedIsSafe, RowGoesLast, IsOurs2, NothingForgotten, RefusedOK
<1>2. CASE MayDelete(a)
  <2> DEFINE r == [removal EXCEPT !.pc = "row", !.at = a, !.todo = @ \ {a}]
  <2>1. /\ r \in [pc : {"idle", "next", "row"}, todo : SUBSET ShelfAssets, listed : [ShelfAssets -> RowValues],
                  removed : SUBSET ShelfAssets, at : ShelfAssets \cup {NoRow}]
        /\ r.pc = "row" /\ r.todo = removal.todo \ {a} /\ r.listed = removal.listed /\ r.removed = removal.removed /\ r.at = a
    BY <1>0 DEF RemovalShape
  <2>2. removal' = r
    BY <1>2 DEF DeleteFile
  <2> HIDE DEF r
  <2>3. /\ files' \in [FilePaths -> {"none", "file", "foreign"}]
        /\ \A p \in FilePaths : files'[p] = IF p = removal.listed[a] THEN "none" ELSE files[p]
    BY <1>2 DEF DeleteFile, Without, Path, RemovalShape
  <2>4. \A p \in FilePaths : p = removal.listed[a] => files[p] # "foreign"
    BY <1>2 DEF MayDelete, Path
  <2>5. RefusedOK
    BY <1>0, <2>3, <2>4 DEF RefusedOK
  <2>6. RemovalTypeOK' /\ RemovalShape'
    BY <1>0, <2>1, <2>2, <2>3 DEF RemovalTypeOK, RemovalShape
  <2>7. \A b \in ShelfAssets : IsOurs2(b) => IsOurs2(b)'
    BY <1>0, <2>3, NoRowIsNoPath DEF IsOurs2, RemovalShape, RowValues
  <2>8. IsOurs2(a)'
    BY <1>0, <2>3, <2>7, NoRowIsNoPath DEF IsOurs2, RemovalShape, RowValues, RefusedIsSafe
  <2>9. RefusedIsSafe'
    BY <1>0, <2>1, <2>2, <2>3, <2>7, <2>8, NoRowIsNoPath DEF RefusedIsSafe, RemovalShape, RowValues
  <2>10. RowGoesLast'
    BY <1>0, <2>1, <2>2, <2>3 DEF RowGoesLast, NothingForgotten
  <2> QED BY <2>5, <2>6, <2>9, <2>10
<1> QED BY <1>1, <1>2

(* It deletes the row.                                                        *)
LEMMA DeleteRowKeeps == ASSUME RemovalInv, DeleteRow PROVE RemovalInv' /\ RefusedOK
<1> USE DEF RemovalInv
<1> PICK a \in ShelfAssets : a = removal.at /\ a \notin removal.todo /\ removal.pc = "row"
  BY DEF DeleteRow, RemovalShape
<1> DEFINE r == [removal EXCEPT !.pc = "next", !.at = NoRow, !.removed = @ \cup {a}]
<1>1. /\ r \in [pc : {"idle", "next", "row"}, todo : SUBSET ShelfAssets, listed : [ShelfAssets -> RowValues],
                removed : SUBSET ShelfAssets, at : ShelfAssets \cup {NoRow}]
      /\ r.pc = "next" /\ r.todo = removal.todo /\ r.listed = removal.listed /\ r.removed = removal.removed \cup {a}
  BY DEF RemovalShape
<1>2. removal' = r /\ UNCHANGED <<files, placing, replaced>>
  BY DEF DeleteRow
<1> HIDE DEF r
<1>3. /\ assetRows' \in [ShelfAssets -> RowValues] /\ assetRows'[a] = NoRow
      /\ \A b \in ShelfAssets \ {a} : assetRows'[b] = assetRows[b]
  BY DEF DeleteRow, RemovalShape, RowValues
<1>4. job' \in ShelfAssets \cup {NoRow} /\ job' # a /\ job' \in {job, NoRow}
  BY NoRowIsNoPath DEF DeleteRow, Forgotten, RemovalShape
<1>5. RemovalTypeOK' /\ RemovalShape'
  BY <1>1, <1>2, <1>3, <1>4, NoRowIsNoPath DEF RemovalTypeOK, RemovalShape
<1>6. IsOurs2(a)' /\ \A b \in ShelfAssets \ {a} : IsOurs2(b)' <=> IsOurs2(b)
  BY <1>2, <1>3 DEF IsOurs2
<1>7. RefusedIsSafe'
  BY <1>1, <1>2, <1>3, <1>6 DEF RefusedIsSafe, RemovalShape
<1>8. RowGoesLast'
  <2> SUFFICES ASSUME replaced = 0 PROVE RowGoesLast'
    BY <1>2 DEF RowGoesLast
  <2>1. NothingForgotten'
    BY <1>2, <1>3 DEF RowGoesLast, NothingForgotten
  <2> QED BY <1>1, <1>2, <1>3, <2>1 DEF RowGoesLast, RemovalShape
<1>9. RefusedOK
  BY <1>2, <1>3, NoRowIsNoPath DEF RefusedOK, RefusedIsSafe, IsOurs2
<1> QED BY <1>5, <1>7, <1>8, <1>9

(* A row gets the path of the file that was published for it.                    *)
LEMMA RegisterRow ==
  ASSUME RemovalInv, placing.asset # NoRow, UNCHANGED <<files, replaced>>, placing' = NoPlacing,
         assetRows' = [assetRows EXCEPT ![placing.asset] = placing.path], job' = placing.asset,
         removal' = removal \/ removal' = Idle
  PROVE  RemovalInv' /\ RefusedOK
<1> USE DEF RemovalInv
<1> PICK a \in ShelfAssets, path \in FilePaths : a = placing.asset /\ path = placing.path /\ path \in PathsOf(a) /\ replaced > 0
                                                 /\ files[path] # "foreign"
  BY NoRowIsNoPath DEF RemovalShape, RefusedIsSafe
<1>1. /\ assetRows' \in [ShelfAssets -> RowValues] /\ assetRows'[a] = path
      /\ \A b \in ShelfAssets \ {a} : assetRows'[b] = assetRows[b]
  BY DEF RemovalShape, RowValues
<1>2. /\ removal' \in [pc : {"idle", "next", "row"}, todo : SUBSET ShelfAssets, listed : [ShelfAssets -> RowValues],
                       removed : SUBSET ShelfAssets, at : ShelfAssets \cup {NoRow}]
      /\ removal'.pc = "row" => removal'.at \in ShelfAssets \ removal'.todo
      /\ removal'.removed \cap removal'.todo = {}
  BY IdleIsARequest DEF RemovalShape, RemovalTypeOK, Idle
<1>3. placing'.asset = NoRow /\ placing' \in [asset : ShelfAssets \cup {NoRow}, path : RowValues]
  BY DEF NoPlacing, RowValues
<1>4. RemovalTypeOK'
  BY <1>1, <1>2, NoRowIsNoPath DEF RemovalTypeOK
<1>5. RemovalShape'
  BY <1>1, <1>2, <1>3 DEF RemovalShape
<1>6. IsOurs2(a)' /\ \A b \in ShelfAssets \ {a} : IsOurs2(b)' <=> IsOurs2(b)
  BY <1>1 DEF IsOurs2
<1>7. RefusedIsSafe'
  BY <1>1, <1>2, <1>3, <1>6 DEF RefusedIsSafe, RemovalShape, Idle
<1>8. RowGoesLast'
  BY DEF RowGoesLast, RemovalShape
<1>9. RefusedOK
  BY <1>1, NoRowIsNoPath DEF RefusedOK, RefusedIsSafe, IsOurs2
<1> QED BY <1>4, <1>5, <1>7, <1>8, <1>9

(* A commit places a file.                                                    *)
LEMMA PlaceKeeps == ASSUME RemovalInv, NEW a \in ShelfAssets, PlaceFile(a) PROVE RemovalInv' /\ RefusedOK
<1> USE DEF RemovalInv
<1> PICK path \in PathsOf(a) :
       /\ files[assetRows[a]] # "foreign" /\ (path = assetRows[a] \/ files[path] = "none")
       /\ files' = [files EXCEPT ![assetRows[a]] = "none", ![path] = "file"]
       /\ placing' = [asset |-> a, path |-> path]
  BY DEF PlaceFile
<1>1. UNCHANGED <<assetRows, removal, job>> /\ replaced' = replaced + 1 /\ assetRows[a] \in FilePaths /\ path \in FilePaths
  BY NoRowIsNoPath DEF PlaceFile, RemovalShape, RowValues
<1>2. /\ files' \in [FilePaths -> {"none", "file", "foreign"}] /\ files'[path] = "file" /\ files'[assetRows[a]] # "foreign"
      /\ \A p \in FilePaths : (files[p] = "foreign" <=> files'[p] = "foreign")
  BY <1>1 DEF RemovalShape
<1>3. RemovalTypeOK'
  BY <1>1 DEF RemovalTypeOK
<1>4. RemovalShape'
  BY <1>1, <1>2 DEF RemovalShape, RowValues
<1>5. \A b \in ShelfAssets : IsOurs2(b)' <=> IsOurs2(b)
  BY <1>1, <1>2, NoRowIsNoPath DEF IsOurs2, RemovalShape, RowValues
<1>6. RefusedIsSafe'
  BY <1>1, <1>2, <1>5 DEF RefusedIsSafe, RemovalShape, IsOurs2
<1>7. RowGoesLast' /\ RefusedOK
  BY <1>1, <1>2 DEF RowGoesLast, RefusedOK, RemovalShape
<1> QED BY <1>3, <1>4, <1>6, <1>7

(* Every step of a removal and of a replacement.                                 *)
LEMMA RemovalStep == RemovalInv /\ [RemovalNext]_removalVars => RemovalInv' /\ RefusedOK
<1> SUFFICES ASSUME RemovalInv, [RemovalNext]_removalVars PROVE RemovalInv' /\ RefusedOK
  OBVIOUS
<1>1. CASE RemovalEnds \/ (RemovalCrash /\ placing.asset = NoRow)
  <2>1. UNCHANGED <<assetRows, files, job, replaced>> /\ removal' = Idle /\ placing' \in {placing, NoPlacing}
        /\ (placing' # placing => placing.asset = NoRow)
    BY <1>1 DEF RemovalEnds, RemovalCrash
  <2>2. Idle.pc = "idle" /\ Idle.todo = {}
    BY DEF Idle
  <2>3. RemovalTypeOK' /\ RemovalShape' /\ RefusedIsSafe'
    BY <2>1, <2>2, IdleIsARequest DEF RemovalInv, RemovalTypeOK, RemovalShape, RefusedIsSafe, NoPlacing, RowValues, IsOurs2
  <2>4. RowGoesLast'
    BY <2>1, <2>2 DEF RemovalInv, RowGoesLast, NothingForgotten
  <2> QED BY <2>1, <2>3, <2>4 DEF RemovalInv, RefusedOK
<1>2. CASE RegisterFile \/ (RemovalCrash /\ placing.asset # NoRow)
  BY <1>2, RegisterRow DEF RegisterFile, RemovalCrash
<1>3. CASE UNCHANGED removalVars
  BY <1>3 DEF removalVars, RemovalInv, RemovalTypeOK, RemovalShape, RefusedIsSafe, RowGoesLast, IsOurs2, NothingForgotten, RefusedOK
<1> QED BY <1>1, <1>2, <1>3, ListKeeps, DeleteFileKeeps, DeleteRowKeeps, PlaceKeeps DEF RemovalNext

-----------------------------------------------------------------------------
(* The Registry of adapters.                                                 *)

BuildRecords == [at : {"idle", "writing"}, built : SUBSET Forms, left : SUBSET Forms]
CacheRecords == [holds : {"nothing", "index", "failure"}, index : SUBSET RegistryEntries, age : 0..IndexTtl]
AskRecords == [at : {"idle", "asking", "answered", "listed", "fetching"}, index : SUBSET RegistryEntries,
               age : 0..IndexTtl, entry : RegistryEntries \cup {NoListing}]

BuildShape ==
  /\ tool \in {"adapter_repo", "registry_tool"} /\ adapters \subseteq Forms
  /\ work \in Directories /\ build \in BuildRecords /\ build.left \subseteq build.built
ServedShape == published \in Directories /\ listings \subseteq RegistryEntries
ClientShape ==
  /\ cache \in CacheRecords /\ ask \in [Askers -> AskRecords]
  /\ installed = NoListing \/ installed \in RegistryEntries

(* Whatever OneShelf holds of an index was published once.                       *)
EverythingWasListed ==
  /\ published.index \subseteq listings /\ cache.index \subseteq listings
  /\ \A k \in Askers : ask[k].index \subseteq listings /\ (ask[k].at = "fetching" => ask[k].entry \in listings)

(* A directory names each package once, whatever killed builds left in it.       *)
PackagesOnce == \A p, q \in work.packages : SameFile(p, q) => p = q

(* The versions of one index go on from another's.                               *)
Follows(next, last) ==
  \A e \in last, n \in next : n.id = e.id => n.version > e.version \/ (n.version = e.version /\ n.files = e.files)

(* What adapter_repo builds, and the index it wrote, go on from what is served.  *)
BuildFollows ==
  tool = "adapter_repo" =>
    /\ Follows(work.index, published.index)
    /\ build.at = "writing" => \A a \in build.built : BaselineAllows(a)

RegistryInv ==
  /\ BuildShape /\ ServedShape /\ ClientShape
  /\ EverythingWasListed /\ PackagesOnce /\ BuildFollows /\ ServedIsWhole /\ InstalledAsPublished

PublishedFollows == tool = "adapter_repo" => Follows(published'.index, published.index)

-----------------------------------------------------------------------------
(* What OneShelf holds before it has asked.                                      *)
LEMMA NothingIsAsked ==
  /\ NoAsk \in AskRecords /\ NoAsk.at = "idle" /\ NoAsk.index = {}
  /\ NoCache \in CacheRecords /\ NoCache.index = {}
  /\ AsksNow \in AskRecords /\ AsksNow.at = "asking" /\ AsksNow.index = {}
BY RegistryTtls DEF NoAsk, AskRecords, NoCache, CacheRecords, AsksNow

(* Nothing is built or read at the start.                                     *)
LEMMA RegistryInitially == AdaptersInit => RegistryInv
<1> SUFFICES ASSUME AdaptersInit PROVE RegistryInv
  OBVIOUS
<1> USE NothingIsAsked DEF AdaptersInit
<1>1. BuildShape /\ ServedShape
  BY DEF BuildShape, ServedShape, EmptyDirectory, NoBuild, BuildRecords, Directories
<1>2. ClientShape
  BY DEF ClientShape
<1>3. EverythingWasListed /\ PackagesOnce /\ ServedIsWhole /\ InstalledAsPublished
  BY DEF EverythingWasListed, PackagesOnce, ServedIsWhole, InstalledAsPublished, EmptyDirectory, OnePerId
<1>4. BuildFollows
  BY DEF BuildFollows, Follows, EmptyDirectory, NoBuild
<1> QED BY <1>1, <1>2, <1>3, <1>4 DEF RegistryInv

(* The entry of an adapter, and its package.                                     *)
LEMMA EntryIs ==
  ASSUME NEW a \in Forms
  PROVE  Entry(a) \in RegistryEntries /\ Package(Entry(a)) = Package(a) /\ Entry(a).id = a.id
         /\ Entry(a).version = a.version /\ Entry(a).files = a.files
BY DEF Entry, RegistryEntries, Package

-----------------------------------------------------------------------------
(* Steps of a build: nothing that is served or held changes.                     *)

(* Nothing that is served or held changes.                                    *)
LEMMA ServedRests ==
  ASSUME RegistryInv, UNCHANGED <<published, clientVars, listings>>
  PROVE  ServedShape' /\ ClientShape' /\ EverythingWasListed' /\ ServedIsWhole' /\ InstalledAsPublished'
<1>1. UNCHANGED <<published, cache, ask, installed, listings>>
  BY DEF clientVars
<1> QED BY <1>1 DEF RegistryInv, ServedShape, ClientShape, EverythingWasListed, ServedIsWhole, InstalledAsPublished

(* An index with one entry per adapter goes on from itself.                   *)
LEMMA FollowsItself == ASSUME published.index \subseteq RegistryEntries, OnePerId(published.index) PROVE PublishedFollows \/ published' # published
BY DEF PublishedFollows, Follows, OnePerId

(* The repository changes, or the build goes on.                              *)
LEMMA BuildKeeps ==
  ASSUME RegistryInv, Commit \/ StartBuild \/ WritePackage \/ RemoveStale \/ WriteIndex \/ KillBuild
  PROVE  RegistryInv' /\ PublishedFollows
<1> USE DEF RegistryInv
<1>1. UNCHANGED <<published, clientVars, listings>> /\ tool' = tool
  BY DEF Commit, StartBuild, WritePackage, RemoveStale, WriteIndex, KillBuild, repoVars
<1>2. ServedShape' /\ ClientShape' /\ EverythingWasListed' /\ ServedIsWhole' /\ InstalledAsPublished'
  BY <1>1, ServedRests
<1>3. PublishedFollows
  BY <1>1, FollowsItself DEF ServedShape, Directories, ServedIsWhole
<1>4. BuildShape' /\ PackagesOnce' /\ BuildFollows'
  <2>1. CASE Commit
    BY <1>1, <2>1 DEF Commit, BuildShape, PackagesOnce, BuildFollows, BaselineAllows, buildVars
  <2>2. CASE StartBuild
    <3>1. build' = [at |-> "writing", built |-> adapters, left |-> adapters] /\ work' = work /\ adapters' = adapters
          /\ published' = published
      BY <2>2 DEF StartBuild, repoVars
    <3>2. tool = "adapter_repo" => \A a \in adapters : BaselineAllows(a)
      BY <2>2 DEF StartBuild, Check
    <3>3. BuildShape' /\ PackagesOnce'
      BY <1>1, <3>1 DEF BuildShape, BuildRecords, PackagesOnce
    <3>4. BuildFollows'
      BY <1>1, <3>1, <3>2 DEF BuildFollows, BaselineAllows
    <3> QED BY <3>3, <3>4
  <2>3. CASE WritePackage
    <3> PICK a \in build.left : /\ work' = [work EXCEPT !.packages = {p \in @ : ~SameFile(p, a)} \cup {Package(a)}]
                                /\ build' = [build EXCEPT !.left = @ \ {a}]
      BY <2>3 DEF WritePackage
    <3>1. a \in Forms /\ adapters' = adapters /\ published' = published
      BY <2>3 DEF WritePackage, repoVars, BuildShape, BuildRecords
    <3>2. Package(a) \in {Package(e) : e \in RegistryEntries}
      BY <3>1, EntryIs
    <3>3. /\ work'.packages = {p \in work.packages : ~SameFile(p, a)} \cup {Package(a)} /\ work'.index = work.index
          /\ work' \in Directories
      BY <3>2 DEF BuildShape, Directories
    <3>4. build' \in BuildRecords /\ build'.left \subseteq build'.built /\ build'.at = build.at /\ build'.built = build.built
      BY DEF BuildShape, BuildRecords
    <3>5. BuildShape'
      BY <1>1, <3>1, <3>3, <3>4 DEF BuildShape
    <3>6. PackagesOnce'
      BY <3>3 DEF PackagesOnce, SameFile, Package
    <3>7. BuildFollows'
      BY <1>1, <3>1, <3>3, <3>4 DEF BuildFollows, BaselineAllows
    <3> QED BY <3>5, <3>6, <3>7
  <2>4. CASE RemoveStale
    <3> PICK p \in work.packages : work' = [work EXCEPT !.packages = @ \ {p}]
      BY <2>4 DEF RemoveStale
    <3>1. work' \in Directories /\ work'.packages \subseteq work.packages /\ work'.index = work.index
          /\ build' = build /\ adapters' = adapters /\ published' = published
      BY <2>4 DEF RemoveStale, repoVars, BuildShape, Directories
    <3>2. BuildShape' /\ PackagesOnce'
      BY <1>1, <3>1 DEF BuildShape, PackagesOnce
    <3>3. BuildFollows'
      BY <1>1, <3>1 DEF BuildFollows, BaselineAllows
    <3> QED BY <3>2, <3>3
  <2>5. CASE WriteIndex
    <3> DEFINE I == {Entry(a) : a \in build.built}
    <3>1. work' = [work EXCEPT !.index = I] /\ build' = NoBuild /\ adapters' = adapters /\ published' = published
          /\ build.at = "writing"
      BY <2>5 DEF WriteIndex, repoVars
    <3>2. build.built \subseteq Forms
      BY DEF BuildShape, BuildRecords
    <3>3. I \subseteq RegistryEntries
      BY <3>2, EntryIs
    <3>4. work' \in Directories /\ work'.index = I /\ work'.packages = work.packages
      BY <3>1, <3>3 DEF BuildShape, Directories
    <3>5. build' \in BuildRecords /\ build'.left \subseteq build'.built /\ build'.at = "idle"
      BY <3>1 DEF NoBuild, BuildRecords
    <3>6. BuildShape' /\ PackagesOnce'
      BY <1>1, <3>1, <3>4, <3>5 DEF BuildShape, PackagesOnce
    <3>7. ASSUME tool = "adapter_repo" PROVE Follows(I, published.index)
      <4> SUFFICES ASSUME NEW e \in published.index, NEW a \in build.built, Entry(a).id = e.id
                   PROVE  Entry(a).version > e.version \/ (Entry(a).version = e.version /\ Entry(a).files = e.files)
        BY DEF Follows
      <4>1. Entry(a).id = a.id /\ Entry(a).version = a.version /\ Entry(a).files = a.files /\ a.version \in Nat
        BY <3>2, EntryIs, FormsAssumption
      <4>2. e \in RegistryEntries /\ e.version \in Nat
        BY FormsAssumption DEF ServedShape, Directories, RegistryEntries
      <4>3. a.version >= e.version /\ (a.version = e.version => a.files = e.files)
        BY <3>1, <3>7, <4>1 DEF BuildFollows, BaselineAllows
      <4> QED BY <4>1, <4>2, <4>3
    <3> HIDE DEF I
    <3>8. BuildFollows'
      BY <1>1, <3>1, <3>4, <3>5, <3>7 DEF BuildFollows
    <3> QED BY <3>6, <3>8
  <2>6. CASE KillBuild
    <3>1. build' = NoBuild /\ work' = work /\ adapters' = adapters /\ published' = published
      BY <2>6 DEF KillBuild, repoVars
    <3>2. build' \in BuildRecords /\ build'.left \subseteq build'.built /\ build'.at = "idle"
      BY <3>1 DEF NoBuild, BuildRecords
    <3> QED BY <1>1, <3>1, <3>2 DEF BuildShape, PackagesOnce, BuildFollows
  <2> QED BY <2>1, <2>2, <2>3, <2>4, <2>5, <2>6
<1> QED BY <1>2, <1>3, <1>4

(* What was built is verified, then served.                                      *)
LEMMA PublishingKeeps == ASSUME RegistryInv, PublishRegistry PROVE RegistryInv' /\ PublishedFollows
<1> USE DEF RegistryInv
<1>1. /\ published' = work /\ listings' = listings \cup work.index /\ build.at = "idle"
      /\ UNCHANGED <<tool, adapters, work, build, cache, ask, installed>>
  BY DEF PublishRegistry, repoVars, buildVars, clientVars
<1>2. OnePerId(work.index) /\ PackagesAreThere(work) /\ NothingElse(work)
  BY DEF PublishRegistry, Verifies, VerifiesOfficial
<1>3. ServedIsWhole'
  <2>1. \A p \in work.packages : \E e \in work.index : p = Package(e)
    <3> SUFFICES ASSUME NEW p \in work.packages PROVE \E e \in work.index : p = Package(e)
      OBVIOUS
    <3> PICK e \in work.index : SameFile(p, e) /\ Package(e) \in work.packages
      BY <1>2 DEF NothingElse, PackagesAreThere
    <3>1. SameFile(p, Package(e))
      BY DEF SameFile, Package
    <3> QED BY <3>1 DEF PackagesOnce
  <2> QED BY <1>1, <1>2, <2>1 DEF ServedIsWhole, PackagesAreThere
<1>4. BuildShape' /\ ServedShape' /\ ClientShape' /\ PackagesOnce'
  BY <1>1 DEF BuildShape, ServedShape, ClientShape, PackagesOnce, Directories
<1>5. EverythingWasListed' /\ InstalledAsPublished'
  BY <1>1 DEF EverythingWasListed, InstalledAsPublished
<1>6. BuildFollows' /\ PublishedFollows
  BY <1>1, <1>2 DEF BuildFollows, PublishedFollows, Follows, OnePerId
<1> QED BY <1>3, <1>4, <1>5, <1>6

-----------------------------------------------------------------------------
(* Steps of OneShelf: nothing that is built or served changes.                   *)

(* One asker changes.                                                         *)
LEMMA OneAskChanges ==
  ASSUME ClientShape, NEW k \in Askers, NEW n \in AskRecords, ask' = [ask EXCEPT ![k] = n]
  PROVE  ask' \in [Askers -> AskRecords] /\ ask'[k] = n /\ \A j \in Askers \ {k} : ask'[j] = ask[j]
BY DEF ClientShape

(* What a step of OneShelf owes.                                              *)
LEMMA ClientKeeps ==
  ASSUME RegistryInv, UNCHANGED <<repoVars, buildVars, published, listings>>, ClientShape', InstalledAsPublished',
         cache'.index \subseteq listings,
         \A k \in Askers : ask'[k].index \subseteq listings /\ (ask'[k].at = "fetching" => ask'[k].entry \in listings)
  PROVE  RegistryInv' /\ PublishedFollows
<1> USE DEF RegistryInv
<1>1. UNCHANGED <<tool, adapters, work, build, published, listings>>
  BY DEF repoVars, buildVars
<1>2. BuildShape' /\ ServedShape' /\ PackagesOnce' /\ ServedIsWhole'
  BY <1>1 DEF BuildShape, ServedShape, PackagesOnce, ServedIsWhole
<1>3. BuildFollows'
  BY <1>1 DEF BuildFollows, BaselineAllows
<1>4. EverythingWasListed'
  BY <1>1 DEF EverythingWasListed
<1>5. PublishedFollows
  BY <1>1, FollowsItself DEF ServedShape, Directories, ServedIsWhole
<1> QED BY <1>2, <1>3, <1>4, <1>5

(* One asker goes on, with what was listed; the cache may be replaced.           *)
LEMMA AskerKeeps ==
  ASSUME RegistryInv, NEW k \in Askers, NEW n \in AskRecords, ask' = [ask EXCEPT ![k] = n],
         UNCHANGED <<repoVars, buildVars, published, listings>>,
         n.index \subseteq listings, n.at = "fetching" => n.entry \in listings,
         cache' \in CacheRecords, cache'.index \subseteq listings,
         installed' = NoListing \/ installed' \in RegistryEntries, InstalledAsPublished'
  PROVE  RegistryInv' /\ PublishedFollows
<1>1. ask' \in [Askers -> AskRecords] /\ ask'[k] = n /\ \A j \in Askers \ {k} : ask'[j] = ask[j]
  BY OneAskChanges DEF RegistryInv
<1>2. ClientShape'
  BY <1>1 DEF ClientShape
<1>3. \A j \in Askers : ask'[j].index \subseteq listings /\ (ask'[j].at = "fetching" => ask'[j].entry \in listings)
  BY <1>1 DEF RegistryInv, EverythingWasListed
<1> QED BY <1>2, <1>3, ClientKeeps

(* A request goes on.                                                         *)
LEMMA AskersTurn ==
  ASSUME RegistryInv, NEW k \in Askers,
         AskerNext(k) \/ RefreshRegistry(k) \/ RegistryFails(k) \/ PickEntry(k) \/ FetchPackage(k)
  PROVE  RegistryInv' /\ PublishedFollows
<1> USE NothingIsAsked DEF RegistryInv
<1>0. UNCHANGED <<repoVars, buildVars, published, listings>>
  BY DEF AskerNext, ReadsCache, AskRegistry, ServeIndex, ReceiveIndex, ShowListing, RefreshRegistry, RegistryFails, PickEntry, FetchPackage
<1>1. ask[k] \in AskRecords /\ cache \in CacheRecords /\ cache.index \subseteq listings /\ ask[k].index \subseteq listings
      /\ published.index \subseteq listings /\ published \in Directories
      /\ (installed = NoListing \/ installed \in RegistryEntries) /\ 0 \in 0..IndexTtl
  BY RegistryTtls DEF ClientShape, EverythingWasListed, ServedShape
<1>2. ASSUME UNCHANGED installed PROVE InstalledAsPublished'
  BY <1>0, <1>2 DEF InstalledAsPublished
<1>3. CASE ReadsCache(k)
  <2> DEFINE n == [NoAsk EXCEPT !.at = "listed", !.index = cache.index]
  <2>1. n \in AskRecords /\ n.at = "listed" /\ n.index = cache.index
    BY <1>1 DEF AskRecords, CacheRecords
  <2>2. ask' = [ask EXCEPT ![k] = n] /\ cache' = cache /\ installed' = installed
    BY <1>3 DEF ReadsCache
  <2> HIDE DEF n
  <2> QED BY <1>0, <1>1, <1>2, <2>1, <2>2, AskerKeeps
<1>4. CASE AskRegistry(k) \/ RefreshRegistry(k) \/ ShowListing(k)
  <2>1. \E n \in {NoAsk, AsksNow} : ask' = [ask EXCEPT ![k] = n]
    BY <1>4 DEF AskRegistry, RefreshRegistry, ShowListing
  <2>2. cache' \in {cache, NoCache} /\ installed' = installed
    BY <1>4 DEF AskRegistry, RefreshRegistry, ShowListing
  <2> QED BY <1>0, <1>1, <1>2, <2>1, <2>2, AskerKeeps
<1>5. CASE ServeIndex(k)
  <2> DEFINE n == [ask[k] EXCEPT !.at = "answered", !.index = published.index]
  <2>1. n \in AskRecords /\ n.at = "answered" /\ n.index = published.index
    BY <1>1 DEF AskRecords, Directories
  <2>2. ask' = [ask EXCEPT ![k] = n] /\ cache' = cache /\ installed' = installed
    BY <1>5 DEF ServeIndex
  <2> HIDE DEF n
  <2> QED BY <1>0, <1>1, <1>2, <2>1, <2>2, AskerKeeps
<1>6. CASE ReceiveIndex(k)
  <2> DEFINE n == [ask[k] EXCEPT !.at = "listed", !.age = 0]
             c == [holds |-> "index", index |-> ask[k].index, age |-> ask[k].age]
  <2>1. n \in AskRecords /\ n.at = "listed" /\ n.index = ask[k].index
    BY <1>1 DEF AskRecords
  <2>2. c \in CacheRecords /\ c.index = ask[k].index
    BY <1>1 DEF AskRecords, CacheRecords
  <2>3. ask' = [ask EXCEPT ![k] = n] /\ cache' = c /\ installed' = installed
    BY <1>6 DEF ReceiveIndex
  <2> HIDE DEF n, c
  <2> QED BY <1>0, <1>1, <1>2, <2>1, <2>2, <2>3, AskerKeeps
<1>7. CASE RegistryFails(k)
  <2> DEFINE c == [holds |-> "failure", index |-> {}, age |-> ask[k].age]
  <2>1. c \in CacheRecords /\ c.index = {}
    BY <1>1 DEF AskRecords, CacheRecords
  <2>2. ask' = [ask EXCEPT ![k] = NoAsk] /\ cache' = c /\ installed' = installed
    BY <1>7 DEF RegistryFails
  <2> HIDE DEF c
  <2> QED BY <1>0, <1>1, <1>2, <2>1, <2>2, AskerKeeps
<1>8. CASE PickEntry(k)
  <2> PICK e \in ask[k].index : ask' = [ask EXCEPT ![k] = [NoAsk EXCEPT !.at = "fetching", !.entry = e]]
    BY <1>8 DEF PickEntry
  <2> DEFINE n == [NoAsk EXCEPT !.at = "fetching", !.entry = e]
  <2>1. e \in RegistryEntries /\ e \in listings
    BY <1>1 DEF AskRecords
  <2>2. n \in AskRecords /\ n.index = {} /\ n.entry = e
    BY <2>1 DEF AskRecords, NoAsk
  <2>3. ask' = [ask EXCEPT ![k] = n] /\ cache' = cache /\ installed' = installed
    BY <1>8 DEF PickEntry
  <2> HIDE DEF n
  <2> QED BY <1>0, <1>1, <1>2, <2>1, <2>2, <2>3, AskerKeeps
<1>9. CASE FetchPackage(k)
  <2> PICK e : e = ask[k].entry
    OBVIOUS
  <2>1. e \in listings /\ e \in RegistryEntries
    BY <1>9 DEF FetchPackage, At, EverythingWasListed, ServedShape
  <2>2. ask' = [ask EXCEPT ![k] = NoAsk] /\ cache' = cache
    BY <1>9 DEF FetchPackage
  <2>3. \/ installed' = installed
        \/ \E p \in published.packages :
             /\ SameFile(p, e) /\ IsAsListed(p, e)
             /\ installed' = [id |-> p.id, tier |-> Trust(e), version |-> p.version, files |-> p.files]
    BY <1>9 DEF FetchPackage
  <2>4. ASSUME NEW p \in published.packages, SameFile(p, e), IsAsListed(p, e),
               installed' = [id |-> p.id, tier |-> Trust(e), version |-> p.version, files |-> p.files]
        PROVE  installed' \in RegistryEntries /\ InstalledAsPublished'
    <3>1. p.id = e.id /\ p.version = e.version /\ p.files = e.files
      BY <2>4 DEF SameFile, IsAsListed
    <3>2. installed' = [id |-> e.id, tier |-> Trust(e), version |-> e.version, files |-> e.files]
      BY <2>4, <3>1
    <3>3. installed' \in RegistryEntries
      BY <2>1, <3>2 DEF RegistryEntries, Trust
    <3>4. Package(e) = Package(installed)' /\ Trust(e) = installed'.tier
      BY <3>2 DEF Package
    <3> QED BY <1>0, <2>1, <3>3, <3>4 DEF InstalledAsPublished, Package, Trust
  <2>5. (installed' = NoListing \/ installed' \in RegistryEntries) /\ InstalledAsPublished'
    BY <1>1, <1>2, <2>3, <2>4
  <2> QED BY <1>0, <1>1, <2>2, <2>5, AskerKeeps
<1> QED BY <1>3, <1>4, <1>5, <1>6, <1>7, <1>8, <1>9 DEF AskerNext

(* An age stays within its bound.                                             *)
LEMMA AgesAre == ASSUME NEW n \in 0..IndexTtl PROVE OneTickOlder(n) \in 0..IndexTtl
BY RegistryTtls DEF OneTickOlder

(* Time passes.                                                               *)
LEMMA TicksKeep == ASSUME RegistryInv, TimePassesByIndex PROVE RegistryInv' /\ PublishedFollows
<1> USE DEF RegistryInv
<1>0. UNCHANGED <<repoVars, buildVars, published, listings, installed>>
  BY DEF TimePassesByIndex
<1>1. cache' \in CacheRecords /\ cache'.index \subseteq listings
  <2>1. \E n \in 0..IndexTtl : cache' = [cache EXCEPT !.age = n]
    BY AgesAre, RegistryTtls DEF TimePassesByIndex, ClientShape, CacheRecords
  <2> QED BY <2>1 DEF ClientShape, CacheRecords, EverythingWasListed
<1>2. ASSUME NEW k \in Askers
      PROVE  ask'[k] \in AskRecords /\ ask'[k].index = ask[k].index /\ ask'[k].at = ask[k].at /\ ask'[k].entry = ask[k].entry
  <2>1. ask[k] \in AskRecords /\ ask[k].age \in 0..IndexTtl
    BY DEF ClientShape, AskRecords
  <2>2. \/ ask'[k] = ask[k]
        \/ \E n \in 0..IndexTtl : ask'[k] = [ask[k] EXCEPT !.age = n]
    BY <2>1, AgesAre DEF TimePassesByIndex
  <2> QED BY <2>1, <2>2 DEF AskRecords
<1>3. ask' \in [Askers -> AskRecords]
  BY <1>2 DEF TimePassesByIndex
<1>4. ClientShape' /\ InstalledAsPublished'
  BY <1>0, <1>1, <1>3 DEF ClientShape, InstalledAsPublished
<1>5. \A k \in Askers : ask'[k].index \subseteq listings /\ (ask'[k].at = "fetching" => ask'[k].entry \in listings)
  BY <1>2 DEF EverythingWasListed
<1> QED BY ONLY RegistryInv, <1>0, <1>1, <1>4, <1>5, ClientKeeps

(* Nothing happens to the Registry.                                           *)
LEMMA RegistryRests == ASSUME RegistryInv, UNCHANGED adapterVars PROVE RegistryInv' /\ PublishedFollows
<1>1. UNCHANGED <<repoVars, buildVars, published, listings, cache, ask, installed>>
  BY DEF adapterVars, clientVars
<1>2. ClientShape' /\ InstalledAsPublished'
  BY <1>1 DEF RegistryInv, ClientShape, InstalledAsPublished
<1> QED BY <1>1, <1>2, ClientKeeps DEF RegistryInv, EverythingWasListed

(* Every step of the Registry.                                                   *)
LEMMA RegistryStep == RegistryInv /\ [AdaptersNext]_adapterVars => RegistryInv' /\ PublishedFollows
<1> SUFFICES ASSUME RegistryInv, [AdaptersNext]_adapterVars PROVE RegistryInv' /\ PublishedFollows
  OBVIOUS
<1>1. CASE Commit \/ StartBuild \/ WritePackage \/ RemoveStale \/ WriteIndex \/ KillBuild
  BY <1>1, BuildKeeps
<1>2. CASE PublishRegistry
  BY <1>2, PublishingKeeps
<1>3. CASE TimePassesByIndex
  BY <1>3, TicksKeep
<1>4. ASSUME NEW k \in Askers,
             AskerNext(k) \/ RefreshRegistry(k) \/ RegistryFails(k) \/ PickEntry(k) \/ FetchPackage(k)
      PROVE  RegistryInv' /\ PublishedFollows
  BY <1>4, AskersTurn
<1>5. CASE UNCHANGED adapterVars
  BY <1>5, RegistryRests
<1> QED BY <1>1, <1>2, <1>3, <1>4, <1>5 DEF AdaptersNext

(* What the invariant says of a state.                                           *)
LEMMA RegistryIsWhole == RegistryInv => AdapterRegistryTypeOK /\ ServedIsWhole /\ InstalledAsPublished
BY DEF RegistryInv, AdapterRegistryTypeOK, BuildShape, ServedShape, ClientShape, BuildRecords, Directories, CacheRecords, AskRecords

-----------------------------------------------------------------------------
(* The generator of adapters.                                                *)

AdapterRecords == [version : 0..MaxVersion, recipes : SiteRecipes]
WalkRecords == [does : {"nothing", "draft", "repair"}, at : {"idle", "mapping", "probing"}, step : 1..5,
                base : AdapterRecords, found : SiteRecipes, answered : SUBSET Caps, broken : SUBSET Caps]
DraftRecords == [recipes : SiteRecipes, state : {"discovered", "generated"}, file : {"none", "torn", "whole"}]
RepairRecords == [version : 2..MaxVersion, recipes : SiteRecipes, answered : SUBSET Caps]
RefusalRecords == [made : BOOLEAN, steady : BOOLEAN, base : SiteRecipes, site : SiteRecipes]

RepairShape ==
  /\ pages \in SiteRecipes /\ adapter \in AdapterRecords /\ walk \in WalkRecords
  /\ drafts \subseteq DraftRecords /\ repairs \subseteq RepairRecords /\ refusal \in RefusalRecords
  /\ siteChanges \in 0..MaxSiteChanges /\ restarts \in 0..MaxRestarts /\ touched \in BOOLEAN

(* An adapter and the repairs that wait: no repair is two versions ahead, and    *)
(* one that can be activated has what the adapter has.                           *)
RepairsGoOn ==
  /\ adapter.version = 0 => adapter.recipes = Nowhere
  /\ \A r \in repairs : /\ adapter.version >= r.version - 1
                        /\ adapter.version = r.version - 1 => Has(adapter.recipes) \subseteq Has(r.recipes)

(* What a repair is made for is installed still, or has been replaced by a newer *)
(* version.                                                                      *)
BaseIsKnown ==
  walk.does = "repair" =>
    /\ walk.base.version \in 1..(MaxVersion - 1) /\ walk.base.version <= adapter.version
    /\ walk.base.version = adapter.version => walk.base = adapter

IsMapped(n) == walk.at = "probing" \/ (walk.at = "mapping" /\ n < walk.step)

(* What was found: nothing before it is looked for, no reader without a catalog, *)
(* and, on a site that kept still, all that can be recognised.                   *)
FoundIsTrue ==
  /\ walk.found["reader"] # Gone => walk.found["catalog"] # Gone
  /\ walk.at = "mapping" => \A n \in 1..4 : n >= walk.step => walk.found[Capabilities[n]] = Gone
  /\ touched = FALSE => \A n \in 1..4 : IsMapped(n) =>
       /\ walk.found[Capabilities[n]] \in {pages[Capabilities[n]], Gone}
       /\ walk.found[Capabilities[n]] = Gone => ~Recognisable(Capabilities[n], pages)

(* What was probed: all that was found and asked for has answered, or is broken. *)
ProbedIsTrue ==
  /\ walk.at = "mapping" => walk.answered = {} /\ walk.broken = {}
  /\ walk.at = "probing" =>
       /\ walk.does = "repair" /\ Has(walk.base.recipes) \subseteq Has(walk.found)
       /\ touched = FALSE => walk.broken = {}
       /\ walk.broken = {} /\ walk.found["search"] # Gone =>
            \A n \in 1..4 : Capabilities[n] \in walk.answered <=> n < walk.step /\ walk.found[Capabilities[n]] # Gone

RepairInv ==
  /\ RepairShape /\ RepairsGoOn /\ BaseIsKnown /\ FoundIsTrue /\ ProbedIsTrue
  /\ OfferedAnswered /\ SteadySiteIsRepaired

-----------------------------------------------------------------------------
(* The capabilities, in their order.                                             *)
LEMMA CapabilitiesAre ==
  /\ Capabilities[1] = "search" /\ Capabilities[2] = "work" /\ Capabilities[3] = "catalog" /\ Capabilities[4] = "reader"
  /\ Caps = {"search", "work", "catalog", "reader"} /\ \A n \in 1..4 : Capabilities[n] \in Caps
  /\ \A n, m \in 1..4 : Capabilities[n] = Capabilities[m] => n = m
<1>1. /\ Capabilities[1] = "search" /\ Capabilities[2] = "work" /\ Capabilities[3] = "catalog" /\ Capabilities[4] = "reader"
  BY DEF Capabilities
<1>2. \A n \in 1..4 : n = 1 \/ n = 2 \/ n = 3 \/ n = 4
  OBVIOUS
<1>3. Caps = {"search", "work", "catalog", "reader"}
  BY <1>1, <1>2 DEF Caps
<1>4. \A n, m \in 1..4 : Capabilities[n] = Capabilities[m] => n = m
  BY <1>1, <1>2
<1> QED BY <1>1, <1>2, <1>3, <1>4

(* Nothing found is a recipe for nothing.                                     *)
LEMMA NothingIsFound ==
  /\ Nowhere \in SiteRecipes /\ Has(Nowhere) = {} /\ \A c \in Caps : Nowhere[c] = Gone
  /\ NoSource \in AdapterRecords /\ NoSource.version = 0 /\ NoSource.recipes = Nowhere
<1>1. Nowhere \in SiteRecipes /\ \A c \in Caps : Nowhere[c] = Gone
  BY DEF Nowhere, SiteRecipes
<1> QED BY <1>1, RepairAssumption DEF Has, NoSource, AdapterRecords

(* No job is a walk, too.                                                     *)
LEMMA NoJobIs ==
  /\ NoJob \in WalkRecords /\ NoJob.does = "nothing" /\ NoJob.at = "idle" /\ NoJob.found = Nowhere
BY NothingIsFound DEF NoJob, WalkRecords

(* At the start there is at most one adapter, and no walk.                    *)
LEMMA RepairInitially == RepairInit => RepairInv
<1> SUFFICES ASSUME RepairInit PROVE RepairInv
  OBVIOUS
<1> USE DEF RepairInit
<1>1. pages \in SiteRecipes
  BY RepairAssumption DEF SiteRecipes
<1>2. adapter \in AdapterRecords /\ (adapter.version = 0 => adapter.recipes = Nowhere)
  <2>1. ASSUME NEW l \in Layouts, NEW s \in BOOLEAN,
               adapter = [version |-> 1, recipes |-> [c \in Caps |-> IF c = "search" /\ ~s THEN Gone ELSE l]]
        PROVE  adapter \in AdapterRecords /\ adapter.version = 1
    <3>1. [c \in Caps |-> IF c = "search" /\ ~s THEN Gone ELSE l] \in SiteRecipes
      BY DEF SiteRecipes
    <3> QED BY <2>1, <3>1, RepairAssumption DEF AdapterRecords
  <2> QED BY <2>1, NothingIsFound
<1>3. refusal \in RefusalRecords /\ refusal.made = FALSE
  BY NothingIsFound DEF NoRefusal, RefusalRecords
<1>0. 0 \in 0..MaxSiteChanges /\ 0 \in 0..MaxRestarts
  BY RepairAssumption
<1>4. RepairShape
  BY <1>0, <1>1, <1>2, <1>3, NoJobIs DEF RepairShape
<1>5. RepairsGoOn /\ BaseIsKnown /\ ProbedIsTrue /\ OfferedAnswered /\ SteadySiteIsRepaired
  BY <1>2, <1>3, NoJobIs DEF RepairsGoOn, BaseIsKnown, ProbedIsTrue, OfferedAnswered, SteadySiteIsRepaired
<1>6. FoundIsTrue
  BY NoJobIs, NothingIsFound, CapabilitiesAre DEF FoundIsTrue, IsMapped
<1> QED BY <1>4, <1>5, <1>6 DEF RepairInv

-----------------------------------------------------------------------------
(* What a walk that stops, or goes on as it was, keeps.                          *)

(* The walk rests, or stops.                                                  *)
LEMMA WalkRests ==
  ASSUME RepairInv, walk' \in {walk, NoJob}, adapter' = adapter, (touched' = TRUE) \/ (pages' = pages /\ touched' = touched)
  PROVE  BaseIsKnown' /\ FoundIsTrue' /\ ProbedIsTrue'
<1> USE DEF RepairInv
<1>1. CASE walk' = walk
  BY <1>1 DEF BaseIsKnown, FoundIsTrue, ProbedIsTrue, IsMapped, Recognisable
<1>2. CASE walk' = NoJob
  <2>1. walk'.at = "idle" /\ walk'.does = "nothing" /\ walk'.found["reader"] = Gone
    BY <1>2, NoJobIs, NothingIsFound, CapabilitiesAre
  <2> QED BY <2>1 DEF BaseIsKnown, FoundIsTrue, ProbedIsTrue, IsMapped
<1> QED BY <1>1, <1>2

(* The site, a restart, drafts.                                                  *)
LEMMA OthersKeep ==
  ASSUME RepairInv, SiteChanges \/ RestartGenerator \/ SaveDraft \/ (\E d \in drafts : TestDraft(d) \/ GenerateDraft(d) \/ CrashWritingDraft(d))
  PROVE  RepairInv' /\ adapter' = adapter
<1> USE DEF RepairInv
<1>1. /\ walk' \in {walk, NoJob} /\ UNCHANGED <<adapter, repairs, refusal>>
      /\ (touched' = TRUE) \/ (pages' = pages /\ touched' = touched)
  BY DEF SiteChanges, RestartGenerator, SaveDraft, TestDraft, GenerateDraft, WriteDraft, CrashWritingDraft
<1>2. BaseIsKnown' /\ FoundIsTrue' /\ ProbedIsTrue'
  BY <1>1, WalkRests
<1>3. RepairsGoOn' /\ OfferedAnswered' /\ SteadySiteIsRepaired'
  BY <1>1 DEF RepairsGoOn, OfferedAnswered, SteadySiteIsRepaired
<1>4. pages' \in SiteRecipes /\ touched' \in BOOLEAN
  BY DEF SiteChanges, RestartGenerator, SaveDraft, TestDraft, GenerateDraft, WriteDraft, CrashWritingDraft, RepairShape, SiteRecipes
<1>5. siteChanges' \in 0..MaxSiteChanges /\ restarts' \in 0..MaxRestarts
  <2>0. siteChanges \in 0..MaxSiteChanges /\ restarts \in 0..MaxRestarts
    BY DEF RepairShape
  <2>1. \/ siteChanges' = siteChanges
        \/ siteChanges < MaxSiteChanges /\ siteChanges' = siteChanges + 1
    BY DEF SiteChanges, RestartGenerator, SaveDraft, TestDraft, GenerateDraft, WriteDraft, CrashWritingDraft, generatorBoundVars
  <2>2. \/ restarts' = restarts
        \/ restarts < MaxRestarts /\ restarts' = restarts + 1
    BY DEF SiteChanges, RestartGenerator, SaveDraft, TestDraft, GenerateDraft, WriteDraft, CrashWritingDraft, generatorBoundVars
  <2>3. siteChanges' \in 0..MaxSiteChanges
    BY <2>0, <2>1, RepairAssumption
  <2>4. restarts' \in 0..MaxRestarts
    BY <2>0, <2>2, RepairAssumption
  <2> QED BY <2>3, <2>4
<1>6. drafts' \subseteq DraftRecords
  <2>1. CASE SiteChanges \/ RestartGenerator
    BY <2>1 DEF SiteChanges, RestartGenerator, RepairShape
  <2>2. CASE SaveDraft
    <3>1. [recipes |-> walk.found, state |-> "discovered", file |-> "none"] \in DraftRecords
      BY DEF RepairShape, WalkRecords, DraftRecords
    <3> QED BY <2>2, <3>1 DEF SaveDraft, RepairShape
  <2>3. ASSUME NEW d \in drafts, TestDraft(d) \/ GenerateDraft(d) \/ CrashWritingDraft(d) PROVE drafts' \subseteq DraftRecords
    <3>1. d \in DraftRecords
      BY DEF RepairShape
    <3>2. PICK state \in {"discovered", "generated"}, copy \in {"torn", "whole"} :
            drafts' = (drafts \ {d}) \cup {[d EXCEPT !.file = copy, !.state = state]}
      <4>1. CASE TestDraft(d) \/ GenerateDraft(d)
        BY <3>1, <4>1 DEF TestDraft, GenerateDraft, WriteDraft, Rewritten, DraftRecords
      <4>2. CASE CrashWritingDraft(d)
        <5>1. [d EXCEPT !.file = "torn"] = [d EXCEPT !.file = "torn", !.state = d.state] /\ d.state \in {"discovered", "generated"}
          BY <3>1 DEF DraftRecords
        <5> QED BY <4>2, <5>1 DEF CrashWritingDraft, Rewritten
      <4> QED BY <2>3, <4>1, <4>2
    <3>3. [d EXCEPT !.file = copy, !.state = state] \in DraftRecords
      BY <3>1 DEF DraftRecords
    <3> QED BY <3>2, <3>3 DEF RepairShape
  <2> QED BY <2>1, <2>2, <2>3
<1>7. RepairShape'
  BY <1>1, <1>4, <1>5, <1>6, NoJobIs DEF RepairShape
<1> QED BY <1>1, <1>2, <1>3, <1>7

(* Another version is installed.                                                 *)
LEMMA InstallKeeps ==
  ASSUME RepairInv, OtherUpdate \/ (\E d \in drafts : InstallDraft(d)) \/ (\E r \in repairs : ActivateRepair(r))
  PROVE  RepairInv'
<1> USE DEF RepairInv
<1>1. UNCHANGED <<pages, walk, drafts, repairs, siteChanges, restarts, touched, refusal>>
  BY DEF OtherUpdate, InstallDraft, ActivateRepair, generatorBoundVars
<1>2. adapter.version \in Nat /\ MaxVersion \in Nat /\ adapter \in AdapterRecords
  BY RepairAssumption DEF RepairShape, AdapterRecords
<1>3. PICK v \in 1..MaxVersion, s \in SiteRecipes : adapter' = [version |-> v, recipes |-> s] /\ v > adapter.version
  <2>1. CASE OtherUpdate
    BY <1>2, <2>1 DEF OtherUpdate, RepairShape
  <2>2. CASE \E d \in drafts : InstallDraft(d)
    BY <1>2, <2>2, RepairAssumption DEF InstallDraft, Installable, RepairShape, DraftRecords
  <2>3. CASE \E r \in repairs : ActivateRepair(r)
    BY <1>2, <2>3 DEF ActivateRepair, Installable, RepairShape, RepairRecords
  <2> QED BY <2>1, <2>2, <2>3
<1>4. adapter' \in AdapterRecords /\ adapter'.version = v
  BY <1>3 DEF AdapterRecords
<1>5. RepairShape' /\ OfferedAnswered' /\ SteadySiteIsRepaired'
  BY <1>1, <1>4 DEF RepairShape, OfferedAnswered, SteadySiteIsRepaired
<1>6. \A r \in repairs : r.version \in Nat /\ adapter.version >= r.version - 1
  BY <1>2 DEF RepairsGoOn, RepairShape, RepairRecords
<1>7. RepairsGoOn'
  <2>1. ASSUME NEW r \in repairs PROVE v >= r.version - 1 /\ v # r.version - 1
    BY <1>2, <1>3, <1>6
  <2> QED BY <1>1, <1>3, <1>4, <2>1 DEF RepairsGoOn
<1>8. BaseIsKnown'
  <2>1. walk.base.version \in Nat
    BY <1>2 DEF RepairShape, WalkRecords, AdapterRecords
  <2> QED BY <1>1, <1>2, <1>3, <1>4, <2>1 DEF BaseIsKnown
<1>9. FoundIsTrue' /\ ProbedIsTrue'
  BY <1>1 DEF FoundIsTrue, ProbedIsTrue, IsMapped
<1> QED BY <1>5, <1>7, <1>8, <1>9

(* The generator installs nothing that lacks what was there.                     *)
LEMMA InstalledHas ==
  ASSUME RepairInv, (\E d \in drafts : InstallDraft(d)) \/ (\E r \in repairs : ActivateRepair(r))
  PROVE  Has(adapter.recipes) \subseteq Has(adapter'.recipes)
<1> USE DEF RepairInv
<1>1. adapter.version \in Nat
  BY RepairAssumption DEF RepairShape, AdapterRecords
<1>2. \A r \in repairs : r.version \in Nat /\ adapter.version >= r.version - 1
  BY DEF RepairsGoOn, RepairShape, RepairRecords
<1>3. CASE \E d \in drafts : InstallDraft(d)
  <2>1. adapter.version = 0
    BY <1>1, <1>3 DEF InstallDraft, Installable
  <2> QED BY <2>1, NothingIsFound DEF RepairsGoOn
<1>4. ASSUME NEW r \in repairs, ActivateRepair(r) PROVE Has(adapter.recipes) \subseteq Has(adapter'.recipes)
  <2>1. adapter.version = r.version - 1 /\ adapter'.recipes = r.recipes
    BY <1>1, <1>2, <1>4 DEF ActivateRepair, Installable
  <2> QED BY <2>1 DEF RepairsGoOn
<1> QED BY <1>3, <1>4

-----------------------------------------------------------------------------
(* The walk: begun, page by page, then probe by probe.                           *)

(* Only the walk changes.                                                        *)
LEMMA OnlyWalks ==
  ASSUME RepairInv, UNCHANGED <<pages, adapter, drafts, repairs, generatorBoundVars, refusal>>, touched' \in BOOLEAN,
         walk' \in WalkRecords, BaseIsKnown', FoundIsTrue', ProbedIsTrue'
  PROVE  RepairInv'
<1>1. UNCHANGED <<siteChanges, restarts>>
  BY DEF generatorBoundVars
<1> QED BY <1>1 DEF RepairInv, RepairShape, RepairsGoOn, OfferedAnswered, SteadySiteIsRepaired

(* A walk begins.                                                             *)
LEMMA StartKeeps == ASSUME RepairInv, NEW does \in {"draft", "repair"}, StartJob(does) PROVE RepairInv' /\ adapter' = adapter
<1> USE DEF RepairInv
<1> DEFINE b == IF does = "repair" THEN adapter ELSE NoSource
           n == [NoJob EXCEPT !.does = does, !.at = "mapping", !.base = b]
<1>1. b \in AdapterRecords /\ (does = "repair" => b = adapter /\ adapter.version \in 1..(MaxVersion - 1))
  BY NothingIsFound DEF RepairShape, StartJob
<1>2. walk' = n /\ touched' = FALSE /\ UNCHANGED <<pages, adapter, drafts, repairs, generatorBoundVars, refusal>>
  BY DEF StartJob
<1> HIDE DEF b
<1>3. /\ n \in WalkRecords /\ n.does = does /\ n.at = "mapping" /\ n.base = b /\ n.step = 1
      /\ n.found = Nowhere /\ n.answered = {} /\ n.broken = {}
  BY <1>1, NoJobIs DEF WalkRecords, NoJob
<1> HIDE DEF n
<1>4. BaseIsKnown'
  BY <1>1, <1>2, <1>3 DEF BaseIsKnown, RepairShape, AdapterRecords
<1>5. FoundIsTrue' /\ ProbedIsTrue'
  <2>1. \A m \in 1..4 : ~(m < 1)
    OBVIOUS
  <2>2. Nowhere["reader"] = Gone /\ \A m \in 1..4 : Nowhere[Capabilities[m]] = Gone
    BY NothingIsFound, CapabilitiesAre
  <2> QED BY <1>2, <1>3, <2>1, <2>2 DEF FoundIsTrue, ProbedIsTrue, IsMapped
<1> QED BY <1>2, <1>3, <1>4, <1>5, OnlyWalks

(* A page is mapped.                                                          *)
LEMMA MapKeeps == ASSUME RepairInv, MapPage PROVE RepairInv' /\ adapter' = adapter
<1> USE DEF RepairInv
<1>0. walk \in WalkRecords /\ pages \in SiteRecipes /\ walk.found \in SiteRecipes
  BY DEF RepairShape, WalkRecords
<1> PICK k \in 1..4 : k = walk.step
  BY <1>0 DEF MapPage, WalkRecords
<1> PICK c \in Caps : c = Capabilities[k]
  BY CapabilitiesAre
<1> PICK seen \in Mapped(c, walk.found) : walk' = [walk EXCEPT !.step = @ + 1, !.found[c] = seen]
  BY DEF MapPage
<1>1. walk.at = "mapping" /\ UNCHANGED <<pages, adapter, drafts, repairs, generatorBoundVars, refusal, touched>>
  BY DEF MapPage
<1>2. seen \in {pages[c], Gone}
  BY DEF Mapped
<1> DEFINE f == [walk.found EXCEPT ![c] = seen]
           n == [walk EXCEPT !.step = k + 1, !.found = f]
<1>3. f \in SiteRecipes /\ f[c] = seen /\ \A o \in Caps \ {c} : f[o] = walk.found[o]
  BY <1>0, <1>2 DEF SiteRecipes
<1>4. walk' = n
  BY <1>0 DEF WalkRecords
<1> HIDE DEF f
<1>5. n \in WalkRecords /\ n.does = walk.does /\ n.at = "mapping" /\ n.base = walk.base /\ n.step = k + 1 /\ n.found = f
      /\ n.answered = walk.answered /\ n.broken = walk.broken
  <2>1. k + 1 \in 1..5
    OBVIOUS
  <2> QED BY <1>0, <1>1, <1>3, <2>1 DEF WalkRecords
<1> HIDE DEF n
<1>6. BaseIsKnown' /\ ProbedIsTrue'
  BY <1>1, <1>4, <1>5 DEF BaseIsKnown, ProbedIsTrue
<1>7. \A m \in 1..4 : m # k => Capabilities[m] \in Caps /\ Capabilities[m] # c /\ f[Capabilities[m]] = walk.found[Capabilities[m]]
  BY <1>3, CapabilitiesAre
<1>8. f["reader"] # Gone => f["catalog"] # Gone
  <2>1. CASE k = 4
    BY <1>3, <2>1, CapabilitiesAre DEF Mapped
  <2>2. CASE k # 4
    <3>1. f["reader"] = walk.found["reader"] /\ walk.found["reader"] = Gone
      BY <1>1, <1>7, <2>2, CapabilitiesAre DEF FoundIsTrue
    <3> QED BY <3>1
  <2> QED BY <2>1, <2>2
<1>9. \A m \in 1..4 : m >= k + 1 => f[Capabilities[m]] = Gone
  <2> TAKE m \in 1..4
  <2>1. m >= k + 1 => m # k /\ m >= walk.step
    OBVIOUS
  <2> QED BY <1>1, <1>7, <2>1 DEF FoundIsTrue
<1>10. ASSUME touched = FALSE, NEW m \in 1..4, m < k + 1
       PROVE  /\ f[Capabilities[m]] \in {pages[Capabilities[m]], Gone}
              /\ f[Capabilities[m]] = Gone => ~Recognisable(Capabilities[m], pages)
  <2>1. \A o \in 1..4 : o < k => /\ walk.found[Capabilities[o]] \in {pages[Capabilities[o]], Gone}
                                 /\ walk.found[Capabilities[o]] = Gone => ~Recognisable(Capabilities[o], pages)
    BY <1>1, <1>10 DEF FoundIsTrue, IsMapped
  <2>2. CASE m < k
    BY <1>7, <2>1, <2>2
  <2>3. CASE m = k
    <3>1. seen = Gone => ~Recognisable(c, pages)
      <4>1. CASE c = "catalog" /\ walk.found["work"] = Gone
        <5>1. Capabilities[k] = Capabilities[3] /\ 3 \in 1..4
          BY <4>1, CapabilitiesAre
        <5>3. k = 3
          BY <5>1, CapabilitiesAre
        <5>2. ~Recognisable("work", pages)
          BY <2>1, <4>1, <5>3, CapabilitiesAre
        <5> QED BY <4>1, <5>2 DEF Recognisable
      <4>2. CASE c = "reader" /\ walk.found["catalog"] = Gone
        <5>1. Capabilities[k] = Capabilities[4] /\ 4 \in 1..4
          BY <4>2, CapabilitiesAre
        <5>3. k = 4
          BY <5>1, CapabilitiesAre
        <5>2. ~Recognisable("catalog", pages)
          BY <2>1, <4>2, <5>3, CapabilitiesAre
        <5> QED BY <4>2, <5>2 DEF Recognisable
      <4>3. CASE ~(c = "catalog" /\ walk.found["work"] = Gone) /\ ~(c = "reader" /\ walk.found["catalog"] = Gone)
        BY <4>3 DEF Mapped, Recognisable
      <4> QED BY <4>1, <4>2, <4>3
    <3> QED BY <1>2, <1>3, <2>3, <3>1
  <2> QED BY <1>10, <2>2, <2>3
<1>11. FoundIsTrue'
  BY <1>1, <1>4, <1>5, <1>8, <1>9, <1>10 DEF FoundIsTrue, IsMapped
<1> QED BY <1>1, <1>4, <1>5, <1>6, <1>11, OnlyWalks DEF RepairShape

(* A draft that lost nothing is tried.                                           *)
LEMMA WriteKeeps == ASSUME RepairInv, WriteRepair PROVE RepairInv' /\ adapter' = adapter
<1> USE DEF RepairInv
<1> DEFINE n == [walk EXCEPT !.at = "probing", !.step = 1]
<1>1. walk' = n /\ walk.does = "repair" /\ walk.at = "mapping" /\ walk.step = 5 /\ NothingMissing
      /\ UNCHANGED <<pages, adapter, drafts, repairs, generatorBoundVars, refusal, touched>>
  BY DEF WriteRepair
<1>2. /\ n \in WalkRecords /\ n.does = walk.does /\ n.at = "probing" /\ n.base = walk.base /\ n.step = 1 /\ n.found = walk.found
      /\ n.answered = {} /\ n.broken = {}
  <2>1. walk \in WalkRecords /\ 1 \in 1..5 /\ walk.answered = {} /\ walk.broken = {}
    BY <1>1 DEF RepairShape, ProbedIsTrue
  <2> QED BY <2>1 DEF WalkRecords
<1> HIDE DEF n
<1>3. BaseIsKnown'
  BY <1>1, <1>2 DEF BaseIsKnown
<1>4. FoundIsTrue'
  BY <1>1, <1>2 DEF FoundIsTrue, IsMapped
<1>5. ProbedIsTrue'
  <2>1. \A m \in 1..4 : ~(m < 1)
    OBVIOUS
  <2> QED BY <1>1, <1>2, <2>1 DEF ProbedIsTrue, NothingMissing
<1> QED BY <1>1, <1>2, <1>3, <1>4, <1>5, OnlyWalks DEF RepairShape

(* A capability of the draft is tried.                                           *)
LEMMA ProbeKeeps == ASSUME RepairInv, Probe PROVE RepairInv' /\ adapter' = adapter
<1> USE DEF RepairInv
<1>0. walk \in WalkRecords
  BY DEF RepairShape
<1> PICK k \in 1..4 : k = walk.step
  BY <1>0 DEF Probe, WalkRecords
<1> PICK c \in Caps : c = Capabilities[k]
  BY CapabilitiesAre
<1> PICK works \in BOOLEAN : works = (walk.found[c] = pages[c])
  OBVIOUS
<1> PICK asks \in BOOLEAN : asks = Asks(c)
  BY DEF Asks
<1> DEFINE as == IF asks /\ works THEN walk.answered \cup {c} ELSE walk.answered
           bs == IF asks /\ ~works THEN walk.broken \cup {c} ELSE walk.broken
           n == [walk EXCEPT !.step = k + 1, !.answered = as, !.broken = bs]
<1>1. walk' = n /\ walk.at = "probing"
      /\ UNCHANGED <<pages, adapter, drafts, repairs, generatorBoundVars, refusal, touched>>
  BY <1>0 DEF Probe, Probed, WalkRecords
<1>2. as \subseteq Caps /\ bs \subseteq Caps /\ k + 1 \in 1..5
  BY <1>0 DEF WalkRecords
<1> HIDE DEF as, bs
<1>3. /\ n \in WalkRecords /\ n.does = walk.does /\ n.at = "probing" /\ n.base = walk.base /\ n.step = k + 1 /\ n.found = walk.found
      /\ n.answered = as /\ n.broken = bs
  BY <1>0, <1>1, <1>2 DEF WalkRecords
<1> HIDE DEF n
<1>4. BaseIsKnown'
  BY <1>1, <1>3 DEF BaseIsKnown
<1>5. FoundIsTrue'
  BY <1>1, <1>3 DEF FoundIsTrue, IsMapped
<1>6. touched = FALSE => bs = {}
  <2>1. touched = FALSE => walk.broken = {} /\ (walk.found[c] # Gone => walk.found[c] = pages[c])
    BY <1>1 DEF ProbedIsTrue, FoundIsTrue, IsMapped
  <2>2. asks => walk.found[c] # Gone
    BY DEF Asks
  <2> QED BY <2>1, <2>2 DEF bs
<1>7. ASSUME bs = {}, walk.found["search"] # Gone, NEW m \in 1..4
      PROVE  Capabilities[m] \in as <=> m < k + 1 /\ walk.found[Capabilities[m]] # Gone
  <2>1. walk.broken = {} /\ (asks => works)
    BY <1>7 DEF bs
  <2>2. \A o \in 1..4 : Capabilities[o] \in walk.answered <=> o < k /\ walk.found[Capabilities[o]] # Gone
    BY <1>1, <1>7, <2>1 DEF ProbedIsTrue
  <2>3. CASE m # k
    <3>1. Capabilities[m] # c
      BY <2>3, CapabilitiesAre
    <3>2. Capabilities[m] \in as <=> Capabilities[m] \in walk.answered
      BY <3>1 DEF as
    <3>3. m < k + 1 <=> m < k
      BY <2>3
    <3> QED BY <2>2, <3>2, <3>3
  <2>4. CASE m = k
    <3>1. asks <=> walk.found[c] # Gone
      <4>1. Has(walk.found) # {}
        BY <1>7, CapabilitiesAre DEF Has
      <4>2. k # 1 => "search" \in walk.answered
        BY <1>7, <2>2, CapabilitiesAre
      <4>3. c = "reader" /\ walk.found[c] # Gone => "catalog" \in walk.answered
        <5>1. ASSUME c = "reader", walk.found[c] # Gone PROVE "catalog" \in walk.answered
          <6>1. Capabilities[k] = Capabilities[4] /\ 4 \in 1..4
            BY <5>1, CapabilitiesAre
          <6>2. k = 4
            BY <6>1, CapabilitiesAre
          <6>3. walk.found["catalog"] # Gone
            BY <5>1 DEF FoundIsTrue
          <6> QED BY <2>2, <6>2, <6>3, CapabilitiesAre
        <5> QED BY <5>1
      <4>4. c \in {"work", "catalog"} => k # 1
        BY CapabilitiesAre
      <4> QED BY <4>1, <4>2, <4>3, <4>4 DEF Asks
    <3>2. Capabilities[k] \in walk.answered <=> FALSE
      BY <2>2
    <3> QED BY <2>1, <2>4, <3>1, <3>2 DEF as
  <2> QED BY <2>3, <2>4
<1>8. ProbedIsTrue'
  BY <1>1, <1>3, <1>6, <1>7 DEF ProbedIsTrue
<1> QED BY <1>1, <1>3, <1>4, <1>5, <1>8, OnlyWalks DEF RepairShape

(* A repair is refused: what it would have lost cannot be recognised, or the site *)
(* changed meanwhile.                                                            *)
LEMMA RefusalKeeps == ASSUME RepairInv, RefuseDraft \/ RefuseRepair PROVE RepairInv' /\ adapter' = adapter
<1> USE DEF RepairInv
<1> DEFINE r == [made |-> TRUE, steady |-> ~touched, base |-> walk.base.recipes, site |-> pages]
<1>1. walk' = NoJob /\ refusal' = r /\ UNCHANGED <<pages, adapter, drafts, repairs, siteChanges, restarts, touched>>
  BY DEF RefuseDraft, RefuseRepair, RefuseJob, generatorBoundVars
<1>2. r \in RefusalRecords
  BY DEF RepairShape, WalkRecords, AdapterRecords, RefusalRecords
<1>3. BaseIsKnown' /\ FoundIsTrue' /\ ProbedIsTrue'
  BY <1>1, WalkRests
<1>4. RepairShape' /\ RepairsGoOn' /\ OfferedAnswered'
  BY <1>1, <1>2, NoJobIs DEF RepairShape, RepairsGoOn, OfferedAnswered
<1>5. ASSUME touched = FALSE PROVE \E c \in Has(walk.base.recipes) : ~Recognisable(c, pages)
  <2>1. CASE RefuseDraft
    <3>1. PICK c \in Has(walk.base.recipes) : c \notin Has(walk.found)
      BY <2>1 DEF RefuseDraft, NothingMissing
    <3>2. c \in Caps /\ walk.found[c] = Gone
      BY <3>1 DEF Has
    <3>3. PICK m \in 1..4 : c = Capabilities[m]
      BY <3>2 DEF Caps
    <3>4. IsMapped(m)
      BY <2>1 DEF RefuseDraft, IsMapped
    <3> QED BY <1>5, <3>1, <3>2, <3>3, <3>4 DEF FoundIsTrue
  <2>2. CASE RefuseRepair
    BY <1>5, <2>2 DEF RefuseRepair, NothingBroken, ProbedIsTrue
  <2> QED BY <2>1, <2>2
<1>6. SteadySiteIsRepaired'
  BY <1>1, <1>5 DEF SteadySiteIsRepaired, RepairShape, Recognisable
<1> QED BY <1>1, <1>3, <1>4, <1>6

(* A repair whose capabilities answered is offered.                              *)
LEMMA OfferKeeps == ASSUME RepairInv, OfferRepair PROVE RepairInv' /\ adapter' = adapter
<1> USE DEF RepairInv
<1> DEFINE r == [version |-> walk.base.version + 1, recipes |-> walk.found, answered |-> walk.answered]
<1>1. /\ walk' = NoJob /\ repairs' = repairs \cup {r} /\ UNCHANGED <<pages, adapter, drafts, siteChanges, restarts, touched, refusal>>
      /\ walk.at = "probing" /\ walk.step = 5 /\ walk.broken = {}
  BY DEF OfferRepair, NothingBroken, generatorBoundVars
<1>2. walk.base.version \in 1..(MaxVersion - 1) /\ walk.base.version <= adapter.version /\ adapter.version \in Nat
      /\ (walk.base.version = adapter.version => walk.base = adapter) /\ Has(walk.base.recipes) \subseteq Has(walk.found)
  BY <1>1, RepairAssumption DEF ProbedIsTrue, BaseIsKnown, RepairShape, AdapterRecords
<1>3. walk.base.version + 1 \in 2..MaxVersion
  BY <1>2, RepairAssumption
<1>4. r \in RepairRecords /\ r.version = walk.base.version + 1 /\ r.recipes = walk.found /\ r.answered = walk.answered
  BY <1>3 DEF RepairRecords, RepairShape, WalkRecords
<1> HIDE DEF r
<1>5. BaseIsKnown' /\ FoundIsTrue' /\ ProbedIsTrue'
  BY <1>1, WalkRests
<1>6. RepairShape' /\ SteadySiteIsRepaired'
  BY <1>1, <1>4, NoJobIs DEF RepairShape, SteadySiteIsRepaired
<1>7. adapter.version >= r.version - 1 /\ (adapter.version = r.version - 1 => Has(adapter.recipes) \subseteq Has(r.recipes))
  <2>1. r.version - 1 = walk.base.version
    BY <1>2, <1>4
  <2> QED BY <1>2, <1>4, <2>1
<1>8. RepairsGoOn'
  BY <1>1, <1>7 DEF RepairsGoOn
<1>9. ASSUME "search" \in Has(r.recipes) PROVE r.answered = Has(r.recipes)
  <2>1. walk.found["search"] # Gone
    BY <1>4, <1>9 DEF Has
  <2>2. \A n \in 1..4 : Capabilities[n] \in walk.answered <=> walk.found[Capabilities[n]] # Gone
    BY <1>1, <2>1 DEF ProbedIsTrue
  <2>3. \A c \in Caps : c \in walk.answered <=> walk.found[c] # Gone
    BY <2>2 DEF Caps
  <2>4. walk.answered \subseteq Caps
    BY DEF RepairShape, WalkRecords
  <2> QED BY <1>4, <2>3, <2>4 DEF Has
<1>10. OfferedAnswered'
  BY <1>1, <1>9 DEF OfferedAnswered
<1> QED BY <1>1, <1>5, <1>6, <1>8, <1>10

(* Nothing happens to the generator.                                          *)
LEMMA RepairRests == ASSUME RepairInv, UNCHANGED repairVars PROVE RepairInv'
<1>1. UNCHANGED <<pages, adapter, walk, drafts, repairs, siteChanges, restarts, touched, refusal>>
  BY DEF repairVars, generatorBoundVars
<1> QED BY <1>1
        DEF RepairInv, RepairShape, RepairsGoOn, BaseIsKnown, FoundIsTrue, ProbedIsTrue, IsMapped, OfferedAnswered, SteadySiteIsRepaired

(* Every step of the generator, and around it.                                   *)
LEMMA RepairStep == RepairInv /\ [RepairNext]_repairVars => RepairInv' /\ (GeneratorActs => Has(adapter.recipes) \subseteq Has(adapter'.recipes))
<1> SUFFICES ASSUME RepairInv, [RepairNext]_repairVars
             PROVE  RepairInv' /\ (GeneratorActs => Has(adapter.recipes) \subseteq Has(adapter'.recipes))
  OBVIOUS
<1>1. ASSUME GeneratorActs PROVE RepairInv' /\ Has(adapter.recipes) \subseteq Has(adapter'.recipes)
  <2>1. CASE \E does \in {"draft", "repair"} : StartJob(does)
    BY <2>1, StartKeeps
  <2>2. CASE MapPage \/ WriteRepair \/ Probe \/ OfferRepair
    BY <2>2, MapKeeps, WriteKeeps, ProbeKeeps, OfferKeeps
  <2>3. CASE RefuseDraft \/ RefuseRepair
    BY <2>3, RefusalKeeps
  <2>4. CASE SaveDraft \/ (\E d \in drafts : TestDraft(d) \/ GenerateDraft(d))
    BY <2>4, OthersKeep
  <2>5. CASE (\E d \in drafts : InstallDraft(d)) \/ (\E r \in repairs : ActivateRepair(r))
    BY <2>5, InstallKeeps, InstalledHas
  <2> QED BY <1>1, <2>1, <2>2, <2>3, <2>4, <2>5 DEF GeneratorActs
<1>2. CASE SiteChanges \/ RestartGenerator \/ (\E d \in drafts : CrashWritingDraft(d))
  <2>1. RepairInv' /\ adapter' = adapter
    BY <1>2, OthersKeep
  <2> QED BY <2>1
<1>3. CASE OtherUpdate
  <2>1. RepairInv'
    BY <1>3, InstallKeeps
  <2> QED BY <1>1, <2>1
<1>4. CASE UNCHANGED repairVars
  <2>1. adapter' = adapter
    BY <1>4 DEF repairVars
  <2> QED BY <1>4, <2>1, RepairRests
<1> QED BY <1>1, <1>2, <1>3, <1>4 DEF RepairNext

(* What the invariant says of a state.                                           *)
LEMMA RepairIsWhole == RepairInv => RepairTypeOK /\ OfferedAnswered /\ SteadySiteIsRepaired
<1> SUFFICES ASSUME RepairInv PROVE RepairTypeOK
  BY DEF RepairInv
<1>1. RepairShape
  BY DEF RepairInv
<1>2. \A d \in drafts : d.recipes \in SiteRecipes /\ d.state \in {"discovered", "generated"} /\ d.file \in {"none", "torn", "whole"}
  BY <1>1 DEF RepairShape, DraftRecords
<1>3. \A r \in repairs : r.version \in 2..MaxVersion /\ r.recipes \in SiteRecipes /\ r.answered \subseteq Caps
  BY <1>1 DEF RepairShape, RepairRecords
<1> QED BY <1>1, <1>2, <1>3 DEF RepairTypeOK, RepairShape, AdapterRecords, WalkRecords, RefusalRecords

-----------------------------------------------------------------------------
(* All of them. A behaviour is one of a single component, but each step of it is *)
(* a step, or no step, of every component.                                       *)

StorageInv ==
  /\ part \in {"migration", "backup", "import", "export", "removal", "registry", "generator"}
  /\ MigrationInv /\ BackupInv /\ ImportInv /\ ExportInv /\ RemovalInv
  /\ RegistryInv /\ RepairInv

(* The start of all of them.                                                     *)
LEMMA StorageInitially == StorageInit => StorageInv
BY MigrationInitially, BackupsInitially, ImportsInitially, ExportsInitially, RemovalInitially, RegistryInitially, RepairInitially
   DEF StorageInit, StorageInv

(* Whose step a step is.                                                         *)
LEMMA StorageComponents ==
  [StorageNext]_storageVars =>
    /\ part' = part
    /\ [MigrationNext]_migrationVars /\ [BackupsNext]_backupVars /\ [ImportsNext]_importVars
    /\ [ExportsNext]_exportVars /\ [RemovalNext]_removalVars
    /\ [AdaptersNext]_adapterVars /\ [RepairNext]_repairVars
BY DEF StorageNext, LibraryFilesNext, AdapterFilesNext, storageVars, libraryFileVars, siteFileVars

(* Every step of any.                                                            *)
LEMMA StorageStep ==
  StorageInv /\ [StorageNext]_storageVars =>
    /\ StorageInv'
    /\ StrangersOK /\ UndoableOK /\ SettlesOK /\ ExportOK /\ RefusedOK /\ PublishedFollows
    /\ GeneratorActs => Has(adapter.recipes) \subseteq Has(adapter'.recipes)
BY StorageComponents, MigrationStep, BackupsStep, ImportsStep, ExportsStep, RemovalStep, RegistryStep, RepairStep
   DEF StorageInv

(* The invariant of all of them.                                                 *)
LEMMA StorageKeeps == StorageSpec => []StorageInv
BY StorageInitially, StorageStep, PTL DEF StorageSpec

(* What the invariant says of the types.                                         *)
LEMMA StorageTypes == StorageInv => StorageTypeOK
BY BackupsAreKept, RegistryIsWhole, RepairIsWhole
   DEF StorageInv, StorageTypeOK, MigrationInv, ImportInv, ExportInv, RemovalInv

(* Through migrations, backups, restores and removals, whatever crashes or fails *)
(* between any two of their steps, what is registered or recorded has its file   *)
(* (storage/migration.py, backup/*, restore/service.py, library/shelf.py).       *)
THEOREM FilesAreKept == StorageSpec => []NoFileIsLost
<1>1. StorageInv => NoFileIsLost
  <2> SUFFICES ASSUME StorageInv PROVE NoFileIsLost
    OBVIOUS
  <2>1. ContentSomewhere /\ CompleteMeansReadable
    BY DEF StorageInv, MigrationInv, WorkerAgrees, Final, Readable, CompleteMeansReadable
  <2>2. NewestKept /\ OkIsHonest
    BY BackupsAreKept DEF StorageInv
  <2>3. NothingForgottenAlone
    BY DEF StorageInv, RemovalInv, RowGoesLast, NothingForgottenAlone
  <2> QED BY <2>1, <2>2, <2>3 DEF NoFileIsLost
<1> QED BY <1>1, StorageKeeps, PTL

(* Every variable has its type, an import is completed exactly when its asset is *)
(* registered, and no unit has two files of a format (importer/service.py).      *)
THEOREM ImportsAndTypes == StorageSpec => []ImportsAgree
<1>1. StorageInv => ImportsAgree
  BY StorageTypes DEF StorageInv, ImportInv, CallAgrees, CompletedIsRegistered, ImportsAgree
<1> QED BY <1>1, StorageKeeps, PTL

(* The Registry serves exactly what its index names, what is installed was       *)
(* published as what it is, a repair is offered only when all it has answered,   *)
(* and is not refused on a site that kept still and shows everything             *)
(* (plugins/adapter_repo.py, plugins/manager.py, generator/repair.py).           *)
THEOREM AdaptersStayWhole == StorageSpec => []AdaptersAreWhole
<1>1. StorageInv => AdaptersAreWhole
  BY RegistryIsWhole, RepairIsWhole DEF StorageInv, AdaptersAreWhole
<1> QED BY <1>1, StorageKeeps, PTL

(* Neither a migration nor an export replaces a file that appeared, an export    *)
(* publishes what was recorded or nothing, and a removal leaves what it refuses, *)
(* with its record (storage/safe_write.py, export/service.py, library/shelf.py). *)
THEOREM OthersFilesStay == StorageSpec => StrangersFilesStay
<1>1. StorageSpec => /\ [][StrangersOK]_migrationVars /\ [][PublishesOK]_exportVars /\ [][OverwritesOK]_exportVars
                     /\ [][RefusedOK]_removalVars
  <2>1. ExportOK => PublishesOK /\ OverwritesOK
    BY DEF ExportOK
  <2> QED BY <2>1, StorageKeeps, StorageStep, PTL DEF StorageSpec
<1>2. StorageSpec => StrangersStay
  BY <1>1 DEF StrangersStay, StrangersOK
<1>3. StorageSpec => NothingOverwritten
  BY <1>1 DEF NothingOverwritten, OverwritesOK
<1>4. StorageSpec => OnlyRecordedIsPublished
  BY <1>1 DEF OnlyRecordedIsPublished, PublishesOK
<1>5. StorageSpec => RefusedIsKept
  BY <1>1 DEF RefusedIsKept, RefusedOK
<1> QED BY <1>2, <1>3, <1>4, <1>5 DEF StrangersFilesStay

(* The library that a restore replaces is in a verified backup that is on disk,  *)
(* unless newer ones took the place of the Safety Snapshot; a published version  *)
(* keeps its files and none goes back; and a repair or a draft takes no          *)
(* capability from a source (restore/service.py, plugins/adapter_repo.py,        *)
(* generator/repair.py).                                                         *)
THEOREM ReplacedCanBeHad == StorageSpec => NothingIsTakenAway
<1> DEFINE KeepsOK == GeneratorActs => Has(adapter.recipes) \subseteq Has(adapter'.recipes)
<1>1. StorageSpec => /\ [][UndoableOK]_backupVars /\ [][PublishedFollows]_adapterVars /\ [][KeepsOK]_repairVars
  BY StorageKeeps, StorageStep, PTL DEF StorageSpec
<1> QED BY <1>1 DEF NothingIsTakenAway, ReplaceIsUndoable, VersionsAreImmutable, RepairLosesNothing,
                    UndoableOK, PublishedFollows, Follows

(* After a start no import is under way but one whose entry of the journal is    *)
(* open, and an export is completed only when every file it planned was copied   *)
(* or found: the safety half of InterruptedIsFinished (importer/service.py,      *)
(* export/service.py).                                                           *)
THEOREM EndsAreComplete == StorageSpec => StartSettles /\ CompletedIsComplete
<1>1. StorageSpec => [][SettlesOK]_importVars /\ [][CompletesOK]_exportVars
  <2>1. ExportOK => CompletesOK
    BY DEF ExportOK
  <2> QED BY <2>1, StorageKeeps, StorageStep, PTL DEF StorageSpec
<1>2. StorageSpec => StartSettles
  BY <1>1 DEF StartSettles, SettlesOK
<1>3. StorageSpec => CompletedIsComplete
  BY <1>1 DEF CompletedIsComplete, CompletesOK
<1> QED BY <1>2, <1>3
=============================================================================
