-------------------------------- MODULE Exports --------------------------------
(* One export job (export/service.py): the files of a plan are copied, verified  *)
(* and published one by one into a folder, or together as one archive, while the *)
(* library's files change, other programs write to the destination, the process  *)
(* stops, and the user retries, also while a run is still under way.             *)
EXTENDS Naturals, FiniteSets

CONSTANTS
  Items,            \* the planned files (export_items), each with its own target
  ExportRuns,       \* calls of run(): the request that starts the job, and retries
  MaxMeddling,      \* bound: changes made by somebody else
  MaxExportCrashes, \* bound: restarts
  NoCopy, OtherFile     \* no file; a file with other content

ASSUME ExportsAssumption == "archive" \notin Items /\ \A S \in SUBSET Items : S # OtherFile

VARIABLES
  exportJob,        \* [state, output, conflict, issues]: the row of export_jobs; "none" before
  items,            \* export_items.state
  source,           \* the library's file of each item: "recorded", "changed" or NoCopy
  dest,             \* the file at each target: NoCopy, OtherFile, or the items it holds as recorded
  second,           \* items of which a second copy " (2)" was published, by keep_both
  runs,             \* where each run stands
  again,            \* history: items that a retry put back while another run was under way
  meddling, exportCrashes

exportVars == <<exportJob, items, source, dest, second, runs, again, meddling, exportCrashes>>

Targets == Items \cup {"archive"}     \* an item's own file, or the archive of all
Outputs == {"folder", "zip"}
Policies == {"skip_identical", "replace", "keep_both"}
NotRunning == [pc |-> "idle", todo |-> {}, bad |-> FALSE, verified |-> TRUE]
Item(x) == x # "archive"

ExportsInit ==
  /\ exportJob = [state |-> "none", output |-> "folder", conflict |-> "replace"]
  /\ items = [i \in Items |-> "none"] /\ source = [i \in Items |-> "recorded"]
  /\ dest \in [Targets -> {NoCopy, OtherFile}] /\ second = {}
  /\ runs = [r \in ExportRuns |-> NotRunning]
  /\ again = {} /\ meddling = 0 /\ exportCrashes = 0

ExportTypeOK ==
  /\ exportJob \in [state : {"none", "queued", "running", "completed", "completed_with_issues"},
                    output : Outputs, conflict : Policies]
  /\ items \in [Items -> {"none", "pending", "copied", "skipped", "failed"}]
  /\ source \in [Items -> {"recorded", "changed", NoCopy}] /\ dest \in [Targets -> {NoCopy, OtherFile} \cup SUBSET Items]
  /\ second \subseteq Targets
  /\ runs \in [ExportRuns -> [pc : {"idle", "pick", "publish", "mark", "finish", "ended"}, todo : SUBSET Items,
                             bad : BOOLEAN, verified : BOOLEAN]]
  /\ again \subseteq Items

(* plan_selection() and start(): a job over the files the plan found.            *)
StartExport ==
  /\ exportJob.state = "none"
  /\ \E o \in Outputs, p \in Policies : exportJob' = [state |-> "queued", output |-> o, conflict |-> p]
  /\ items' = [i \in Items |-> "pending"]
  /\ UNCHANGED <<source, dest, second, runs, again, meddling, exportCrashes>>

(* run() begins with the items that are pending; an archive takes all that have  *)
(* not failed.                                                                   *)
Chosen == IF exportJob.output = "folder" THEN {i \in Items : items[i] = "pending"} ELSE {i \in Items : items[i] # "failed"}

BeginRun(r) ==
  /\ runs[r].pc = "idle" /\ exportJob.state # "none"
  /\ exportJob' = [exportJob EXCEPT !.state = "running"]
  /\ runs' = [runs EXCEPT ![r] = [NotRunning EXCEPT !.pc = "pick", !.todo = Chosen]]
  /\ UNCHANGED <<items, source, dest, second, again, meddling, exportCrashes>>

(* retry_failed(), before the run it starts.                                     *)
UnderWay(r) == runs[r].pc \notin {"idle", "ended"}

Requeue(r) ==
  /\ runs[r].pc = "idle" /\ \E i \in Items : items[i] = "failed"
  /\ items' = [i \in Items |-> IF items[i] = "failed" THEN "pending" ELSE items[i]]
  /\ again' = IF \E o \in ExportRuns : UnderWay(o) THEN again \cup {i \in Items : items[i] = "failed"} ELSE again
  /\ exportJob' = [exportJob EXCEPT !.state = "queued"]
  /\ UNCHANGED <<source, dest, second, runs, meddling, exportCrashes>>

-----------------------------------------------------------------------------
(* What a run works at: one item of a folder, or everything of an archive.       *)
Next1(r) == CHOOSE i \in runs[r].todo : TRUE
Part(r) == IF exportJob.output = "folder" THEN {Next1(r)} ELSE runs[r].todo
Target(r) == IF exportJob.output = "folder" THEN Next1(r) ELSE "archive"

(* The staged copy is compared with what the plan recorded.                      *)
CopiedSomehow(i) == source[i] # NoCopy      \* mutant: it is not
CopiedWell(i) == source[i] = "recorded"

(* Does a file that is there already stand for the copy, by its content?         *)
Compares(t) == exportJob.conflict = "skip_identical" /\ dest[t] # NoCopy

(* A file is compared before it is copied, an archive after it is built.         *)
Bad(r) == {i \in Part(r) : ~CopiedWell(i) /\ ~(Item(Target(r)) /\ Compares(Target(r)) /\ source[i] # NoCopy)}

Settled(S, state) == [i \in Items |-> IF i \in S THEN state ELSE items[i]]
Done(r) == [runs EXCEPT ![r].pc = "pick", ![r].todo = @ \ Part(r)]
DoneBadly(r) == [Done(r) EXCEPT ![r].bad = TRUE]
FailedPart(r) == IF Item(Target(r)) THEN Settled(Part(r), "failed") ELSE items    \* an archive's error names no item

(* _copy_item() and _package_zip() up to the publication: what cannot be copied  *)
(* as it was recorded fails, and with it its archive.                            *)
Pick(r) ==
  /\ runs[r].pc = "pick" /\ runs[r].todo # {}
  /\ IF Bad(r) # {} THEN items' = Settled(Bad(r), "failed") /\ runs' = DoneBadly(r)
     ELSE IF Compares(Target(r))
       THEN IF dest[Target(r)] = Part(r)
              THEN items' = Settled(Part(r), "skipped") /\ runs' = Done(r)
              ELSE items' = FailedPart(r) /\ runs' = DoneBadly(r)
     ELSE /\ runs' = [runs EXCEPT ![r].pc = "publish", ![r].verified = \A i \in Part(r) : source[i] = "recorded"]
          /\ UNCHANGED items
  /\ UNCHANGED <<exportJob, source, dest, second, again, meddling, exportCrashes>>

PickNothing(r) ==
  /\ runs[r].pc = "pick" /\ runs[r].todo = {}
  /\ runs' = [runs EXCEPT ![r].pc = "finish"]
  /\ UNCHANGED <<exportJob, items, source, dest, second, again, meddling, exportCrashes>>

(* publish(): a link, to a name that must be free, or a rename over what is      *)
(* there; keep_both takes the next free name.                                    *)
MayOverwrite == TRUE                       \* mutant: check, then rename
MayReplace == exportJob.conflict = "replace"

PublishExport(r) ==
  LET t == Target(r) IN
  /\ runs[r].pc = "publish"
  /\ \/ /\ MayReplace \/ dest[t] = NoCopy
        /\ dest' = [dest EXCEPT ![t] = IF runs[r].verified THEN Part(r) ELSE OtherFile]
        /\ runs' = [runs EXCEPT ![r].pc = "mark"] /\ UNCHANGED <<items, second>>
     \/ /\ exportJob.conflict = "keep_both" /\ dest[t] # NoCopy
        /\ second' = second \cup {t}
        /\ runs' = [runs EXCEPT ![r].pc = "mark"] /\ UNCHANGED <<items, dest>>
     \/ /\ ~MayReplace /\ dest[t] # NoCopy
        /\ items' = FailedPart(r) /\ runs' = DoneBadly(r) /\ UNCHANGED <<dest, second>>
  /\ UNCHANGED <<exportJob, source, again, meddling, exportCrashes>>

MarkItemCopied(r) ==
  /\ runs[r].pc = "mark"
  /\ items' = Settled(Part(r), "copied") /\ runs' = Done(r)
  /\ UNCHANGED <<exportJob, source, dest, second, again, meddling, exportCrashes>>

(* The end of run(); the metadata file may fail too.                             *)
FailedItems(r, metadata) == ~metadata \/ \E i \in Items : items[i] = "failed"    \* mutant: errors of no item are forgotten
Issues(r, metadata) == runs[r].bad \/ ~metadata \/ \E i \in Items : items[i] = "failed"

FinishRun(r) ==
  /\ runs[r].pc = "finish"
  /\ \E metadata \in BOOLEAN :
       exportJob' = [exportJob EXCEPT !.state = IF Issues(r, metadata) THEN "completed_with_issues" ELSE "completed"]
  /\ runs' = [runs EXCEPT ![r] = [NotRunning EXCEPT !.pc = "ended"]]
  /\ UNCHANGED <<items, source, dest, second, again, meddling, exportCrashes>>

(* Somebody else: a library file changes or goes, the destination is written to. *)
Meddle ==
  /\ meddling < MaxMeddling /\ meddling' = meddling + 1
  /\ \/ \E i \in Items, s \in {"changed", "recorded", NoCopy} : source' = [source EXCEPT ![i] = s] /\ UNCHANGED dest
     \/ \E t \in Targets : /\ dest' = [dest EXCEPT ![t] = IF @ = NoCopy THEN OtherFile ELSE NoCopy]
                           /\ UNCHANGED source
  /\ UNCHANGED <<exportJob, items, second, runs, again, exportCrashes>>

(* Staged copies go with their directory or stay behind, hidden; the job stays.  *)
ExportCrash ==
  /\ exportCrashes < MaxExportCrashes /\ exportCrashes' = exportCrashes + 1
  /\ runs' = [r \in ExportRuns |-> IF runs[r].pc = "idle" THEN NotRunning ELSE [NotRunning EXCEPT !.pc = "ended"]]
  /\ UNCHANGED <<exportJob, items, source, dest, second, again, meddling>>

ExportsNext ==
  \/ StartExport \/ Meddle \/ ExportCrash
  \/ \E r \in ExportRuns : \/ BeginRun(r) \/ Requeue(r) \/ Pick(r) \/ PickNothing(r)
                           \/ PublishExport(r) \/ MarkItemCopied(r) \/ FinishRun(r)

ExportsSpec == ExportsInit /\ [][ExportsNext]_exportVars

-----------------------------------------------------------------------------
(* Properties.                                                                   *)

Published == \E r \in ExportRuns : runs[r].pc = "publish" /\ runs'[r].pc = "mark"

(* Whatever happens to the library's file between the plan, the copy and the     *)
(* publication, an export publishes the recorded bytes or nothing.               *)
OnlyRecordedIsPublished ==
  [][Published => \A t \in Targets : dest'[t] # dest[t] => dest'[t] # OtherFile]_exportVars

(* Unless the user chose to replace, no file of the destination is overwritten,  *)
(* not even one that appears after the run has looked (safe_write.py:3).         *)
NothingOverwritten ==
  [][Published /\ exportJob.conflict # "replace" => \A t \in Targets : dest[t] # NoCopy => dest'[t] = dest[t]]_exportVars

(* A job ends as "completed" only when every planned file was copied or found,   *)
(* with retries that overlap and archives that could not be written; but for a   *)
(* file that a retry put back while the run that ends was under way: that file   *)
(* is the retry's (export/service.py:247-308).                                   *)
CompletedIsComplete ==
  [][exportJob.state # "completed" /\ exportJob'.state = "completed"
       => \A i \in Items \ again : items[i] \in {"copied", "skipped"}]_exportVars
=============================================================================
