------------------------------ MODULE PluginStore ------------------------------
(* One source plugin: installed from an upload, from the Registry or from the    *)
(* image (plugins/manager.py, plugins/bundled.py), reviewed, updated, disabled,  *)
(* rolled back and removed by the owner, and kept current at every start.  The   *)
(* event loop runs each handler without a pause, except while the Registry is    *)
(* asked; a crash can fall between the store file, the rows, the note and the    *)
(* marker.                                                                       *)
EXTENDS Naturals, FiniteSets

CONSTANTS
  Packages,       \* records [version, perms, works]: what may be offered for the plugin
  NoPackage,
  MaxPluginCrashes, MaxOffers    \* bounds

ASSUME PackagesAssumption ==
  /\ NoPackage \notin Packages /\ \A p \in Packages : p.version \in Nat \ {0}
  /\ MaxPluginCrashes \in Nat /\ MaxOffers \in Nat

VARIABLES
  phase,      \* "down", "sync", "note", "mark" (a start under way) or "up"
  plugin,     \* the row of plugins: state, active version and channel
  versions,   \* the rows of plugin_versions
  store,      \* the files of the plugin store, by version
  bundled,    \* the package in the image
  marker,     \* official_sources_bootstrap_version is set
  bundledNote,\* the status of its row in bundled_plugins, and the package it speaks of
  offered,    \* the package in the Registry
  review,     \* the package the owner reviewed there, and what of it was fetched to be installed
  granted,    \* history: the permissions the owner granted since the last removal
  choice,     \* history: what the owner last did with the plugin: "none", "disabled", "removed" or "own"
  pluginCrashes, offers

recordVars == <<plugin, versions>>
imageVars == <<bundled, marker, bundledNote>>
registryVars == <<offered, review>>
ownerVars == <<granted, choice>>
pluginBoundVars == <<pluginCrashes, offers>>
pluginVars == <<phase, recordVars, store, imageVars, registryVars, ownerVars, pluginBoundVars>>

Versions == {p.version : p \in Packages}
Perms == UNION {p.perms : p \in Packages}
MaybePackage == Packages \cup {NoPackage}
NoVersion == [status |-> "none", package |-> NoPackage, approved |-> {}]
Nothing == [is |-> "none", package |-> NoPackage]

PluginTypeOK ==
  /\ phase \in {"down", "sync", "note", "mark", "up"}
  /\ plugin \in [state : {"none", "active", "disabled", "pending_review", "uninstalled"},
                 active : Versions \cup {0}, channel : {"none", "bundled", "upload", "registry"}]
  /\ versions \in [Versions -> [status : {"none", "active", "previous", "pending_review", "retired"},
                                package : MaybePackage, approved : SUBSET Perms]]
  /\ store \in [Versions -> MaybePackage]
  /\ bundled \in MaybePackage /\ marker \in BOOLEAN
  /\ bundledNote \in [is : {"none", "installed", "failed", "skipped"}, package : MaybePackage]
  /\ offered \in MaybePackage /\ review \in [shown : MaybePackage, fetched : MaybePackage]
  /\ granted \subseteq Perms /\ choice \in {"none", "disabled", "removed", "own"}
  \* the plugin's row and its versions agree: at most one is active, and it is the one the row names
  /\ \A v \in Versions : versions[v].status = "active" <=> plugin.active = v
  /\ plugin.active # 0 <=> plugin.state \in {"active", "disabled"}
  /\ Cardinality({v \in Versions : versions[v].status = "previous"}) <= 1

(* An owner who chose sources before this build, or a fresh library.             *)
PluginsInit ==
  /\ phase = "down" /\ marker = FALSE /\ bundledNote = Nothing /\ bundled \in Packages
  /\ \E own \in BOOLEAN, p \in {q \in Packages : q.works} :
       /\ plugin = IF own THEN [state |-> "active", active |-> p.version, channel |-> "upload"]
                          ELSE [state |-> "none", active |-> 0, channel |-> "none"]
       /\ versions = [v \in Versions |-> IF own /\ v = p.version
                                         THEN [status |-> "active", package |-> p, approved |-> p.perms] ELSE NoVersion]
       /\ store = [v \in Versions |-> IF own /\ v = p.version THEN p ELSE NoPackage]
       /\ granted = IF own THEN p.perms ELSE {}
       /\ choice = IF own THEN "own" ELSE "none"
  /\ offered = NoPackage /\ review = [shown |-> NoPackage, fetched |-> NoPackage]
  /\ pluginCrashes = 0 /\ offers = 0

-----------------------------------------------------------------------------
(* install_file().                                                               *)

Registered(v) == versions[v].status \notin {"none", "retired"}
AlreadyInstalled(p) == Registered(p.version) /\ versions[p.version].package = p
Rejected(p) ==
  \/ Registered(p.version) /\ versions[p.version].package # p     \* the same version, other bytes
  \/ p.version < plugin.active                                    \* older than what is installed
  \/ ~p.works                                                     \* the packaged tests fail

Installable(p) == ~AlreadyInstalled(p) /\ ~Rejected(p)

Baseline == IF plugin.active = 0 THEN {} ELSE versions[plugin.active].approved

(* _record(): an update the owner did not ask to enable leaves a disabled plugin *)
(* disabled; a version that waits for review leaves the active one alone, and an *)
(* owner who asked the Registry for it has chosen who updates the plugin.        *)
Activated(p, approved, channel) ==
  /\ plugin' = [state |-> IF plugin.state = "disabled" THEN "disabled" ELSE "active",
                active |-> p.version, channel |-> channel]
  /\ versions' = [v \in Versions |->
       IF v = p.version THEN [status |-> "active", package |-> p, approved |-> approved \cap p.perms]
       ELSE IF versions[v].status = "previous" THEN [versions[v] EXCEPT !.status = "retired"]
       ELSE IF versions[v].status = "active" THEN [versions[v] EXCEPT !.status = "previous"] ELSE versions[v]]

AwaitsReview(p, channel) ==
  /\ plugin' = [state |-> IF plugin.active # 0 THEN plugin.state ELSE "pending_review", active |-> plugin.active,
                 channel |-> IF plugin.active # 0 /\ channel # "registry" THEN plugin.channel ELSE channel]
  /\ versions' = [versions EXCEPT ![p.version] = [status |-> "pending_review", package |-> p, approved |-> {}]]

RecordedAnyway(p, approved, channel) == Activated(p, approved \cup p.perms, channel)  \* mutant: no review

Recorded(p, approved, channel) ==
  IF p.perms \subseteq Baseline \cup approved
  THEN Activated(p, Baseline \cup approved, channel) ELSE AwaitsReview(p, channel)

Install(p, approved, channel) ==
  /\ Installable(p)
  /\ store' = [store EXCEPT ![p.version] = p]
  /\ Recorded(p, approved, channel)

(* approve(): a version that waits, and whose stored file is what was reviewed.  *)
Approve(v, approved, channel) ==
  /\ versions[v].status = "pending_review" /\ store[v] = versions[v].package
  /\ versions[v].package.perms \subseteq Baseline \cup approved
  /\ Activated(versions[v].package, Baseline \cup approved, channel)

-----------------------------------------------------------------------------
(* The owner.                                                                    *)

Grants(approved) ==
  /\ granted' = granted \cup approved
  /\ choice' = IF choice = "disabled" THEN "disabled" ELSE "own"

UploadInstall(p, approved) ==
  /\ phase = "up" /\ Install(p, approved, "upload")
  /\ Grants(approved)
  /\ UNCHANGED <<phase, imageVars, registryVars, pluginBoundVars>>

ApproveReview(v) ==
  /\ phase = "up" /\ versions[v].status = "pending_review"
  /\ Approve(v, versions[v].package.perms, plugin.channel)
  /\ Grants(versions[v].package.perms)
  /\ UNCHANGED <<phase, store, imageVars, registryVars, pluginBoundVars>>

Disable ==
  /\ phase = "up" /\ plugin.active # 0
  /\ plugin' = [plugin EXCEPT !.state = "disabled"] /\ choice' = "disabled"
  /\ UNCHANGED <<phase, versions, store, imageVars, registryVars, granted, pluginBoundVars>>

Enable ==
  /\ phase = "up" /\ plugin.state = "disabled"
  /\ plugin' = [plugin EXCEPT !.state = "active"] /\ choice' = "own"
  /\ UNCHANGED <<phase, versions, store, imageVars, registryVars, granted, pluginBoundVars>>

(* rollback() makes the plugin active, also when it was disabled.                *)
Rollback ==
  /\ phase = "up" /\ plugin.active # 0
  /\ \E v \in Versions :
       /\ versions[v].status = "previous" /\ store[v] = versions[v].package
       /\ versions' = [versions EXCEPT ![plugin.active].status = "previous", ![v].status = "active"]
       /\ plugin' = [plugin EXCEPT !.state = "active", !.active = v]
  /\ choice' = "own"
  /\ UNCHANGED <<phase, store, imageVars, registryVars, granted, pluginBoundVars>>

Removed ==
  /\ versions' = [v \in Versions |-> IF versions[v].status = "none" THEN NoVersion ELSE [versions[v] EXCEPT !.status = "retired"]]
  /\ plugin' = [plugin EXCEPT !.state = "uninstalled", !.active = 0]
  /\ granted' = {} /\ choice' = "removed"

Uninstall ==
  /\ phase = "up" /\ plugin.state # "none"
  /\ Removed
  /\ store' = [v \in Versions |-> NoPackage]
  /\ UNCHANGED <<phase, imageVars, registryVars, pluginBoundVars>>

-----------------------------------------------------------------------------
(* The Registry: what is reviewed is what is installed.                          *)

Offer(p) ==
  /\ offers < MaxOffers /\ p # offered
  /\ offers' = offers + 1 /\ offered' = p
  /\ UNCHANGED <<phase, recordVars, store, imageVars, review, ownerVars, pluginCrashes>>

ReviewPackage ==
  /\ phase = "up" /\ offered # NoPackage /\ review.shown # offered /\ review.fetched = NoPackage
  /\ review' = [shown |-> offered, fetched |-> NoPackage]
  /\ UNCHANGED <<phase, recordVars, store, imageVars, offered, ownerVars, pluginBoundVars>>

FetchUnbound ==                            \* mutant: the approval is not bound to the bytes
  /\ phase = "up" /\ review.shown # NoPackage /\ review.fetched = NoPackage /\ offered # NoPackage
  /\ review' = [review EXCEPT !.fetched = offered]
  /\ UNCHANGED <<phase, recordVars, store, imageVars, offered, ownerVars, pluginBoundVars>>

FetchReviewed ==
  /\ phase = "up" /\ review.shown # NoPackage /\ review.fetched = NoPackage
  /\ review' = IF offered = review.shown THEN [review EXCEPT !.fetched = offered]
               ELSE [shown |-> NoPackage, fetched |-> NoPackage]
  /\ UNCHANGED <<phase, recordVars, store, imageVars, offered, ownerVars, pluginBoundVars>>

(* The package that was fetched is installed with the permissions the review     *)
(* showed; a version that waits already is approved by it.                       *)
InstallFetched ==
  /\ phase = "up" /\ review.fetched # NoPackage
  /\ LET p == review.fetched  approved == review.shown.perms IN
     \/ Install(p, approved, "registry") /\ Grants(approved)
     \/ /\ AlreadyInstalled(p) /\ versions[p.version].status = "pending_review"
        /\ Approve(p.version, approved, plugin.channel) /\ Grants(approved) /\ UNCHANGED store
     \/ /\ Rejected(p) \/ (AlreadyInstalled(p) /\ versions[p.version].status # "pending_review")
        /\ UNCHANGED <<recordVars, store, ownerVars>>
  /\ review' = [shown |-> NoPackage, fetched |-> NoPackage]
  /\ UNCHANGED <<phase, imageVars, offered, pluginBoundVars>>

-----------------------------------------------------------------------------
(* A start: reconcile_store(), then sync_bundled(), before anything is served.   *)

ReconcileToActive ==                       \* mutant: what can be rolled back to is an orphan
  /\ phase = "down"
  /\ store' = [v \in Versions |-> IF v = plugin.active THEN store[v] ELSE NoPackage]
  /\ phase' = "sync"
  /\ UNCHANGED <<recordVars, imageVars, registryVars, ownerVars, pluginBoundVars>>

ReconcileStore ==
  /\ phase = "down"
  /\ store' = [v \in Versions |-> IF Registered(v) THEN store[v] ELSE NoPackage]
  /\ phase' = "sync"
  /\ UNCHANGED <<recordVars, imageVars, registryVars, ownerVars, pluginBoundVars>>

OwnedCountingOurs == plugin.state # "none"     \* mutant: what a start before this one installed counts
Owned == plugin.state # "none" /\ plugin.channel # "bundled"

Ends(status) == bundledNote' = [is |-> status, package |-> bundled]
SyncDone(p) == phase' = p /\ UNCHANGED <<marker, bundled, registryVars, pluginBoundVars>>

(* The first run: every permission as shipped is approved, because the owner     *)
(* chose so.                                                                     *)
FirstInstall ==
  \/ Install(bundled, bundled.perms, "bundled") /\ granted' = granted \cup bundled.perms /\ choice' = choice
  \/ AlreadyInstalled(bundled) /\ UNCHANGED <<recordVars, store, ownerVars>>

Skip ==
  /\ phase = "sync" /\ ~marker /\ Owned
  /\ Ends("skipped") /\ SyncDone("mark")
  /\ UNCHANGED <<recordVars, store, ownerVars>>

Bootstrap ==
  /\ phase = "sync" /\ ~marker /\ ~Owned
  /\ FirstInstall /\ SyncDone("note") /\ UNCHANGED bundledNote

(* A later start keeps what is still ours and active current; it approves        *)
(* nothing, and leaves alone what the owner disabled, removed or replaced.       *)
KnownBroken == bundledNote.is = "failed" /\ bundledNote.package = bundled
MayUpdateAnything == plugin.active < bundled.version /\ ~KnownBroken    \* mutant: the owner's choices are not looked at
MayUpdate ==
  /\ ~KnownBroken /\ plugin.channel = "bundled" /\ plugin.state = "active"
  /\ plugin.active < bundled.version
MayRetry == ~KnownBroken /\ bundledNote.is = "failed" /\ plugin.state = "none"

Maintain ==
  /\ phase = "sync" /\ marker
  /\ \/ MayUpdate /\ Install(bundled, {}, "bundled") /\ UNCHANGED ownerVars
     \/ MayUpdate /\ AlreadyInstalled(bundled) /\ UNCHANGED <<recordVars, store, ownerVars>>
     \/ MayRetry /\ FirstInstall
  /\ SyncDone("note") /\ UNCHANGED bundledNote

LeaveAlone ==
  /\ phase = "sync" /\ marker /\ ~MayUpdate /\ ~MayRetry
  /\ SyncDone("up")
  /\ UNCHANGED <<recordVars, store, bundledNote, ownerVars>>

BundledFailsTheStart ==                    \* mutant: a rejected adapter ends the start
  /\ phase = "sync" /\ Rejected(bundled) /\ ((~marker /\ ~Owned) \/ (marker /\ (MayUpdate \/ MayRetry)))
  /\ Ends("none") /\ SyncDone("down")
  /\ UNCHANGED <<recordVars, store, ownerVars>>

(* A broken adapter is recorded as failed, and the start goes on.                *)
BundledRejected ==
  /\ phase = "sync" /\ Rejected(bundled) /\ ((~marker /\ ~Owned) \/ (marker /\ (MayUpdate \/ MayRetry)))
  /\ Ends("failed") /\ SyncDone("mark")
  /\ UNCHANGED <<recordVars, store, ownerVars>>

NoteInstalled ==
  /\ phase = "note"
  /\ Ends("installed") /\ SyncDone("mark")
  /\ UNCHANGED <<recordVars, store, ownerVars>>

SetMarker ==
  /\ phase = "mark"
  /\ marker' = TRUE /\ phase' = "up"
  /\ UNCHANGED <<recordVars, store, bundled, bundledNote, registryVars, ownerVars, pluginBoundVars>>

StartStep ==
  \/ ReconcileStore \/ Skip \/ Bootstrap \/ Maintain \/ LeaveAlone \/ BundledRejected \/ NoteInstalled \/ SetMarker

-----------------------------------------------------------------------------
(* Stops, new images and crashes.                                                *)

Down == phase' = "down" /\ review' = [shown |-> NoPackage, fetched |-> NoPackage]

Stop ==
  /\ phase = "up" /\ Down
  /\ UNCHANGED <<recordVars, store, imageVars, offered, ownerVars, pluginBoundVars>>

NewImage(p) ==
  /\ phase = "down" /\ offers < MaxOffers /\ p # bundled
  /\ offers' = offers + 1 /\ bundled' = p
  /\ UNCHANGED <<phase, recordVars, store, marker, bundledNote, registryVars, ownerVars, pluginCrashes>>

(* Between two steps of a start; between the store file and the rows of an       *)
(* install; between the rows and the files of a removal.                         *)
PluginCrash ==
  /\ pluginCrashes < MaxPluginCrashes /\ pluginCrashes' = pluginCrashes + 1 /\ Down
  /\ \/ phase \in {"sync", "note", "mark"} /\ UNCHANGED <<recordVars, store, ownerVars>>
     \/ \E p \in Packages : /\ phase \in {"up", "sync"} /\ Installable(p) /\ (phase = "sync" => p = bundled)
                            /\ store' = [store EXCEPT ![p.version] = p] /\ UNCHANGED <<recordVars, ownerVars>>
     \/ phase = "up" /\ plugin.state # "none" /\ Removed /\ UNCHANGED store
  /\ UNCHANGED <<imageVars, offered, offers>>

PluginsNext ==
  \/ \E p \in Packages : Offer(p) \/ NewImage(p) \/ \E approved \in SUBSET p.perms : UploadInstall(p, approved)
  \/ \E v \in Versions : ApproveReview(v)
  \/ Disable \/ Enable \/ Rollback \/ Uninstall
  \/ ReviewPackage \/ FetchReviewed \/ InstallFetched
  \/ StartStep \/ Stop \/ PluginCrash

PluginsSpec == PluginsInit /\ [][PluginsNext]_pluginVars
PluginsFairness == WF_pluginVars(StartStep)
FairPluginsSpec == PluginsSpec /\ PluginsFairness

-----------------------------------------------------------------------------
(* Properties.                                                                   *)

(* A version that runs asks for nothing the owner did not grant since the last   *)
(* removal, whoever installed it and in whatever order versions were reviewed,   *)
(* rolled back and removed (manager.py:4-6, 244-258, 318-337).                   *)
NothingUngranted == plugin.active # 0 => versions[plugin.active].package.perms \subseteq granted

(* When the application serves, the file of every version that runs, that can be *)
(* rolled back to or that waits for review is the one that was registered,       *)
(* wherever a crash fell (manager.py:178, 385, 417-435).                         *)
StoreIsWhatWasRegistered ==
  phase = "up" => \A v \in Versions : Registered(v) => store[v] = versions[v].package

(* What the owner disabled or removed stays so, through starts, new images and   *)
(* updates (bundled.py:10-18, manager.py:271-274).                               *)
ChoicesStand ==
  /\ choice = "disabled" => plugin.state = "disabled"
  /\ choice = "removed" => plugin.state = "uninstalled"

(* A first run that a crash interrupted is finished by the next start: it is     *)
(* never taken for a library whose owner chose other sources (bundled.py:166).   *)
FirstRunFinishes == bundledNote.is = "skipped" => plugin.channel # "bundled"

(* What the Registry installs is what the review showed, however the Registry    *)
(* changes between the review, the fetch and the install (manager.py:350-354).   *)
ReviewedIsInstalled ==
  [][review.fetched # NoPackage /\ review'.fetched = NoPackage =>
       \A v \in Versions : versions'[v].package \in {versions[v].package, review.shown}]_pluginVars

(* Whatever the image holds and wherever starts are cut off, the library starts  *)
(* (bundled.py:19).                                                              *)
LibraryStarts == []<>(phase = "up")
=============================================================================
