---------------------------- MODULE Records_proofs ----------------------------
(* That the records of sources and of the library keep what the user decided     *)
(* (MCRecords), and that what they say of operations is true, for every set of   *)
(* packages, migrations, tabs, files, pages, searches, logins and units: of each *)
(* component an inductive invariant, why it holds at the start, and why each of  *)
(* its steps keeps it; RecordsParts_proofs has those of eight components.        *)
EXTENDS MCRecords, RecordsParts_proofs, FiniteSetTheorems, SequenceTheorems, TLAPS

-----------------------------------------------------------------------------
(* PLUGINS. What runs was granted and is what was registered (RowsInv): the row  *)
(* of the plugin and those of its versions change together, and a version goes   *)
(* into the store before its row. ChoicesAreLate says when the owner can choose: *)
(* while the library serves, which it does only after the first run was marked.  *)
(* ReviewInv adds what the Registry fetched: the package that was shown.         *)
(* The rows have the shape of the tables.                                        *)
PluginRows == [state : {"none", "active", "disabled", "pending_review", "uninstalled"},
               active : Versions \cup {0}, channel : {"none", "bundled", "upload", "registry"}]
VersionRows == [status : {"none", "active", "previous", "pending_review", "retired"},
                package : MaybePackage, approved : SUBSET Perms]
PluginShape ==
  /\ phase \in {"down", "sync", "note", "mark", "up"}
  /\ plugin \in PluginRows /\ versions \in [Versions -> VersionRows] /\ store \in [Versions -> MaybePackage]
  /\ bundled \in Packages /\ marker \in BOOLEAN
  /\ offered \in MaybePackage
  /\ review \in [shown : MaybePackage, fetched : MaybePackage]

(* The row of the plugin names the version that is active.                       *)
OneRuns ==
  /\ \A v \in Versions : versions[v].status = "active" <=> plugin.active = v
  /\ plugin.active # 0 <=> plugin.state \in {"active", "disabled"}

(* What is registered is in the store, in whatever phase.                        *)
StoreHasRegistered ==
  \A v \in Versions : Registered(v) =>
    versions[v].package \in Packages /\ versions[v].package.version = v /\ store[v] = versions[v].package

(* What runs or can be rolled back to was granted, and what was approved of it.  *)
RunnableIsGranted ==
  \A v \in Versions : versions[v].status \in {"active", "previous"} =>
    versions[v].package.perms \subseteq granted /\ versions[v].approved \subseteq granted

(* The owner chooses while the library serves, so after the first run.           *)
ChoicesAreLate ==
  /\ phase = "up" => marker = TRUE
  /\ choice \in {"disabled", "removed"} => marker = TRUE
  /\ choice = "disabled" => plugin.state = "disabled"
  /\ choice = "removed" => plugin.state = "uninstalled"
  /\ bundledNote.is = "skipped" => plugin.channel # "bundled" /\ plugin.state # "none"

RowsInv == OneRuns /\ StoreHasRegistered /\ RunnableIsGranted
PluginInv == PluginShape /\ RowsInv /\ ChoicesAreLate

USE PackagesAssumption

(* A package is of a version, and asks for permissions there are.              *)
LEMMA PackageFacts ==
  ASSUME NEW p \in Packages
  PROVE  p.version \in Versions /\ p.version # 0 /\ p.perms \subseteq Perms /\ p \in MaybePackage /\ p # NoPackage
BY DEF Versions, Perms, MaybePackage

(* No version is 0, which stands for none.                                     *)
LEMMA ZeroIsNoVersion == 0 \notin Versions
BY DEF Versions

(* What can be installed is of a version that is not registered.               *)
LEMMA InstallableIsUnregistered ==
  ASSUME NEW p \in Packages, Installable(p)
  PROVE  ~Registered(p.version)
BY DEF Installable, AlreadyInstalled, Rejected

(* A version becomes the active one.                                             *)
LEMMA ActivatedKeeps ==
  ASSUME PluginShape, RowsInv, NEW p \in Packages, NEW approved, NEW channel \in {"none", "bundled", "upload", "registry"},
         Activated(p, approved, channel), p.perms \subseteq approved,
         versions[p.version].status # "active",
         approved \cap p.perms \subseteq granted', granted \subseteq granted',
         store' = store \/ store' = [store EXCEPT ![p.version] = p], store'[p.version] = p
  PROVE  /\ RowsInv' /\ plugin' \in PluginRows /\ versions' \in [Versions -> VersionRows]
         /\ plugin'.channel = channel /\ plugin'.state = (IF plugin.state = "disabled" THEN "disabled" ELSE "active")
         /\ store' \in [Versions -> MaybePackage]
<1> USE DEF PluginShape, RowsInv
<1>p. p.version \in Versions /\ p.version # 0 /\ p.perms \subseteq Perms /\ p \in MaybePackage
  BY PackageFacts
<1> DEFINE new == [status |-> "active", package |-> p, approved |-> approved \cap p.perms]
<1>n. new \in VersionRows BY <1>p DEF VersionRows
<1>v. \A v \in Versions : versions[v] \in VersionRows OBVIOUS
<1>1. plugin' \in PluginRows /\ plugin'.active = p.version /\ plugin'.channel = channel
      /\ plugin'.state = (IF plugin.state = "disabled" THEN "disabled" ELSE "active")
  BY <1>p DEF Activated, PluginRows
<1>0. versions' = [v \in Versions |->
         IF v = p.version THEN new
         ELSE IF versions[v].status = "previous" THEN [versions[v] EXCEPT !.status = "retired"]
         ELSE IF versions[v].status = "active" THEN [versions[v] EXCEPT !.status = "previous"] ELSE versions[v]]
  BY DEF Activated
<1> HIDE DEF new
<1>2. \A v \in Versions :
        /\ v = p.version => versions'[v] = new
        /\ (v # p.version /\ versions[v].status = "previous") => versions'[v] = [versions[v] EXCEPT !.status = "retired"]
        /\ (v # p.version /\ versions[v].status = "active") => versions'[v] = [versions[v] EXCEPT !.status = "previous"]
        /\ (v # p.version /\ versions[v].status \notin {"active", "previous"}) => versions'[v] = versions[v]
  BY ONLY <1>0
<1>m. new.status = "active" /\ new.package = p /\ new.approved = approved \cap p.perms BY DEF new
<1>3. versions' = [v \in Versions |-> versions'[v]] BY ONLY <1>0
<1>4. \A v \in Versions : v # p.version =>
        /\ versions'[v] \in VersionRows /\ versions'[v].package = versions[v].package /\ versions'[v].approved = versions[v].approved
        /\ versions'[v].status # "active"
        /\ versions'[v].status \in {versions[v].status, "retired", "previous"}
        /\ versions'[v].status = "previous" => versions[v].status \in {"active", "previous"}
  <2> SUFFICES ASSUME NEW v \in Versions, v # p.version
      PROVE  /\ versions'[v] \in VersionRows /\ versions'[v].package = versions[v].package /\ versions'[v].approved = versions[v].approved
             /\ versions'[v].status # "active"
             /\ versions'[v].status \in {versions[v].status, "retired", "previous"}
             /\ versions'[v].status = "previous" => versions[v].status \in {"active", "previous"}
    OBVIOUS
  <2>1. CASE versions[v].status = "active" /\ versions'[v] = [versions[v] EXCEPT !.status = "previous"]
    BY <1>v, <2>1 DEF VersionRows
  <2>2. CASE versions[v].status \notin {"active", "previous"} /\ versions'[v] = versions[v]
    BY <1>v, <2>2 DEF VersionRows
  <2>3. CASE versions[v].status = "previous" /\ versions'[v] = [versions[v] EXCEPT !.status = "retired"]
    BY <1>v, <2>3 DEF VersionRows
  <2> QED BY <1>2, <2>1, <2>2, <2>3
<1>5. \A v \in Versions : versions'[v] \in VersionRows
  BY <1>2, <1>4, <1>n
<1>6. versions' \in [Versions -> VersionRows] BY <1>3, <1>5
<1>s. store' \in [Versions -> MaybePackage] BY <1>p
<1>7. OneRuns'
  <2>1. \A v \in Versions : versions'[v].status = "active" <=> plugin'.active = v
    BY <1>1, <1>2, <1>4, <1>m
  <2>2. plugin'.active # 0 <=> plugin'.state \in {"active", "disabled"}
    BY <1>1, <1>p
  <2> QED BY <2>1, <2>2 DEF OneRuns
<1>8. StoreHasRegistered'
  <2> SUFFICES ASSUME NEW v \in Versions, Registered(v)'
      PROVE  versions'[v].package \in Packages /\ versions'[v].package.version = v /\ store'[v] = versions'[v].package
    BY DEF StoreHasRegistered
  <2>1. CASE v = p.version BY <1>2, <1>m, <2>1
  <2>2. CASE v # p.version
    <3>1. Registered(v) BY <1>4, <2>2 DEF Registered
    <3>2. store'[v] = store[v] BY <2>2
    <3> QED BY <1>4, <2>2, <3>1, <3>2 DEF StoreHasRegistered
  <2> QED BY <2>1, <2>2
<1>9. RunnableIsGranted'
  <2> SUFFICES ASSUME NEW v \in Versions, versions'[v].status \in {"active", "previous"}
      PROVE  versions'[v].package.perms \subseteq granted' /\ versions'[v].approved \subseteq granted'
    BY DEF RunnableIsGranted
  <2>1. CASE v = p.version
    <3>1. versions'[v] = new BY <1>2, <2>1
    <3>2. p.perms \subseteq granted' OBVIOUS
    <3> QED BY <3>1, <3>2, <1>m
  <2>2. CASE v # p.version
    <3>1. versions[v].status \in {"active", "previous"} BY <1>4, <2>2
    <3> QED BY <1>4, <2>2, <3>1 DEF RunnableIsGranted
  <2> QED BY <2>1, <2>2
<1> QED BY <1>1, <1>6, <1>7, <1>8, <1>9, <1>s

(* A version waits for review beside the active one.                             *)
LEMMA AwaitsReviewKeeps ==
  ASSUME PluginShape, RowsInv, NEW p \in Packages, NEW channel \in {"bundled", "upload", "registry"},
         AwaitsReview(p, channel), ~Registered(p.version), granted \subseteq granted',
         store' = [store EXCEPT ![p.version] = p]
  PROVE  /\ RowsInv' /\ plugin' \in PluginRows /\ versions' \in [Versions -> VersionRows]
         /\ plugin'.channel \in {channel, plugin.channel}
         /\ plugin'.state # "none" /\ (plugin.state \in {"active", "disabled"} => plugin'.state = plugin.state)
         /\ store' \in [Versions -> MaybePackage]
<1> USE DEF PluginShape, RowsInv
<1>p. p.version \in Versions /\ p.version # 0 /\ p.perms \subseteq Perms /\ p \in MaybePackage
  BY PackageFacts
<1> DEFINE new == [status |-> "pending_review", package |-> p, approved |-> {}]
<1>n. new \in VersionRows BY <1>p DEF VersionRows
<1>1. plugin' \in PluginRows /\ plugin'.active = plugin.active /\ plugin'.channel \in {channel, plugin.channel}
      /\ plugin'.state = IF plugin.active # 0 THEN plugin.state ELSE "pending_review"
  BY DEF AwaitsReview, PluginRows
<1>2. versions' = [versions EXCEPT ![p.version] = new] BY DEF AwaitsReview
<1> HIDE DEF new
<1>3. versions' \in [Versions -> VersionRows] BY <1>2, <1>n
<1>4. versions'[p.version] = new /\ \A v \in Versions : v # p.version => versions'[v] = versions[v]
  BY <1>2, <1>p
<1>5. new.status = "pending_review" /\ new.package = p BY DEF new
<1>s. store' \in [Versions -> MaybePackage] BY <1>p
<1>6. versions[p.version].status # "active" BY DEF Registered
<1>7. OneRuns'
  <2>1. \A v \in Versions : versions'[v].status = "active" <=> plugin'.active = v
    BY <1>1, <1>4, <1>5, <1>6, <1>p DEF OneRuns
  <2>2. plugin'.active # 0 <=> plugin'.state \in {"active", "disabled"}
    BY <1>1 DEF OneRuns
  <2> QED BY <2>1, <2>2 DEF OneRuns
<1>8. StoreHasRegistered'
  <2> SUFFICES ASSUME NEW v \in Versions, Registered(v)'
      PROVE  versions'[v].package \in Packages /\ versions'[v].package.version = v /\ store'[v] = versions'[v].package
    BY DEF StoreHasRegistered
  <2>1. CASE v = p.version BY <1>4, <1>5, <2>1, <1>p
  <2>2. CASE v # p.version
    <3>1. Registered(v) BY <1>4, <2>2 DEF Registered
    <3>2. store'[v] = store[v] BY <2>2
    <3> QED BY <1>4, <2>2, <3>1, <3>2 DEF StoreHasRegistered
  <2> QED BY <2>1, <2>2
<1>9. RunnableIsGranted'
  BY <1>4, <1>5 DEF RunnableIsGranted
<1>10. plugin'.state # "none" /\ (plugin.state \in {"active", "disabled"} => plugin'.state = plugin.state)
  BY <1>1 DEF OneRuns, PluginRows
<1> QED BY <1>1, <1>3, <1>7, <1>8, <1>9, <1>10, <1>s

(* What the version that runs was approved for was granted.                      *)
LEMMA BaselineIsGranted ==
  ASSUME PluginShape, RowsInv
  PROVE  Baseline \subseteq granted
BY DEF PluginShape, RowsInv, Baseline, OneRuns, RunnableIsGranted, PluginRows

(* An install, whoever asks for it.                                              *)
LEMMA InstallKeeps ==
  ASSUME PluginShape, RowsInv, NEW p \in Packages, NEW approved, NEW channel \in {"bundled", "upload", "registry"},
         Install(p, approved, channel), granted \subseteq granted', approved \cap p.perms \subseteq granted'
  PROVE  /\ RowsInv' /\ plugin' \in PluginRows /\ versions' \in [Versions -> VersionRows]
         /\ store' \in [Versions -> MaybePackage]
         /\ plugin'.channel \in {channel, plugin.channel} /\ plugin'.state # "none"
         /\ (plugin.state = "disabled" => plugin'.state = "disabled")
         /\ (plugin.channel = channel => plugin'.channel = channel)
<1>1. ~Registered(p.version) BY InstallableIsUnregistered DEF Install
<1>2. store' = [store EXCEPT ![p.version] = p] BY DEF Install
<1>3. store'[p.version] = p BY <1>2, PackageFacts DEF PluginShape
<1>4. versions[p.version].status # "active" BY <1>1 DEF Registered
<1>5. CASE p.perms \subseteq Baseline \cup approved
  <2>1. Activated(p, Baseline \cup approved, channel) BY <1>5 DEF Install, Recorded
  <2>2. (Baseline \cup approved) \cap p.perms \subseteq granted' BY BaselineIsGranted
  <2>3. /\ RowsInv' /\ plugin' \in PluginRows /\ versions' \in [Versions -> VersionRows]
        /\ plugin'.channel = channel /\ plugin'.state = (IF plugin.state = "disabled" THEN "disabled" ELSE "active")
        /\ store' \in [Versions -> MaybePackage]
    BY <2>1, <2>2, <1>5, <1>4, <1>3, <1>2, ActivatedKeeps
  <2> QED BY <2>3
<1>6. CASE ~(p.perms \subseteq Baseline \cup approved)
  <2>1. AwaitsReview(p, channel) BY <1>6 DEF Install, Recorded
  <2>2. /\ RowsInv' /\ plugin' \in PluginRows /\ versions' \in [Versions -> VersionRows]
        /\ plugin'.channel \in {channel, plugin.channel}
        /\ plugin'.state # "none" /\ (plugin.state \in {"active", "disabled"} => plugin'.state = plugin.state)
        /\ store' \in [Versions -> MaybePackage]
    BY <2>1, <1>1, <1>2, AwaitsReviewKeeps
  <2> QED BY <2>2
<1> QED BY <1>5, <1>6

(* A review that ends well.                                                      *)
LEMMA ApproveKeeps ==
  ASSUME PluginShape, RowsInv, NEW v \in Versions, NEW approved, NEW channel \in {"none", "bundled", "upload", "registry"},
         Approve(v, approved, channel), UNCHANGED store, granted \subseteq granted',
         approved \cap versions[v].package.perms \subseteq granted'
  PROVE  /\ RowsInv' /\ plugin' \in PluginRows /\ versions' \in [Versions -> VersionRows]
         /\ store' \in [Versions -> MaybePackage]
         /\ plugin'.channel = channel /\ plugin'.state # "none"
         /\ (plugin.state = "disabled" => plugin'.state = "disabled")
<1>1. PICK p \in Packages : p = versions[v].package /\ p.version = v /\ store[v] = p
  BY DEF RowsInv, StoreHasRegistered, Approve, Registered
<1>2. Activated(p, Baseline \cup approved, channel) /\ p.perms \subseteq Baseline \cup approved
  BY <1>1 DEF Approve
<1>3. versions[p.version].status # "active" BY <1>1 DEF Approve
<1>4. (Baseline \cup approved) \cap p.perms \subseteq granted' BY BaselineIsGranted, <1>1
<1>5. store' = store /\ store'[p.version] = p BY <1>1
<1>6. /\ RowsInv' /\ plugin' \in PluginRows /\ versions' \in [Versions -> VersionRows]
      /\ plugin'.channel = channel /\ plugin'.state = (IF plugin.state = "disabled" THEN "disabled" ELSE "active")
      /\ store' \in [Versions -> MaybePackage]
  BY <1>2, <1>3, <1>4, <1>5, ActivatedKeeps
<1> QED BY <1>6

(* The first start finds whatever a database kept.                             *)
LEMMA PluginsInitially ==
  ASSUME PluginsInit PROVE PluginInv
<1>1. PICK own \in BOOLEAN, p \in Packages :
       /\ plugin = IF own THEN [state |-> "active", active |-> p.version, channel |-> "upload"]
                          ELSE [state |-> "none", active |-> 0, channel |-> "none"]
       /\ versions = [v \in Versions |-> IF own /\ v = p.version
                                         THEN [status |-> "active", package |-> p, approved |-> p.perms] ELSE NoVersion]
       /\ store = [v \in Versions |-> IF own /\ v = p.version THEN p ELSE NoPackage]
       /\ granted = IF own THEN p.perms ELSE {}
       /\ choice = IF own THEN "own" ELSE "none"
  BY DEF PluginsInit
<1>2. p.version \in Versions /\ p.version # 0 /\ p.perms \subseteq Perms /\ p \in MaybePackage
  BY PackageFacts
<1>3. 0 \notin Versions /\ NoPackage \in MaybePackage BY ZeroIsNoVersion DEF MaybePackage
<1>4. CASE own
  <2>1. plugin \in PluginRows /\ plugin.state = "active" /\ plugin.active = p.version
    BY <1>1, <1>2, <1>4 DEF PluginRows
  <2>2. \A v \in Versions : versions[v] = IF v = p.version THEN [status |-> "active", package |-> p, approved |-> p.perms] ELSE NoVersion
    BY <1>1, <1>4
  <2>3. versions \in [Versions -> VersionRows]
    BY <1>1, <1>2, <1>3, <1>4 DEF VersionRows, NoVersion
  <2>4. PluginShape BY <2>1, <2>3, <1>1, <1>2, <1>3, <1>4 DEF PluginShape, PluginsInit
  <2>5. OneRuns BY <2>1, <2>2, <1>2 DEF OneRuns, NoVersion
  <2>6. StoreHasRegistered BY <2>2, <1>1, <1>2, <1>4 DEF StoreHasRegistered, Registered, NoVersion
  <2>7. RunnableIsGranted BY <2>2, <1>1, <1>4 DEF RunnableIsGranted, NoVersion
  <2>8. ChoicesAreLate BY <1>1, <1>4 DEF ChoicesAreLate, PluginsInit, Nothing
  <2> QED BY <2>4, <2>5, <2>6, <2>7, <2>8 DEF PluginInv, RowsInv
<1>5. CASE ~own
  <2>1. plugin \in PluginRows /\ plugin.state = "none" /\ plugin.active = 0
    BY <1>1, <1>5 DEF PluginRows
  <2>2. \A v \in Versions : versions[v] = NoVersion
    BY <1>1, <1>5
  <2>3. versions \in [Versions -> VersionRows]
    BY <1>1, <1>3, <1>5 DEF VersionRows, NoVersion
  <2>4. PluginShape BY <2>1, <2>3, <1>1, <1>3, <1>5 DEF PluginShape, PluginsInit
  <2>5. OneRuns BY <2>1, <2>2, <1>3 DEF OneRuns, NoVersion
  <2>6. StoreHasRegistered BY <2>2 DEF StoreHasRegistered, Registered, NoVersion
  <2>7. RunnableIsGranted BY <2>2 DEF RunnableIsGranted, NoVersion
  <2>8. ChoicesAreLate BY <1>1, <1>5 DEF ChoicesAreLate, PluginsInit, Nothing
  <2> QED BY <2>4, <2>5, <2>6, <2>7, <2>8 DEF PluginInv, RowsInv
<1> QED BY <1>4, <1>5

(* What leaves the rows, the store and the grants alone leaves RowsInv.          *)
LEMMA RowsAreKept ==
  ASSUME PluginShape, RowsInv, UNCHANGED <<recordVars, store, granted>>
  PROVE  /\ RowsInv' /\ plugin' \in PluginRows /\ versions' \in [Versions -> VersionRows] /\ store' \in [Versions -> MaybePackage]
         /\ plugin' = plugin
BY DEF recordVars, PluginShape, RowsInv, OneRuns, StoreHasRegistered, RunnableIsGranted, Registered

(* Permissions that were granted stay granted.                                 *)
LEMMA GrantsGrow ==
  ASSUME NEW approved, Grants(approved)
  PROVE  granted \subseteq granted' /\ approved \subseteq granted' /\ choice' \in {"disabled", "own"}
         /\ (choice' = "disabled" => choice = "disabled")
BY DEF Grants

(* An uninstalled plugin has no version that is active or can become it.       *)
LEMMA RemovedKeeps ==
  ASSUME PluginShape, RowsInv, Removed, store' = store \/ store' = [v \in Versions |-> NoPackage]
  PROVE  /\ RowsInv' /\ plugin' \in PluginRows /\ versions' \in [Versions -> VersionRows] /\ store' \in [Versions -> MaybePackage]
         /\ plugin'.state = "uninstalled" /\ plugin'.channel = plugin.channel /\ choice' = "removed"
<1>1. \A v \in Versions : versions[v] \in VersionRows BY DEF PluginShape
<1>2. \A v \in Versions : versions'[v] = IF versions[v].status = "none" THEN NoVersion ELSE [versions[v] EXCEPT !.status = "retired"]
  BY DEF Removed
<1>3. \A v \in Versions : versions'[v] \in VersionRows /\ versions'[v].status \in {"none", "retired"}
  <2> TAKE v \in Versions
  <2>1. NoVersion \in VersionRows /\ NoVersion.status = "none" BY DEF NoVersion, VersionRows, MaybePackage
  <2>2. [versions[v] EXCEPT !.status = "retired"] \in VersionRows /\ [versions[v] EXCEPT !.status = "retired"].status = "retired"
    BY <1>1 DEF VersionRows
  <2> QED BY <1>2, <2>1, <2>2
<1>4. versions' \in [Versions -> VersionRows]
  <2>1. versions' = [v \in Versions |-> versions'[v]] BY DEF Removed
  <2> QED BY <2>1, <1>3
<1>5. plugin' \in PluginRows /\ plugin'.state = "uninstalled" /\ plugin'.active = 0 /\ plugin'.channel = plugin.channel
  BY DEF Removed, PluginShape, PluginRows
<1>6. store' \in [Versions -> MaybePackage] BY DEF PluginShape, MaybePackage
<1>7. OneRuns' BY <1>3, <1>5, ZeroIsNoVersion DEF OneRuns
<1>8. StoreHasRegistered' BY <1>3 DEF StoreHasRegistered, Registered
<1>9. RunnableIsGranted' BY <1>3 DEF RunnableIsGranted
<1> QED BY <1>4, <1>5, <1>6, <1>7, <1>8, <1>9 DEF RowsInv, Removed

(* What is not of the rows, of a step that keeps them.                           *)
LEMMA PluginInvOf ==
  ASSUME PluginInv, RowsInv', plugin' \in PluginRows, versions' \in [Versions -> VersionRows], store' \in [Versions -> MaybePackage],
         phase' \in {"down", "sync", "note", "mark", "up"}, bundled' \in Packages, marker' \in BOOLEAN, offered' \in MaybePackage,
         review' \in [shown : MaybePackage, fetched : MaybePackage], ChoicesAreLate'
  PROVE  PluginInv'
BY DEF PluginInv, PluginShape

(* The owner installs, approves, disables, enables, rolls back, uninstalls.    *)
LEMMA OwnersSteps ==
  ASSUME PluginInv,
         \/ \E p \in Packages : \E approved \in SUBSET p.perms : UploadInstall(p, approved)
         \/ \E v \in Versions : ApproveReview(v)
         \/ Disable \/ Enable \/ Rollback \/ Uninstall
  PROVE  PluginInv'
<1> USE DEF PluginInv
<1>s. phase = "up" /\ phase' = phase /\ bundled' = bundled /\ marker' = marker /\ bundledNote' = bundledNote
      /\ offered' = offered /\ review' = review
  BY DEF UploadInstall, ApproveReview, Disable, Enable, Rollback, Uninstall, imageVars, registryVars
<1>m. marker = TRUE BY <1>s DEF ChoicesAreLate
<1>q. ASSUME RowsInv', plugin' \in PluginRows, versions' \in [Versions -> VersionRows], store' \in [Versions -> MaybePackage],
             choice' = "disabled" => plugin'.state = "disabled", choice' = "removed" => plugin'.state = "uninstalled",
             plugin'.channel \in {plugin.channel, "upload"}, plugin'.state # "none"
      PROVE  PluginInv'
  <2>1. ChoicesAreLate' BY <1>q, <1>s, <1>m DEF ChoicesAreLate
  <2> QED BY <1>q, <1>s, <2>1, PluginInvOf DEF PluginShape
<1>1. ASSUME NEW p \in Packages, NEW approved \in SUBSET p.perms, UploadInstall(p, approved) PROVE PluginInv'
  <2>1. Install(p, approved, "upload") /\ Grants(approved) BY <1>1 DEF UploadInstall
  <2>2. approved \cap p.perms \subseteq granted' /\ granted \subseteq granted' BY <2>1, GrantsGrow
  <2>3. /\ RowsInv' /\ plugin' \in PluginRows /\ versions' \in [Versions -> VersionRows]
        /\ store' \in [Versions -> MaybePackage]
        /\ plugin'.channel \in {"upload", plugin.channel} /\ plugin'.state # "none"
        /\ (plugin.state = "disabled" => plugin'.state = "disabled")
    BY <2>1, <2>2, InstallKeeps
  <2>4. choice' \in {"disabled", "own"} /\ (choice' = "disabled" => choice = "disabled") BY <2>1, GrantsGrow
  <2> QED BY <1>q, <2>3, <2>4 DEF ChoicesAreLate
<1>2. ASSUME NEW v \in Versions, ApproveReview(v) PROVE PluginInv'
  <2>1. Approve(v, versions[v].package.perms, plugin.channel) /\ Grants(versions[v].package.perms) /\ UNCHANGED store
    BY <1>2 DEF ApproveReview
  <2>2. versions[v].package.perms \cap versions[v].package.perms \subseteq granted' /\ granted \subseteq granted'
    BY <2>1, GrantsGrow
  <2>c. plugin.channel \in {"none", "bundled", "upload", "registry"} BY DEF PluginShape, PluginRows
  <2>3. /\ RowsInv' /\ plugin' \in PluginRows /\ versions' \in [Versions -> VersionRows]
        /\ store' \in [Versions -> MaybePackage]
        /\ plugin'.channel = plugin.channel /\ plugin'.state # "none"
        /\ (plugin.state = "disabled" => plugin'.state = "disabled")
    BY <2>1, <2>2, <2>c, ApproveKeeps
  <2>4. choice' \in {"disabled", "own"} /\ (choice' = "disabled" => choice = "disabled") BY <2>1, GrantsGrow
  <2> QED BY <1>q, <2>3, <2>4 DEF ChoicesAreLate
<1>3. CASE Disable \/ Enable
  <2>1. PICK new \in {"disabled", "active"} : plugin' = [plugin EXCEPT !.state = new] /\ choice' = (IF new = "disabled" THEN "disabled" ELSE "own")
    BY <1>3 DEF Disable, Enable
  <2>2. plugin' \in PluginRows /\ plugin'.state = new /\ plugin'.active = plugin.active /\ plugin'.channel = plugin.channel
    BY <2>1 DEF PluginShape, PluginRows
  <2>3. versions' = versions /\ store' = store /\ granted' = granted BY <1>3 DEF Disable, Enable
  <2>4. plugin.active # 0 BY <1>3 DEF Disable, Enable, RowsInv, OneRuns
  <2>5. OneRuns' BY <2>2, <2>3, <2>4 DEF RowsInv, OneRuns
  <2>6. StoreHasRegistered' /\ RunnableIsGranted' BY <2>3 DEF RowsInv, StoreHasRegistered, RunnableIsGranted, Registered
  <2>7. versions' \in [Versions -> VersionRows] /\ store' \in [Versions -> MaybePackage] BY <2>3 DEF PluginShape
  <2>8. choice' = "disabled" => plugin'.state = "disabled" BY <2>1, <2>2
  <2>9. choice' # "removed" BY <2>1
  <2> QED BY <1>q, <2>2, <2>5, <2>6, <2>7, <2>8, <2>9 DEF RowsInv
<1>4. CASE Rollback
  <2>1. PICK v \in Versions :
          /\ versions[v].status = "previous" /\ store[v] = versions[v].package
          /\ versions' = [versions EXCEPT ![plugin.active].status = "previous", ![v].status = "active"]
          /\ plugin' = [plugin EXCEPT !.state = "active", !.active = v]
    BY <1>4 DEF Rollback
  <2>2. plugin' \in PluginRows /\ plugin'.state = "active" /\ plugin'.active = v /\ plugin'.channel = plugin.channel
    BY <2>1 DEF PluginShape, PluginRows
  <2>3. store' = store /\ granted' = granted /\ choice' = "own" BY <1>4 DEF Rollback
  <2>4. PICK a \in Versions : plugin.active = a /\ versions[a].status = "active"
    BY <1>4 DEF Rollback, PluginShape, PluginRows, RowsInv, OneRuns
  <2>5. a # v BY <2>1, <2>4
  <2>6. /\ versions'[a] = [versions[a] EXCEPT !.status = "previous"] /\ versions'[v] = [versions[v] EXCEPT !.status = "active"]
        /\ \A w \in Versions : w \notin {a, v} => versions'[w] = versions[w]
        /\ versions' = [w \in Versions |-> versions'[w]]
    BY <2>1, <2>4, <2>5 DEF PluginShape
  <2>7. \A w \in Versions : /\ versions'[w] \in VersionRows
                            /\ versions'[w].package = versions[w].package /\ versions'[w].approved = versions[w].approved
                            /\ (w = a => versions'[w].status = "previous") /\ (w = v => versions'[w].status = "active")
    <3>1. \A w \in Versions : versions[w] \in VersionRows BY DEF PluginShape
    <3> TAKE w \in Versions
    <3>2. CASE w = a BY <3>1, <3>2, <2>6, <2>5 DEF VersionRows
    <3>3. CASE w = v BY <3>1, <3>3, <2>6, <2>5 DEF VersionRows
    <3>4. CASE w \notin {a, v} BY <3>1, <3>4, <2>6
    <3> QED BY <3>2, <3>3, <3>4
  <2>8. versions' \in [Versions -> VersionRows] BY <2>6, <2>7
  <2>9. store' \in [Versions -> MaybePackage] BY <2>3 DEF PluginShape
  <2>10. \A w \in Versions : versions[w].status = "active" => w = a BY <2>4 DEF RowsInv, OneRuns
  <2>11. OneRuns'
    <3>1. \A w \in Versions : versions'[w].status = "active" <=> w = v BY <2>6, <2>7, <2>10, <2>5
    <3> QED BY <3>1, <2>2, ZeroIsNoVersion DEF OneRuns
  <2>12. StoreHasRegistered'
    <3>1. \A w \in Versions : Registered(w)' => Registered(w) BY <2>1, <2>4, <2>6 DEF Registered
    <3> QED BY <3>1, <2>7, <2>3 DEF RowsInv, StoreHasRegistered
  <2>13. RunnableIsGranted'
    <3>1. \A w \in Versions : versions'[w].status \in {"active", "previous"} => versions[w].status \in {"active", "previous"}
      BY <2>1, <2>4, <2>6
    <3> QED BY <3>1, <2>7, <2>3 DEF RowsInv, RunnableIsGranted
  <2> QED BY <1>q, <2>2, <2>3, <2>8, <2>9, <2>11, <2>12, <2>13 DEF RowsInv
<1>5. CASE Uninstall
  <2>1. Removed /\ store' = [v \in Versions |-> NoPackage] BY <1>5 DEF Uninstall
  <2>2. /\ RowsInv' /\ plugin' \in PluginRows /\ versions' \in [Versions -> VersionRows] /\ store' \in [Versions -> MaybePackage]
        /\ plugin'.state = "uninstalled" /\ plugin'.channel = plugin.channel /\ choice' = "removed"
    BY <2>1, RemovedKeeps
  <2> QED BY <1>q, <2>2
<1> QED BY <1>1, <1>2, <1>3, <1>4, <1>5

(* The Registry offers a package; it is reviewed, fetched and installed.       *)
LEMMA RegistrySteps ==
  ASSUME PluginInv,
         \/ \E p \in Packages : Offer(p) \/ NewImage(p)
         \/ ReviewPackage \/ FetchReviewed \/ InstallFetched
  PROVE  PluginInv'
<1> USE DEF PluginInv
<1>t. NoPackage \in MaybePackage /\ offered \in MaybePackage /\ \A p \in Packages : p \in MaybePackage
  BY DEF PluginShape, MaybePackage
<1>r. review.shown \in MaybePackage /\ review.fetched \in MaybePackage BY DEF PluginShape
<1>1. CASE InstallFetched
  <2> DEFINE p == review.fetched
             approved == review.shown.perms
  <2>0. p \in Packages BY <1>1, <1>r DEF InstallFetched, MaybePackage
  <2>s. phase = "up" /\ phase' = phase /\ bundled' = bundled /\ marker' = marker /\ bundledNote' = bundledNote
        /\ offered' = offered /\ review' = [shown |-> NoPackage, fetched |-> NoPackage]
    BY <1>1 DEF InstallFetched, imageVars
  <2>m. marker = TRUE BY <2>s DEF ChoicesAreLate
  <2>q. ASSUME RowsInv', plugin' \in PluginRows, versions' \in [Versions -> VersionRows], store' \in [Versions -> MaybePackage],
               choice' = "disabled" => plugin'.state = "disabled", choice' = "removed" => plugin'.state = "uninstalled",
               plugin'.channel \in {plugin.channel, "registry"}, plugin.state # "none" => plugin'.state # "none"
        PROVE  PluginInv'
    <3>1. ChoicesAreLate' BY <2>q, <2>s, <2>m DEF ChoicesAreLate
    <3> QED BY <2>q, <2>s, <3>1, <1>t, PluginInvOf DEF PluginShape
  <2>1. CASE Install(p, approved, "registry") /\ Grants(approved)
    <3>2. approved \cap p.perms \subseteq granted' /\ granted \subseteq granted' BY <2>1, GrantsGrow
    <3>3. /\ RowsInv' /\ plugin' \in PluginRows /\ versions' \in [Versions -> VersionRows]
          /\ store' \in [Versions -> MaybePackage]
          /\ plugin'.channel \in {"registry", plugin.channel} /\ plugin'.state # "none"
          /\ (plugin.state = "disabled" => plugin'.state = "disabled")
      BY <2>0, <2>1, <3>2, InstallKeeps
    <3>4. choice' \in {"disabled", "own"} /\ (choice' = "disabled" => choice = "disabled") BY <2>1, GrantsGrow
    <3> QED BY <2>q, <3>3, <3>4 DEF ChoicesAreLate
  <2>2. CASE /\ AlreadyInstalled(p) /\ versions[p.version].status = "pending_review"
             /\ Approve(p.version, approved, plugin.channel) /\ Grants(approved) /\ UNCHANGED store
    <3>1. p.version \in Versions BY <2>0, PackageFacts
    <3>2. approved \cap versions[p.version].package.perms \subseteq granted' /\ granted \subseteq granted' BY <2>2, GrantsGrow
    <3>c. plugin.channel \in {"none", "bundled", "upload", "registry"} BY DEF PluginShape, PluginRows
    <3>3. /\ RowsInv' /\ plugin' \in PluginRows /\ versions' \in [Versions -> VersionRows]
          /\ store' \in [Versions -> MaybePackage]
          /\ plugin'.channel = plugin.channel /\ plugin'.state # "none"
          /\ (plugin.state = "disabled" => plugin'.state = "disabled")
      BY <2>2, <3>1, <3>2, <3>c, ApproveKeeps
    <3>4. choice' \in {"disabled", "own"} /\ (choice' = "disabled" => choice = "disabled") BY <2>2, GrantsGrow
    <3> QED BY <2>q, <3>3, <3>4 DEF ChoicesAreLate
  <2>3. CASE UNCHANGED <<recordVars, store, ownerVars>>
    <3>1. plugin' = plugin /\ choice' = choice /\ granted' = granted BY <2>3 DEF recordVars, ownerVars
    <3>2. /\ RowsInv' /\ plugin' \in PluginRows /\ versions' \in [Versions -> VersionRows] /\ store' \in [Versions -> MaybePackage]
      BY <2>3, <3>1, RowsAreKept
    <3> QED BY <2>q, <3>1, <3>2 DEF ChoicesAreLate
  <2> QED BY <1>1, <2>1, <2>2, <2>3 DEF InstallFetched
<1>2. CASE (\E p \in Packages : Offer(p) \/ NewImage(p)) \/ ReviewPackage \/ FetchReviewed
  <2>1. UNCHANGED <<recordVars, store, ownerVars>> /\ phase' = phase /\ marker' = marker /\ bundledNote' = bundledNote
    BY <1>2 DEF Offer, NewImage, ReviewPackage, FetchReviewed, imageVars
  <2>2. bundled' \in Packages /\ offered' \in MaybePackage
    BY <1>2, <1>t DEF Offer, NewImage, ReviewPackage, FetchReviewed, imageVars, registryVars, PluginShape
  <2>3. review' \in [shown : MaybePackage, fetched : MaybePackage]
    BY <1>2, <1>t, <1>r DEF Offer, NewImage, ReviewPackage, FetchReviewed, registryVars, PluginShape
  <2>4. plugin' = plugin /\ choice' = choice /\ granted' = granted BY <2>1 DEF recordVars, ownerVars
  <2>5. /\ RowsInv' /\ plugin' \in PluginRows /\ versions' \in [Versions -> VersionRows] /\ store' \in [Versions -> MaybePackage]
    BY <2>1, <2>4, RowsAreKept
  <2>6. ChoicesAreLate' BY <2>1, <2>4 DEF ChoicesAreLate
  <2> QED BY <2>1, <2>2, <2>3, <2>5, <2>6, PluginInvOf DEF PluginShape
<1> QED BY <1>1, <1>2

(* What the first run, or its repetition, makes of the rows.                     *)
LEMMA FirstInstallKeeps ==
  ASSUME PluginInv, FirstInstall, plugin.channel = "bundled" \/ plugin.state = "none"
  PROVE  /\ RowsInv' /\ plugin' \in PluginRows /\ versions' \in [Versions -> VersionRows] /\ store' \in [Versions -> MaybePackage]
         /\ choice' = choice /\ (plugin.state = "disabled" => plugin'.state = "disabled")
<1> USE DEF PluginInv
<1>b. bundled \in Packages BY DEF PluginShape
<1>1. CASE Install(bundled, bundled.perms, "bundled") /\ granted' = granted \cup bundled.perms /\ choice' = choice
  <2>1. bundled.perms \cap bundled.perms \subseteq granted' /\ granted \subseteq granted' BY <1>1
  <2>2. /\ RowsInv' /\ plugin' \in PluginRows /\ versions' \in [Versions -> VersionRows]
        /\ store' \in [Versions -> MaybePackage]
        /\ (plugin.state = "disabled" => plugin'.state = "disabled")
    BY <1>1, <1>b, <2>1, InstallKeeps
  <2> QED BY <2>2, <1>1
<1>2. CASE UNCHANGED <<recordVars, store, ownerVars>>
  <2>1. plugin' = plugin /\ choice' = choice /\ granted' = granted BY <1>2 DEF recordVars, ownerVars
  <2>2. /\ RowsInv' /\ plugin' \in PluginRows /\ versions' \in [Versions -> VersionRows] /\ store' \in [Versions -> MaybePackage]
    BY <1>2, <2>1, RowsAreKept
  <2> QED BY <2>1, <2>2
<1> QED BY <1>1, <1>2 DEF FirstInstall

(* The steps of a start: synchronise, note, mark.                              *)
LEMMA StartSteps ==
  ASSUME PluginInv, StartStep
  PROVE  PluginInv'
<1> USE DEF PluginInv
<1>b. bundled \in Packages BY DEF PluginShape
\* steps that leave the rows and the store alone
<1>q. ASSUME UNCHANGED <<recordVars, store, ownerVars>>, phase' \in {"down", "sync", "note", "mark", "up"}, bundled' = bundled,
             UNCHANGED registryVars, marker' \in BOOLEAN, marker = TRUE => marker' = TRUE, phase' = "up" => marker' = TRUE,
             bundledNote'.is = "skipped" => plugin.channel # "bundled" /\ plugin.state # "none"
      PROVE  PluginInv'
  <2>1. plugin' = plugin /\ choice' = choice /\ granted' = granted /\ offered' = offered /\ review' = review
    BY <1>q DEF recordVars, ownerVars, registryVars
  <2>2. /\ RowsInv' /\ plugin' \in PluginRows /\ versions' \in [Versions -> VersionRows] /\ store' \in [Versions -> MaybePackage]
    BY <1>q, <2>1, RowsAreKept
  <2>3. ChoicesAreLate' BY <1>q, <2>1 DEF ChoicesAreLate
  <2> QED BY <1>q, <1>b, <2>1, <2>2, <2>3, PluginInvOf DEF PluginShape
\* steps that leave the note and the marker alone
<1>r. ASSUME RowsInv', plugin' \in PluginRows, versions' \in [Versions -> VersionRows], store' \in [Versions -> MaybePackage],
             phase' \in {"sync", "note"}, marker' = marker, bundledNote' = bundledNote, bundled' = bundled, UNCHANGED registryVars,
             choice' = choice, choice = "disabled" => plugin'.state = "disabled", choice = "removed" => plugin'.state = "uninstalled",
             bundledNote.is = "skipped" => plugin'.channel # "bundled" /\ plugin'.state # "none"
      PROVE  PluginInv'
  <2>1. ChoicesAreLate' BY <1>r DEF ChoicesAreLate
  <2>2. offered' = offered /\ review' = review BY <1>r DEF registryVars
  <2> QED BY <1>r, <1>b, <2>1, <2>2, PluginInvOf DEF PluginShape
<1>1. CASE ReconcileStore
  <2>1. plugin' = plugin /\ versions' = versions /\ granted' = granted /\ choice' = choice /\ marker' = marker
        /\ bundled' = bundled /\ bundledNote' = bundledNote /\ phase' = "sync" /\ UNCHANGED registryVars
    BY <1>1 DEF ReconcileStore, recordVars, ownerVars, imageVars
  <2>2. \A v \in Versions : (Registered(v) => store'[v] = store[v]) /\ store'[v] \in MaybePackage
    BY <1>1 DEF ReconcileStore, PluginShape, MaybePackage
  <2>3. store' \in [Versions -> MaybePackage] BY <1>1, <2>2 DEF ReconcileStore, PluginShape, MaybePackage
  <2>4. RowsInv' BY <2>1, <2>2 DEF RowsInv, OneRuns, StoreHasRegistered, RunnableIsGranted, Registered
  <2> QED BY <1>r, <2>1, <2>3, <2>4 DEF PluginShape, ChoicesAreLate
<1>2. CASE Skip
  <2>1. plugin.channel # "bundled" /\ plugin.state # "none" BY <1>2 DEF Skip, Owned
  <2> QED BY <1>2, <1>q, <2>1 DEF Skip, SyncDone, PluginShape
<1>3. CASE Bootstrap
  <2>1. plugin.channel = "bundled" \/ plugin.state = "none" BY <1>3 DEF Bootstrap, Owned
  <2>2. /\ RowsInv' /\ plugin' \in PluginRows /\ versions' \in [Versions -> VersionRows] /\ store' \in [Versions -> MaybePackage]
        /\ choice' = choice /\ (plugin.state = "disabled" => plugin'.state = "disabled")
    BY <1>3, <2>1, FirstInstallKeeps DEF Bootstrap
  <2>3. marker # TRUE /\ phase' = "note" /\ marker' = marker /\ bundledNote' = bundledNote /\ bundled' = bundled /\ UNCHANGED registryVars
    BY <1>3 DEF Bootstrap, SyncDone
  <2>4. choice # "disabled" /\ choice # "removed" BY <2>3 DEF ChoicesAreLate
  <2>5. bundledNote.is # "skipped" BY <2>1 DEF ChoicesAreLate
  <2> QED BY <1>r, <2>2, <2>3, <2>4, <2>5
<1>4. CASE Maintain
  <2>1. phase' = "note" /\ marker' = marker /\ bundledNote' = bundledNote /\ bundled' = bundled /\ UNCHANGED registryVars
    BY <1>4 DEF Maintain, SyncDone
  <2>2. CASE MayUpdate /\ Install(bundled, {}, "bundled") /\ UNCHANGED ownerVars
    <3>1. granted' = granted /\ choice' = choice BY <2>2 DEF ownerVars
    <3>2. {} \cap bundled.perms \subseteq granted' /\ granted \subseteq granted' BY <3>1
    <3>3. /\ RowsInv' /\ plugin' \in PluginRows /\ versions' \in [Versions -> VersionRows] /\ store' \in [Versions -> MaybePackage]
      BY <2>2, <1>b, <3>2, InstallKeeps
    <3>4. plugin.state = "active" /\ plugin.channel = "bundled" BY <2>2 DEF MayUpdate
    <3>5. choice # "disabled" /\ choice # "removed" /\ bundledNote.is # "skipped" BY <3>4 DEF ChoicesAreLate
    <3> QED BY <1>r, <2>1, <3>1, <3>3, <3>5
  <2>3. CASE MayUpdate /\ AlreadyInstalled(bundled) /\ UNCHANGED <<recordVars, store, ownerVars>>
    <3>1. plugin.channel = "bundled" BY <2>3 DEF MayUpdate
    <3>2. bundledNote.is # "skipped" BY <3>1 DEF ChoicesAreLate
    <3> QED BY <1>q, <2>1, <2>3, <3>2 DEF PluginShape
  <2>4. CASE MayRetry /\ FirstInstall
    <3>1. plugin.state = "none" /\ bundledNote.is = "failed" BY <2>4 DEF MayRetry
    <3>2. choice # "disabled" /\ choice # "removed" BY <3>1 DEF ChoicesAreLate
    <3>3. /\ RowsInv' /\ plugin' \in PluginRows /\ versions' \in [Versions -> VersionRows] /\ store' \in [Versions -> MaybePackage]
          /\ choice' = choice
      BY <2>4, <3>1, FirstInstallKeeps
    <3>4. bundledNote.is # "skipped" BY <3>1
    <3> QED BY <1>r, <2>1, <3>2, <3>3, <3>4
  <2> QED BY <1>4, <2>2, <2>3, <2>4 DEF Maintain
<1>5. CASE LeaveAlone
  <2>1. marker = TRUE BY <1>5 DEF LeaveAlone, PluginShape
  <2> QED BY <1>5, <1>q, <2>1 DEF LeaveAlone, SyncDone, ChoicesAreLate, PluginShape
<1>6. CASE BundledRejected
  <2>1. bundledNote'.is = "failed" BY <1>6 DEF BundledRejected, Ends
  <2> QED BY <1>6, <1>q, <2>1 DEF BundledRejected, SyncDone, PluginShape
<1>7. CASE NoteInstalled
  <2>1. bundledNote'.is = "installed" BY <1>7 DEF NoteInstalled, Ends
  <2> QED BY <1>7, <1>q, <2>1 DEF NoteInstalled, SyncDone, PluginShape
<1>8. CASE SetMarker
  BY <1>8, <1>q DEF SetMarker, ChoicesAreLate
<1> QED BY <1>1, <1>2, <1>3, <1>4, <1>5, <1>6, <1>7, <1>8 DEF StartStep

(* The library stops, or crashes in the middle of an install.                  *)
LEMMA StopsAndCrashes ==
  ASSUME PluginInv, Stop \/ PluginCrash
  PROVE  PluginInv'
<1> USE DEF PluginInv
<1>s. phase' = "down" /\ bundled' = bundled /\ marker' = marker /\ bundledNote' = bundledNote /\ offered' = offered
      /\ review' = [shown |-> NoPackage, fetched |-> NoPackage]
  BY DEF Stop, PluginCrash, Down, imageVars
<1>t. NoPackage \in MaybePackage BY DEF MaybePackage
<1>q. ASSUME RowsInv', plugin' \in PluginRows, versions' \in [Versions -> VersionRows], store' \in [Versions -> MaybePackage], ChoicesAreLate'
      PROVE  PluginInv'
  BY <1>q, <1>s, <1>t, PluginInvOf DEF PluginShape
<1>1. CASE UNCHANGED <<recordVars, store, ownerVars>>
  <2>1. plugin' = plugin /\ choice' = choice /\ granted' = granted BY <1>1 DEF recordVars, ownerVars
  <2>2. /\ RowsInv' /\ plugin' \in PluginRows /\ versions' \in [Versions -> VersionRows] /\ store' \in [Versions -> MaybePackage]
    BY <1>1, <2>1, RowsAreKept
  <2>3. ChoicesAreLate' BY <2>1, <1>s DEF ChoicesAreLate
  <2> QED BY <1>q, <2>2, <2>3
<1>2. ASSUME NEW p \in Packages, Installable(p), store' = [store EXCEPT ![p.version] = p], UNCHANGED <<recordVars, ownerVars>>
      PROVE  PluginInv'
  <2>1. plugin' = plugin /\ versions' = versions /\ choice' = choice /\ granted' = granted BY <1>2 DEF recordVars, ownerVars
  <2>2. ~Registered(p.version) BY <1>2, InstallableIsUnregistered
  <2>3. \A v \in Versions : Registered(v) => store'[v] = store[v] BY <1>2, <2>2
  <2>4. store' \in [Versions -> MaybePackage] BY <1>2, PackageFacts DEF PluginShape
  <2>5. RowsInv' BY <2>1, <2>3 DEF RowsInv, OneRuns, StoreHasRegistered, RunnableIsGranted, Registered
  <2>6. ChoicesAreLate' BY <2>1, <1>s DEF ChoicesAreLate
  <2> QED BY <1>q, <2>1, <2>4, <2>5, <2>6 DEF PluginShape
<1>3. CASE phase = "up" /\ plugin.state # "none" /\ Removed /\ UNCHANGED store
  <2>1. /\ RowsInv' /\ plugin' \in PluginRows /\ versions' \in [Versions -> VersionRows] /\ store' \in [Versions -> MaybePackage]
        /\ plugin'.state = "uninstalled" /\ plugin'.channel = plugin.channel /\ choice' = "removed"
    BY <1>3, RemovedKeeps
  <2>2. ChoicesAreLate' BY <2>1, <1>s, <1>3 DEF ChoicesAreLate
  <2> QED BY <1>q, <2>1, <2>2
<1> QED BY <1>1, <1>2, <1>3 DEF Stop, PluginCrash

(* Every step of the plugins.                                                  *)
LEMMA PluginsStep ==
  ASSUME PluginInv, [PluginsNext]_pluginVars
  PROVE  PluginInv'
<1>1. CASE UNCHANGED pluginVars
  BY <1>1 DEF pluginVars, recordVars, imageVars, registryVars, ownerVars, PluginInv, PluginShape, RowsInv, OneRuns,
     StoreHasRegistered, RunnableIsGranted, ChoicesAreLate, Registered
<1>2. CASE PluginsNext
  BY <1>2, OwnersSteps, RegistrySteps, StartSteps, StopsAndCrashes DEF PluginsNext
<1> QED BY <1>1, <1>2

(* What the invariant says of the properties.                                  *)
LEMMA PluginInvShows ==
  ASSUME PluginInv
  PROVE  NothingUngranted /\ StoreIsWhatWasRegistered /\ ChoicesStand /\ FirstRunFinishes
<1> USE DEF PluginInv, RowsInv
<1>1. NothingUngranted
  BY DEF NothingUngranted, PluginShape, PluginRows, OneRuns, RunnableIsGranted
<1>2. StoreIsWhatWasRegistered BY DEF StoreIsWhatWasRegistered, StoreHasRegistered
<1>3. ChoicesStand /\ FirstRunFinishes BY DEF ChoicesStand, FirstRunFinishes, ChoicesAreLate
<1> QED BY <1>1, <1>2, <1>3

(* What the Registry installs is what was reviewed.                              *)
ReviewBinds == review.fetched # NoPackage => review.fetched = review.shown

(* A version there is nothing of has no package.                                 *)
UnknownIsEmpty == \A v \in Versions : versions[v].status = "none" => versions[v].package = NoPackage

ReviewInv == PluginInv /\ ReviewBinds /\ UnknownIsEmpty

(* Nothing is reviewed at the start.                                           *)
LEMMA ReviewInitially == ASSUME PluginsInit PROVE ReviewInv
<1>1. PluginInv BY PluginsInitially
<1>2. ReviewBinds BY DEF PluginsInit, ReviewBinds
<1>3. UnknownIsEmpty BY DEF PluginsInit, UnknownIsEmpty, NoVersion
<1> QED BY <1>1, <1>2, <1>3 DEF ReviewInv

(* The package of another version than the one that is recorded stays.           *)
LEMMA ActivatedPackages ==
  ASSUME PluginShape, NEW p \in Packages, NEW approved, NEW channel, Activated(p, approved, channel)
  PROVE  \A v \in Versions :
           /\ v = p.version => versions'[v].package = p /\ versions'[v].status # "none"
           /\ v # p.version => versions'[v].package = versions[v].package /\ (versions'[v].status = "none" => versions[v].status = "none")
<1> DEFINE new == [status |-> "active", package |-> p, approved |-> approved \cap p.perms]
<1>0. versions' = [v \in Versions |->
         IF v = p.version THEN new
         ELSE IF versions[v].status = "previous" THEN [versions[v] EXCEPT !.status = "retired"]
         ELSE IF versions[v].status = "active" THEN [versions[v] EXCEPT !.status = "previous"] ELSE versions[v]]
  BY DEF Activated
<1>1. new.package = p /\ new.status = "active" OBVIOUS
<1> HIDE DEF new
<1> TAKE v \in Versions
<1>2. versions[v] \in VersionRows BY DEF PluginShape
<1>3. CASE v = p.version BY <1>0, <1>1, <1>3
<1>4. CASE v # p.version /\ versions[v].status = "previous"
  <2>1. versions'[v] = [versions[v] EXCEPT !.status = "retired"] BY ONLY <1>0, <1>4
  <2> QED BY <2>1, <1>2, <1>4 DEF VersionRows
<1>5. CASE v # p.version /\ versions[v].status = "active"
  <2>1. versions'[v] = [versions[v] EXCEPT !.status = "previous"] BY ONLY <1>0, <1>5
  <2> QED BY <2>1, <1>2, <1>5 DEF VersionRows
<1>6. CASE v # p.version /\ versions[v].status \notin {"active", "previous"}
  <2>1. versions'[v] = versions[v] BY ONLY <1>0, <1>6
  <2> QED BY <2>1, <1>6
<1> QED BY <1>3, <1>4, <1>5, <1>6

(* Of an install or an approval, the package it is of may be a new one.          *)
LEMMA InstallPackages ==
  ASSUME PluginShape, NEW p \in Packages, NEW approved, NEW channel, Install(p, approved, channel)
  PROVE  \A v \in Versions :
           /\ v = p.version => versions'[v].package = p /\ versions'[v].status # "none"
           /\ v # p.version => versions'[v].package = versions[v].package /\ (versions'[v].status = "none" => versions[v].status = "none")
<1>1. CASE Activated(p, Baseline \cup approved, channel) BY <1>1, ActivatedPackages
<1>2. CASE AwaitsReview(p, channel) BY <1>2, PackageFacts DEF AwaitsReview, PluginShape
<1> QED BY <1>1, <1>2 DEF Install, Recorded

(* An approval changes no package.                                             *)
LEMMA ApprovePackages ==
  ASSUME PluginInv, NEW w \in Versions, NEW approved, NEW channel, Approve(w, approved, channel)
  PROVE  \A v \in Versions :
           versions'[v].package = versions[v].package /\ (versions'[v].status = "none" => versions[v].status = "none")
<1>1. PICK p \in Packages : p = versions[w].package /\ p.version = w
  BY DEF PluginInv, RowsInv, StoreHasRegistered, Approve, Registered
<1>2. Activated(p, Baseline \cup approved, channel) BY <1>1 DEF Approve
<1> QED BY <1>1, <1>2, ActivatedPackages DEF PluginInv

(* Neither does a removal.                                                     *)
LEMMA RemovedPackages ==
  ASSUME PluginShape, UnknownIsEmpty, Removed
  PROVE  \A v \in Versions :
           versions'[v].package = versions[v].package /\ (versions'[v].status = "none" => versions[v].status = "none")
<1> TAKE v \in Versions
<1>1. versions[v] \in VersionRows BY DEF PluginShape
<1>2. versions'[v] = IF versions[v].status = "none" THEN NoVersion ELSE [versions[v] EXCEPT !.status = "retired"]
  BY DEF Removed
<1>3. CASE versions[v].status = "none" BY <1>2, <1>3 DEF UnknownIsEmpty, NoVersion
<1>4. CASE versions[v].status # "none"
  <2>1. versions'[v] = [versions[v] EXCEPT !.status = "retired"] BY <1>2, <1>4
  <2> QED BY <2>1, <1>1, <1>4 DEF VersionRows
<1> QED BY <1>3, <1>4

(* Only an install changes the package of a version, and the Registry's installs *)
(* what was reviewed.                                                            *)
LEMMA PackagesStep ==
  ASSUME ReviewInv, PluginsNext
  PROVE  /\ UnknownIsEmpty' /\ ReviewBinds'
         /\ (review.fetched # NoPackage /\ review'.fetched = NoPackage =>
               \A v \in Versions : versions'[v].package \in {versions[v].package, review.shown})
<1> USE DEF ReviewInv
<1>e. ASSUME \A v \in Versions : versions'[v].package = versions[v].package /\ (versions'[v].status = "none" => versions[v].status = "none")
      PROVE  UnknownIsEmpty' /\ \A v \in Versions : versions'[v].package \in {versions[v].package, review.shown}
  BY <1>e DEF UnknownIsEmpty
<1>i. ASSUME NEW p \in Packages, NEW approved, NEW channel, Install(p, approved, channel)
      PROVE  UnknownIsEmpty' /\ \A v \in Versions : versions'[v].package \in {versions[v].package, p}
  <2>1. \A v \in Versions :
           /\ v = p.version => versions'[v].package = p /\ versions'[v].status # "none"
           /\ v # p.version => versions'[v].package = versions[v].package /\ (versions'[v].status = "none" => versions[v].status = "none")
    BY <1>i, InstallPackages DEF PluginInv
  <2> QED BY <2>1 DEF UnknownIsEmpty
<1>b. bundled \in Packages BY DEF PluginInv, PluginShape
<1>1. CASE \E p \in Packages : Offer(p) \/ NewImage(p)
  <2>1. versions' = versions /\ review' = review BY <1>1 DEF Offer, NewImage, recordVars, registryVars
  <2> QED BY <2>1, <1>e DEF ReviewBinds
<1>2. ASSUME NEW p \in Packages, NEW approved \in SUBSET p.perms, UploadInstall(p, approved)
      PROVE  UnknownIsEmpty' /\ review' = review
  BY <1>2, <1>i DEF UploadInstall, registryVars
<1>3. ASSUME NEW w \in Versions, ApproveReview(w)
      PROVE  UnknownIsEmpty' /\ review' = review
  <2>1. Approve(w, versions[w].package.perms, plugin.channel) BY <1>3 DEF ApproveReview
  <2> QED BY <2>1, <1>3, <1>e, ApprovePackages DEF ApproveReview, registryVars
<1>4. CASE Disable \/ Enable
  <2>1. versions' = versions /\ review' = review BY <1>4 DEF Disable, Enable, registryVars
  <2> QED BY <2>1, <1>e DEF ReviewBinds
<1>5. CASE Rollback
  <2>1. PICK w \in Versions : versions[w].status = "previous" /\ versions' = [versions EXCEPT ![plugin.active].status = "previous", ![w].status = "active"]
    BY <1>5 DEF Rollback
  <2>2. PICK a \in Versions : plugin.active = a
    BY <1>5 DEF Rollback, PluginInv, PluginShape, PluginRows
  <2>3. \A v \in Versions : versions[v] \in VersionRows BY DEF PluginInv, PluginShape
  <2>4. a # w BY <2>1, <2>2 DEF PluginInv, RowsInv, OneRuns
  <2>5. /\ versions'[a] = [versions[a] EXCEPT !.status = "previous"] /\ versions'[w] = [versions[w] EXCEPT !.status = "active"]
        /\ \A v \in Versions : v \notin {a, w} => versions'[v] = versions[v]
    BY <2>1, <2>2, <2>4 DEF PluginInv, PluginShape
  <2>6. \A v \in Versions : versions'[v].package = versions[v].package /\ (versions'[v].status = "none" => versions[v].status = "none")
    BY <2>3, <2>5 DEF VersionRows
  <2>7. review' = review BY <1>5 DEF Rollback, registryVars
  <2> QED BY <2>6, <2>7, <1>e DEF ReviewBinds
<1>6. CASE Uninstall
  <2>1. Removed /\ review' = review BY <1>6 DEF Uninstall, registryVars
  <2> QED BY <2>1, <1>e, RemovedPackages DEF ReviewBinds, PluginInv
<1>7. CASE ReviewPackage \/ FetchReviewed
  <2>1. versions' = versions BY <1>7 DEF ReviewPackage, FetchReviewed, recordVars
  <2>2. ReviewBinds'
    <3>1. review \in [shown : MaybePackage, fetched : MaybePackage] BY DEF PluginInv, PluginShape
    <3> QED BY <1>7, <3>1 DEF ReviewPackage, FetchReviewed, ReviewBinds
  <2> QED BY <2>1, <2>2, <1>e
<1>8. CASE InstallFetched
  <2>1. PICK p \in Packages : p = review.fetched
    BY <1>8 DEF InstallFetched, PluginInv, PluginShape, MaybePackage
  <2>2. p = review.shown BY <1>8, <2>1 DEF InstallFetched, ReviewBinds
  <2>3. CASE Install(p, review.shown.perms, "registry") BY <2>2, <2>3, <1>8, <1>i DEF InstallFetched, ReviewBinds
  <2>4. CASE Approve(p.version, review.shown.perms, plugin.channel)
    BY <2>4, <1>8, <1>e, ApprovePackages, PackageFacts DEF InstallFetched, ReviewBinds
  <2>5. CASE versions' = versions BY <2>5, <1>8, <1>e DEF InstallFetched, ReviewBinds
  <2> QED BY <1>8, <2>1, <2>3, <2>4, <2>5 DEF InstallFetched, recordVars
<1>9. CASE StartStep
  <2>1. review' = review
    BY <1>9 DEF StartStep, ReconcileStore, Skip, Bootstrap, Maintain, LeaveAlone, BundledRejected, NoteInstalled, SetMarker, SyncDone, registryVars
  <2>2. versions' = versions \/ FirstInstall \/ Install(bundled, {}, "bundled")
    BY <1>9 DEF StartStep, ReconcileStore, Skip, Bootstrap, Maintain, LeaveAlone, BundledRejected, NoteInstalled, SetMarker, recordVars
  <2>3. UnknownIsEmpty'
    <3>1. CASE versions' = versions BY <3>1, <1>e
    <3>2. CASE FirstInstall BY <3>2, <1>i, <1>b, <1>e DEF FirstInstall, recordVars
    <3>3. CASE Install(bundled, {}, "bundled") BY <3>3, <1>i, <1>b
    <3> QED BY <2>2, <3>1, <3>2, <3>3
  <2> QED BY <2>1, <2>3 DEF ReviewBinds
<1>10. CASE Stop \/ PluginCrash
  <2>1. versions' = versions \/ Removed BY <1>10 DEF Stop, PluginCrash, recordVars
  <2>2. review'.fetched = NoPackage BY <1>10 DEF Stop, PluginCrash, Down
  <2>3. UnknownIsEmpty' /\ \A v \in Versions : versions'[v].package \in {versions[v].package, review.shown}
    BY <2>1, <1>e, RemovedPackages DEF PluginInv
  <2> QED BY <2>2, <2>3 DEF ReviewBinds
<1> QED BY <1>1, <1>2, <1>3, <1>4, <1>5, <1>6, <1>7, <1>8, <1>9, <1>10 DEF PluginsNext, ReviewBinds

(* Every step of the plugins, and the end of a reviewed installation.          *)
LEMMA ReviewStep ==
  ASSUME ReviewInv, [PluginsNext]_pluginVars
  PROVE  /\ ReviewInv'
         /\ (review.fetched # NoPackage /\ review'.fetched = NoPackage =>
               \A v \in Versions : versions'[v].package \in {versions[v].package, review.shown})
<1>1. PluginInv' BY PluginsStep DEF ReviewInv
<1>2. CASE UNCHANGED pluginVars
  BY <1>1, <1>2 DEF ReviewInv, ReviewBinds, UnknownIsEmpty, pluginVars, recordVars, registryVars
<1>3. CASE PluginsNext BY <1>1, <1>3, PackagesStep DEF ReviewInv
<1> QED BY <1>2, <1>3

HIDE PackagesAssumption

-----------------------------------------------------------------------------
(* SCHEMA. What is committed is of its version and whole (CommittedIsWhole): a   *)
(* transaction holds one migration, the next (WritesTheNext), and it begins only *)
(* after what the program found was copied (IsCopied).                           *)
SchemaShape ==
  /\ db \in Databases /\ writing \in Databases
  /\ program \in [latest : 0 .. LastSchema, from : 0 .. LastSchema,
                  pc : {"stopped", "snapshot", "copying", "next", "migrating", "serving"}]

(* What is committed is of its version, and whole.                               *)
CommittedIsWhole == db.done = (1 .. db.version) \X Parts /\ db.dangling = FALSE

(* A transaction adds to what is committed only statements of the next migration.*)
WritesTheNext ==
  /\ program.pc \notin {"stopped", "serving"} => db.version < program.latest
  /\ program.pc # "migrating" => writing = db
  /\ program.pc = "migrating" =>
       /\ writing.version = db.version /\ writing.content = db.content
       /\ db.done \subseteq writing.done /\ writing.done \subseteq db.done \cup ({Migration} \X Parts)
       /\ writing.dangling = TRUE => Migration \in Rebuilding

(* Before a migration there is a whole snapshot of what the program found.       *)
SnapshotOf(version, content) == \E s \in snapshots : s.whole /\ s.db.version = version /\ s.db.content = content
IsCopied ==
  /\ program.pc \in {"snapshot", "copying"} => program.from = db.version
  /\ (program.pc \in {"next", "migrating"} /\ program.from > 0) => SnapshotOf(program.from, db.content)

SchemaInv == SchemaShape /\ CommittedIsWhole /\ WritesTheNext /\ IsCopied

USE SchemasAssumption

(* An empty database has the schema of no version.                             *)
LEMMA SchemaInitially == ASSUME SchemaInit PROVE SchemaInv
<1> USE DEF SchemaInit
<1>1. db = [version |-> 0, done |-> {}, dangling |-> FALSE, content |-> 0] /\ writing = db OBVIOUS
<1>2. db \in Databases BY <1>1 DEF Databases
<1>3. program.pc = "stopped" /\ program \in [latest : 0 .. LastSchema, from : 0 .. LastSchema,
                  pc : {"stopped", "snapshot", "copying", "next", "migrating", "serving"}]
  BY DEF NoProgram
<1>4. SchemaShape BY <1>1, <1>2, <1>3 DEF SchemaShape
<1>5. CommittedIsWhole
  <2>1. db.version = 0 /\ db.done = {} /\ db.dangling = FALSE BY <1>1
  <2>2. 1 .. 0 = {} OBVIOUS
  <2>3. (1 .. db.version) \X Parts = {} BY <2>1, <2>2
  <2> QED BY <2>1, <2>3 DEF CommittedIsWhole
<1>6. WritesTheNext BY <1>1, <1>3 DEF WritesTheNext
<1>7. IsCopied BY <1>3 DEF IsCopied
<1> QED BY <1>4, <1>5, <1>6, <1>7 DEF SchemaInv

(* The migration under way is the one after the version there is.              *)
LEMMA MigrationIsNext ==
  ASSUME SchemaInv, program.pc = "migrating"
  PROVE  Migration \in 1 .. LastSchema /\ Migration = db.version + 1 /\ db.version \in Nat /\ db.version < program.latest
BY DEF SchemaInv, SchemaShape, WritesTheNext, Migration, Databases

(* A statement of the migration.                                               *)
LEMMA StatementKeeps ==
  ASSUME SchemaInv, ExecuteStatement PROVE SchemaInv'
<1> USE DEF SchemaInv
<1>1. PICK p \in Parts, loses \in BOOLEAN :
       /\ loses => Migration \in Rebuilding
       /\ writing' = [writing EXCEPT !.done = @ \cup {<<Migration, p>>}, !.dangling = IF loses THEN TRUE ELSE @]
  BY DEF ExecuteStatement
<1>2. program.pc = "migrating" /\ program' = program /\ db' = db /\ snapshots' = snapshots
  BY DEF ExecuteStatement
<1>3. Migration \in Schemas BY <1>2, MigrationIsNext DEF Schemas
<1>4. writing \in Databases BY DEF SchemaShape
<1>5. /\ writing'.version = writing.version /\ writing'.content = writing.content
      /\ writing'.done = writing.done \cup {<<Migration, p>>}
      /\ writing'.dangling = (IF loses THEN TRUE ELSE writing.dangling)
      /\ writing' \in Databases
  <2>1. <<Migration, p>> \in Statements BY <1>3 DEF Statements
  <2>2. (IF loses THEN TRUE ELSE writing.dangling) \in BOOLEAN BY <1>4 DEF Databases
  <2> QED BY <1>1, <1>4, <2>1, <2>2 DEF Databases
<1>6. SchemaShape' BY <1>2, <1>5 DEF SchemaShape
<1>7. CommittedIsWhole' BY <1>2 DEF CommittedIsWhole
<1>8. WritesTheNext'
  <2>1. Migration' = Migration BY <1>2 DEF Migration
  <2>2. writing'.done \subseteq db.done \cup ({Migration} \X Parts) /\ db.done \subseteq writing'.done
    BY <1>2, <1>5 DEF WritesTheNext
  <2>3. writing'.dangling = TRUE => Migration \in Rebuilding BY <1>1, <1>2, <1>5 DEF WritesTheNext
  <2>4. writing'.version = db.version /\ writing'.content = db.content BY <1>2, <1>5 DEF WritesTheNext
  <2>5. db.version < program.latest BY <1>2 DEF WritesTheNext
  <2> QED BY <1>2, <2>1, <2>2, <2>3, <2>4, <2>5 DEF WritesTheNext
<1>9. IsCopied' BY <1>2 DEF IsCopied, SnapshotOf
<1> QED BY <1>6, <1>7, <1>8, <1>9

(* Its commit.                                                                 *)
LEMMA CommitKeeps ==
  ASSUME SchemaInv, CommitMigration PROVE SchemaInv'
<1> USE DEF SchemaInv
<1>1. program.pc = "migrating" /\ snapshots' = snapshots /\ AllExecuted /\ ~Violations
      /\ db' = [writing EXCEPT !.version = Migration] /\ writing' = db'
      /\ program' = [program EXCEPT !.pc = IF Migration < program.latest THEN "next" ELSE "serving"]
  BY DEF CommitMigration
<1>2. Migration \in 1 .. LastSchema /\ Migration = db.version + 1 /\ db.version \in Nat /\ db.version < program.latest
  BY <1>1, MigrationIsNext
<1>3. writing \in Databases BY DEF SchemaShape
<1>4. /\ db'.version = Migration /\ db'.done = writing.done /\ db'.dangling = writing.dangling /\ db'.content = writing.content
      /\ db' \in Databases
  BY <1>1, <1>2, <1>3 DEF Databases
<1>5. /\ program'.latest = program.latest /\ program'.from = program.from
      /\ program'.pc = (IF Migration < program.latest THEN "next" ELSE "serving")
      /\ program' \in [latest : 0 .. LastSchema, from : 0 .. LastSchema,
                  pc : {"stopped", "snapshot", "copying", "next", "migrating", "serving"}]
  BY <1>1 DEF SchemaShape
<1>6. SchemaShape' BY <1>1, <1>4, <1>5 DEF SchemaShape
<1>7. writing.done = (1 .. Migration) \X Parts
  <2>1. 1 .. Migration = (1 .. db.version) \cup {Migration} BY <1>2
  <2>2. (1 .. Migration) \X Parts = ((1 .. db.version) \X Parts) \cup ({Migration} \X Parts) BY <2>1
  <2>3. {Migration} \X Parts \subseteq writing.done BY <1>1 DEF AllExecuted
  <2>4. db.done = (1 .. db.version) \X Parts BY DEF CommittedIsWhole
  <2>5. db.done \subseteq writing.done /\ writing.done \subseteq db.done \cup ({Migration} \X Parts) BY <1>1 DEF WritesTheNext
  <2> QED BY <2>2, <2>3, <2>4, <2>5
<1>8. writing.dangling = FALSE
  <2>1. writing.dangling \in BOOLEAN BY <1>3 DEF Databases
  <2>2. writing.dangling # TRUE BY <1>1 DEF Violations, WritesTheNext
  <2> QED BY <2>1, <2>2
<1>9. CommittedIsWhole' BY <1>4, <1>7, <1>8 DEF CommittedIsWhole
<1>10. WritesTheNext' BY <1>1, <1>4, <1>5 DEF WritesTheNext
<1>11. IsCopied'
  <2>1. db'.content = db.content BY <1>1, <1>4 DEF WritesTheNext
  <2> QED BY <1>1, <1>5, <2>1 DEF IsCopied, SnapshotOf
<1> QED BY <1>6, <1>9, <1>10, <1>11

(* A program starts, copies the database, begins a migration or serves.        *)
LEMMA ProgramKeeps ==
  ASSUME SchemaInv,
         (\E latest \in Schemas : StartProgram(latest)) \/ BeginSnapshot \/ EndSnapshot \/ BeginMigration
  PROVE  SchemaInv'
<1> USE DEF SchemaInv
<1>d. db' = db BY DEF StartProgram, BeginSnapshot, EndSnapshot, BeginMigration
<1>w. writing' = writing \/ writing' = db BY DEF StartProgram, BeginSnapshot, EndSnapshot, BeginMigration
<1>t. program \in [latest : 0 .. LastSchema, from : 0 .. LastSchema,
                  pc : {"stopped", "snapshot", "copying", "next", "migrating", "serving"}] /\ db \in Databases
  BY DEF SchemaShape
<1>c. CommittedIsWhole' BY <1>d DEF CommittedIsWhole
<1>v. db.version \in 0 .. LastSchema BY <1>t DEF Databases
<1>1. ASSUME NEW latest \in Schemas, StartProgram(latest) PROVE SchemaInv'
  <2>1. writing' = writing /\ snapshots' = snapshots /\ program.pc = "stopped" /\ writing = db
    BY <1>1 DEF StartProgram, WritesTheNext
  <2>2. CASE program' = program
    BY <1>d, <1>c, <2>1, <2>2 DEF SchemaShape, WritesTheNext, IsCopied, SnapshotOf
  <2>3. CASE /\ ~(db.version > latest)
             /\ program' = [latest |-> latest, from |-> db.version,
                      pc |-> IF db.version = latest THEN "serving" ELSE IF NeedsSnapshot THEN "snapshot" ELSE "next"]
    <3>1. program'.latest = latest /\ program'.from = db.version /\ latest \in 1 .. LastSchema BY <2>3 DEF Schemas
    <3>2. /\ program'.pc \in {"serving", "snapshot", "next"}
          /\ program'.pc # "serving" => db.version # latest
          /\ program'.pc = "next" => ~NeedsSnapshot
      <4>1. CASE db.version = latest BY <2>3, <4>1
      <4>2. CASE db.version # latest /\ NeedsSnapshot BY <2>3, <4>2
      <4>3. CASE db.version # latest /\ ~NeedsSnapshot BY <2>3, <4>3
      <4> QED BY <4>1, <4>2, <4>3
    <3>3. program' \in [latest : 0 .. LastSchema, from : 0 .. LastSchema,
                  pc : {"stopped", "snapshot", "copying", "next", "migrating", "serving"}]
      BY <2>3, <3>1, <3>2, <1>v
    <3>4. SchemaShape' BY <3>3, <2>1, <1>d, <1>t DEF SchemaShape
    <3>5. WritesTheNext' BY <3>1, <3>2, <2>1, <2>3, <1>d, <1>v DEF WritesTheNext
    <3>6. IsCopied' BY <3>1, <3>2, <1>d, <1>v DEF IsCopied, NeedsSnapshot
    <3> QED BY <3>4, <3>5, <3>6, <1>c
  <2> QED BY <1>1, <2>2, <2>3 DEF StartProgram
<1>2. CASE BeginSnapshot
  <2>1. program.pc = "snapshot" /\ program' = [program EXCEPT !.pc = "copying"] /\ writing' = writing BY <1>2 DEF BeginSnapshot
  <2>2. program'.pc = "copying" /\ program'.latest = program.latest /\ program'.from = program.from
        /\ program' \in [latest : 0 .. LastSchema, from : 0 .. LastSchema,
                  pc : {"stopped", "snapshot", "copying", "next", "migrating", "serving"}]
    BY <2>1, <1>t
  <2>3. SchemaShape' BY <2>1, <2>2, <1>d DEF SchemaShape
  <2>4. WritesTheNext' BY <2>1, <2>2, <1>d DEF WritesTheNext
  <2>5. IsCopied' BY <2>1, <2>2, <1>d DEF IsCopied
  <2> QED BY <2>3, <2>4, <2>5, <1>c
<1>3. CASE EndSnapshot
  <2>1. program.pc = "copying" /\ program' = [program EXCEPT !.pc = "next"] /\ writing' = writing BY <1>3 DEF EndSnapshot
  <2>2. program'.pc = "next" /\ program'.latest = program.latest /\ program'.from = program.from
        /\ program' \in [latest : 0 .. LastSchema, from : 0 .. LastSchema,
                  pc : {"stopped", "snapshot", "copying", "next", "migrating", "serving"}]
    BY <2>1, <1>t
  <2>3. SchemaShape' BY <2>1, <2>2, <1>d DEF SchemaShape
  <2>4. WritesTheNext' BY <2>1, <2>2, <1>d DEF WritesTheNext
  <2>5. IsCopied'
    <3>1. [db |-> db, whole |-> TRUE] \in snapshots' BY <1>3 DEF EndSnapshot
    <3>2. program.from = db.version BY <2>1 DEF IsCopied
    <3>3. PICK s \in snapshots' : s.whole = TRUE /\ s.db = db BY <3>1
    <3>4. s.whole BY <3>3
    <3>5. SnapshotOf(db.version, db.content)' BY <3>3, <3>4, <1>d DEF SnapshotOf
    <3> QED BY <3>2, <3>5, <2>2, <1>d DEF IsCopied, SnapshotOf
  <2> QED BY <2>3, <2>4, <2>5, <1>c
<1>4. CASE BeginMigration
  <2>1. program.pc = "next" /\ program' = [program EXCEPT !.pc = "migrating"] /\ writing' = db /\ snapshots' = snapshots
    BY <1>4 DEF BeginMigration
  <2>2. program'.pc = "migrating" /\ program'.latest = program.latest /\ program'.from = program.from
        /\ program' \in [latest : 0 .. LastSchema, from : 0 .. LastSchema,
                  pc : {"stopped", "snapshot", "copying", "next", "migrating", "serving"}]
    BY <2>1, <1>t
  <2>3. SchemaShape' BY <2>1, <2>2, <1>d, <1>t DEF SchemaShape
  <2>4. WritesTheNext' BY <2>1, <2>2, <1>d DEF WritesTheNext, CommittedIsWhole
  <2>5. IsCopied' BY <2>1, <2>2, <1>d DEF IsCopied, SnapshotOf
  <2> QED BY <2>3, <2>4, <2>5, <1>c
<1> QED BY <1>1, <1>2, <1>3, <1>4

(* A migration fails, the program stops, or the served library changes.        *)
LEMMA ProgramEndsKeeps ==
  ASSUME SchemaInv, MigrationFails \/ ProgramStops \/ LibraryChanges
  PROVE  SchemaInv'
<1> USE DEF SchemaInv
<1>t. program \in [latest : 0 .. LastSchema, from : 0 .. LastSchema,
                  pc : {"stopped", "snapshot", "copying", "next", "migrating", "serving"}] /\ db \in Databases
  BY DEF SchemaShape
<1>1. CASE MigrationFails \/ ProgramStops
  <2>1. db' = db /\ writing' = db /\ program' = NoProgram BY <1>1 DEF MigrationFails, ProgramStops, RolledBack
  <2>2. program'.pc = "stopped" /\ program' \in [latest : 0 .. LastSchema, from : 0 .. LastSchema,
                  pc : {"stopped", "snapshot", "copying", "next", "migrating", "serving"}]
    BY <2>1 DEF NoProgram
  <2>3. SchemaShape' BY <2>1, <2>2, <1>t DEF SchemaShape
  <2>4. WritesTheNext' BY <2>1, <2>2 DEF WritesTheNext
  <2>5. IsCopied' BY <2>2 DEF IsCopied
  <2> QED BY <2>1, <2>3, <2>4, <2>5 DEF CommittedIsWhole
<1>2. CASE LibraryChanges
  <2>1. program.pc = "serving" /\ program' = program /\ db' = [db EXCEPT !.content = @ + 1] /\ writing' = db' /\ db.content < MaxEntries
    BY <1>2 DEF LibraryChanges
  <2>2. db' \in Databases /\ db'.version = db.version /\ db'.done = db.done /\ db'.dangling = db.dangling
    <3>1. db.content + 1 \in 0 .. MaxEntries BY <1>t, <2>1 DEF Databases
    <3> QED BY <1>t, <2>1, <3>1 DEF Databases
  <2>3. SchemaShape' BY <2>1, <2>2, <1>t DEF SchemaShape
  <2>4. WritesTheNext' BY <2>1 DEF WritesTheNext
  <2>5. IsCopied' BY <2>1 DEF IsCopied
  <2> QED BY <2>2, <2>3, <2>4, <2>5 DEF CommittedIsWhole
<1> QED BY <1>1, <1>2

(* What a step of the schema keeps, and what it changes only after a snapshot.   *)
LEMMA SchemaStep ==
  ASSUME SchemaInv, [SchemaNext]_schemaVars
  PROVE  SchemaInv' /\ (db'.version # db.version /\ program.from > 0 => SnapshotOf(program.from, db.content))
<1>1. CASE UNCHANGED schemaVars
  BY <1>1 DEF schemaVars, SchemaInv, SchemaShape, CommittedIsWhole, WritesTheNext, IsCopied, SnapshotOf, Migration
<1>2. CASE SchemaNext
  <2>1. SchemaInv' BY <1>2, StatementKeeps, CommitKeeps, ProgramKeeps, ProgramEndsKeeps DEF SchemaNext
  <2>2. db'.version # db.version => program.pc = "migrating"
    <3>1. db' = db \/ CommitMigration \/ LibraryChanges
      BY <1>2 DEF SchemaNext, StartProgram, BeginSnapshot, EndSnapshot, BeginMigration, ExecuteStatement, MigrationFails,
         RolledBack, ProgramStops
    <3>2. LibraryChanges => db'.version = db.version
      BY DEF LibraryChanges, SchemaInv, SchemaShape, Databases
    <3> QED BY <3>1, <3>2 DEF CommitMigration
  <2> QED BY <2>1, <2>2 DEF SchemaInv, IsCopied
<1> QED BY <1>1, <1>2

HIDE SchemasAssumption

-----------------------------------------------------------------------------
(* PROGRESS. A tab keeps at most two positions, the sent one before the pending  *)
(* one, both after what it was refused (PositionsInOrder); and what it knows of  *)
(* the row is never newer than the row, unless a backup replaced it              *)
(* (KnowsItsRevision).                                                           *)
ProgressRecords == [far : Nat, revision : Nat \ {0}]
Sendable == {NoRecord} \cup [far : Nat, seq : Nat]
TabRecords == [loaded : BOOLEAN, rereading : BOOLEAN, revision : Nat, pending : Sendable, sent : Sendable,
               current : BOOLEAN, seq : Nat, refused : Nat]
Replies == {NoRecord} \cup [kind : {"ok", "stale", "lost"}, revision : Nat, current : BOOLEAN]

(* Of a tab x, the answer a on its way to it, and the position w last written:   *)
(* its positions are in order, and none it keeps is of before a refusal.         *)
PositionsInOrder(x, a, w) ==
  /\ x \in TabRecords /\ a \in Replies /\ w \in Nat
  /\ x.refused <= x.seq /\ w <= x.seq
  /\ x.pending # NoRecord =>
       x.pending.seq <= x.seq /\ w <= x.pending.seq /\ (x.rereading = FALSE => x.refused < x.pending.seq)
  /\ x.sent # NoRecord =>
       x.sent.seq <= x.seq /\ w <= x.sent.seq /\ (x.rereading = FALSE => x.refused < x.sent.seq)
  /\ (x.pending # NoRecord /\ x.sent # NoRecord) => x.sent.seq < x.pending.seq
  /\ a # NoRecord => x.sent # NoRecord /\ x.rereading = FALSE
  /\ x.sent # NoRecord => x.loaded = TRUE \/ x.rereading = TRUE

(* A revision that is not current is one the row has left.                       *)
KnowsItsRevision(x, a, rev) ==
  /\ x.revision <= rev /\ (x.loaded = TRUE /\ x.current = FALSE => x.revision < rev)
  /\ (a # NoRecord /\ a.kind = "ok") => a.revision <= rev /\ (a.current = FALSE => a.revision < rev)

ProgressInv ==
  /\ row \in {NoRecord} \cup ProgressRecords /\ kept \in {NoRecord} \cup ProgressRecords /\ twin \in {NoRecord} \cup ProgressRecords
  /\ tabs \in [Tabs -> TabRecords] /\ post \in [Tabs -> Replies] /\ written \in [Tabs -> Nat] /\ replaces \in Nat
  /\ \A t \in Tabs : PositionsInOrder(tabs[t], post[t], written[t])
  /\ replaces = 0 => \A t \in Tabs : KnowsItsRevision(tabs[t], post[t], Revision(row))

USE ProgressAssumption

(* A record has a revision; no record has revision 0.                          *)
LEMMA RevisionFacts ==
  ASSUME NEW r \in {NoRecord} \cup ProgressRecords
  PROVE  Revision(r) \in Nat /\ (r # NoRecord => Revision(r) = r.revision /\ Revision(r) > 0) /\ FarOf(r) \in Nat
BY DEF Revision, ProgressRecords, FarOf

(* A record is not the absence of one.                                         *)
LEMMA NoRecordIsNone ==
  /\ \A r \in ProgressRecords : r # NoRecord
  /\ \A q \in [far : Nat, seq : Nat] : q # NoRecord
BY DEF ProgressRecords

(* No tab is open at the start.                                                *)
LEMMA ProgressInitially == ASSUME ProgressInit PROVE ProgressInv
<1> USE DEF ProgressInit
<1>1. Unopened \in TabRecords BY DEF Unopened, TabRecords, Sendable
<1>2. twin \in {NoRecord} \cup ProgressRecords BY DEF ProgressRecords
<1>3. \A t \in Tabs : PositionsInOrder(tabs[t], post[t], written[t])
  BY <1>1 DEF PositionsInOrder, Unopened, Replies
<1>4. \A t \in Tabs : KnowsItsRevision(tabs[t], post[t], Revision(row))
  BY DEF KnowsItsRevision, Unopened, Revision
<1>5. tabs \in [Tabs -> TabRecords] /\ post \in [Tabs -> Replies] /\ written \in [Tabs -> Nat]
  BY <1>1 DEF Replies
<1> QED BY <1>2, <1>3, <1>4, <1>5 DEF ProgressInv

(* What happens to one tab, without a write to the row.                          *)
LEMMA OneTabKeeps ==
  ASSUME ProgressInv, NEW t \in Tabs, NEW n, NEW a, tabs' = [tabs EXCEPT ![t] = n], post' = [post EXCEPT ![t] = a],
         UNCHANGED <<row, twin, kept, written, replaces>>,
         PositionsInOrder(n, a, written[t]), replaces = 0 => KnowsItsRevision(n, a, Revision(row))
  PROVE  ProgressInv'
<1> USE DEF ProgressInv
<1>1. n \in TabRecords /\ a \in Replies BY DEF PositionsInOrder
<1>2. tabs' \in [Tabs -> TabRecords] /\ post' \in [Tabs -> Replies] BY <1>1
<1>3. tabs'[t] = n /\ post'[t] = a /\ \A u \in Tabs : u # t => tabs'[u] = tabs[u] /\ post'[u] = post[u] OBVIOUS
<1>4. \A u \in Tabs : PositionsInOrder(tabs'[u], post'[u], written'[u])
  <2> TAKE u \in Tabs
  <2>1. CASE u = t BY <1>3, <2>1
  <2>2. CASE u # t BY <1>3, <2>2
  <2> QED BY <2>1, <2>2
<1>5. replaces' = 0 => \A u \in Tabs : KnowsItsRevision(tabs'[u], post'[u], Revision(row)')
  <2> SUFFICES ASSUME replaces = 0, NEW u \in Tabs PROVE KnowsItsRevision(tabs'[u], post'[u], Revision(row)')
    OBVIOUS
  <2>0. Revision(row)' = Revision(row) BY DEF Revision
  <2>1. CASE u = t BY <1>3, <2>0, <2>1
  <2>2. CASE u # t BY <1>3, <2>0, <2>2
  <2> QED BY <2>1, <2>2
<1> QED BY <1>2, <1>4, <1>5

(* A tab loads, records a position, or sends one.                              *)
LEMMA TabSteps ==
  ASSUME ProgressInv, NEW t \in Tabs, Load(t) \/ Record(t) \/ Send(t)
  PROVE  ProgressInv' /\ written' = written
<1> DEFINE x == tabs[t]
<1>x. PositionsInOrder(x, post[t], written[t]) /\ (replaces = 0 => KnowsItsRevision(x, post[t], Revision(row)))
  BY DEF ProgressInv
<1>t. x \in TabRecords /\ tabs \in [Tabs -> TabRecords] /\ post \in [Tabs -> Replies] BY DEF ProgressInv
<1>r. Revision(row) \in Nat BY RevisionFacts DEF ProgressInv
<1>p. post' = post => post' = [post EXCEPT ![t] = post[t]] BY <1>t
<1>1. CASE Load(t)
  <2> DEFINE n == [x EXCEPT !.loaded = TRUE, !.revision = Revision(row), !.current = TRUE]
  <2>1. tabs' = [tabs EXCEPT ![t] = n] /\ post' = post /\ UNCHANGED <<row, twin, kept, written, replaces>>
    BY <1>1, <1>t DEF Load
  <2>2. /\ n \in TabRecords /\ n.loaded = TRUE /\ n.revision = Revision(row) /\ n.current = TRUE
        /\ n.rereading = x.rereading /\ n.pending = x.pending /\ n.sent = x.sent /\ n.seq = x.seq /\ n.refused = x.refused
    BY <1>t, <1>r DEF TabRecords
  <2> HIDE DEF n
  <2>3. PositionsInOrder(n, post[t], written[t]) BY <1>x, <2>2 DEF PositionsInOrder
  <2>4. replaces = 0 => KnowsItsRevision(n, post[t], Revision(row)) BY <1>x, <1>r, <2>2 DEF KnowsItsRevision
  <2> HIDE DEF x
  <2> QED BY <2>1, <2>3, <2>4, <1>p, OneTabKeeps
<1>2. CASE Record(t)
  <2>1. PICK far \in 1..Far :
          tabs' = [tabs EXCEPT ![t].pending = [far |-> far, seq |-> tabs[t].seq + 1], ![t].seq = @ + 1]
    BY <1>2 DEF Record
  <2> DEFINE n == [x EXCEPT !.pending = [far |-> far, seq |-> x.seq + 1], !.seq = @ + 1]
  <2>2. tabs' = [tabs EXCEPT ![t] = n] /\ post' = post /\ UNCHANGED <<row, twin, kept, written, replaces>>
    BY <1>2, <1>t, <2>1 DEF Record
  <2>q. [far |-> far, seq |-> x.seq + 1] \in [far : Nat, seq : Nat] /\ x.seq \in Nat
    BY <1>t DEF TabRecords
  <2>3. /\ n \in TabRecords /\ n.pending = [far |-> far, seq |-> x.seq + 1] /\ n.seq = x.seq + 1
        /\ n.pending # NoRecord /\ n.pending.seq = x.seq + 1
        /\ n.rereading = x.rereading /\ n.loaded = x.loaded /\ n.sent = x.sent /\ n.revision = x.revision
        /\ n.current = x.current /\ n.refused = x.refused
    BY <1>t, <2>q, NoRecordIsNone DEF TabRecords, Sendable
  <2> HIDE DEF n
  <2>4. PositionsInOrder(n, post[t], written[t]) BY <1>x, <2>3, <2>q DEF PositionsInOrder, TabRecords, Sendable
  <2>5. replaces = 0 => KnowsItsRevision(n, post[t], Revision(row)) BY <1>x, <2>3 DEF KnowsItsRevision
  <2> HIDE DEF x
  <2> QED BY <2>2, <2>4, <2>5, <1>p, OneTabKeeps
<1>3. CASE Send(t)
  <2> DEFINE n == [x EXCEPT !.sent = x.pending, !.pending = NoRecord]
  <2>2. tabs' = [tabs EXCEPT ![t] = n] /\ post' = post /\ UNCHANGED <<row, twin, kept, written, replaces>>
    BY <1>3, <1>t DEF Send
  <2>3. /\ n \in TabRecords /\ n.pending = NoRecord /\ n.sent = x.pending
        /\ n.seq = x.seq /\ n.rereading = x.rereading /\ n.loaded = x.loaded /\ n.revision = x.revision
        /\ n.current = x.current /\ n.refused = x.refused
    BY <1>t DEF TabRecords, Sendable
  <2>g. x.loaded = TRUE /\ x.pending # NoRecord /\ x.sent = NoRecord
    BY <1>3, <1>t DEF Send, MaySend, TabRecords
  <2> HIDE DEF n
  <2>4. PositionsInOrder(n, post[t], written[t]) BY <1>x, <2>3, <2>g DEF PositionsInOrder
  <2>5. replaces = 0 => KnowsItsRevision(n, post[t], Revision(row)) BY <1>x, <2>3 DEF KnowsItsRevision
  <2> HIDE DEF x
  <2> QED BY <2>2, <2>4, <2>5, <1>p, OneTabKeeps
<1>4. written' = written BY DEF Load, Record, Send
<1> HIDE DEF x
<1> QED BY <1>1, <1>2, <1>3, <1>4

(* A tab gets an answer, reads again after a refusal, or loses an answer.      *)
LEMMA AnswerSteps ==
  ASSUME ProgressInv, NEW t \in Tabs, Receive(t) \/ Reread(t) \/ Refuse(t) \/ Lose(t)
  PROVE  ProgressInv' /\ written' = written
<1> DEFINE x == tabs[t]
           a == post[t]
<1>x. PositionsInOrder(x, a, written[t]) /\ (replaces = 0 => KnowsItsRevision(x, a, Revision(row)))
  BY DEF ProgressInv
<1>t. x \in TabRecords /\ tabs \in [Tabs -> TabRecords] /\ post \in [Tabs -> Replies] BY DEF ProgressInv
<1>r. Revision(row) \in Nat BY RevisionFacts DEF ProgressInv
<1>p. post' = post => post' = [post EXCEPT ![t] = post[t]] BY <1>t
<1>q. tabs' = tabs => tabs' = [tabs EXCEPT ![t] = tabs[t]] BY <1>t
<1>1. CASE Receive(t)
  <2>1. a # NoRecord /\ post' = [post EXCEPT ![t] = NoRecord] /\ UNCHANGED <<row, twin, kept, written, replaces>>
    BY <1>1 DEF Receive
  <2>2. a \in [kind : {"ok", "stale", "lost"}, revision : Nat, current : BOOLEAN] BY <1>t, <2>1 DEF Replies
  <2>3. x.sent # NoRecord /\ x.rereading = FALSE /\ x.loaded = TRUE BY <1>x, <2>1 DEF PositionsInOrder
  <2>4. CASE a.kind = "ok"
    <3> DEFINE n == [x EXCEPT !.revision = a.revision, !.current = a.current, !.sent = NoRecord]
    <3>1. tabs' = [tabs EXCEPT ![t] = n] BY <1>1, <2>4 DEF Receive
    <3>2. /\ n \in TabRecords /\ n.pending = x.pending /\ n.sent = NoRecord
          /\ n.seq = x.seq /\ n.rereading = x.rereading /\ n.loaded = x.loaded /\ n.revision = a.revision
          /\ n.current = a.current /\ n.refused = x.refused
      BY <1>t, <2>2 DEF TabRecords, Sendable
    <3> HIDE DEF n
    <3>3. PositionsInOrder(n, NoRecord, written[t]) BY <1>x, <3>2 DEF PositionsInOrder, Replies
    <3>4. replaces = 0 => KnowsItsRevision(n, NoRecord, Revision(row)) BY <1>x, <2>1, <2>4, <3>2 DEF KnowsItsRevision
    <3> HIDE DEF x, a
    <3> QED BY <2>1, <3>1, <3>3, <3>4, OneTabKeeps
  <2>5. CASE a.kind = "stale"
    <3> DEFINE n == [x EXCEPT !.loaded = FALSE, !.rereading = TRUE, !.refused = x.seq]
    <3>1. tabs' = [tabs EXCEPT ![t] = n] BY <1>1, <2>5 DEF Receive
    <3>2. /\ n \in TabRecords /\ n.pending = x.pending /\ n.sent = x.sent
          /\ n.seq = x.seq /\ n.rereading = TRUE /\ n.loaded = FALSE /\ n.revision = x.revision
          /\ n.current = x.current /\ n.refused = x.seq
      BY <1>t DEF TabRecords, Sendable
    <3> HIDE DEF n
    <3>3. PositionsInOrder(n, NoRecord, written[t]) BY <1>x, <3>2, <1>t DEF PositionsInOrder, Replies, TabRecords
    <3>4. replaces = 0 => KnowsItsRevision(n, NoRecord, Revision(row)) BY <1>x, <3>2 DEF KnowsItsRevision
    <3> HIDE DEF x, a
    <3> QED BY <2>1, <3>1, <3>3, <3>4, OneTabKeeps
  <2>6. CASE a.kind = "lost"
    <3> DEFINE n == [x EXCEPT !.pending = IF x.pending = NoRecord THEN x.sent ELSE x.pending, !.sent = NoRecord]
    <3>1. tabs' = [tabs EXCEPT ![t] = n] BY <1>1, <2>6 DEF Receive
    <3>2. /\ n \in TabRecords /\ n.pending = (IF x.pending = NoRecord THEN x.sent ELSE x.pending) /\ n.sent = NoRecord
          /\ n.seq = x.seq /\ n.rereading = x.rereading /\ n.loaded = x.loaded /\ n.revision = x.revision
          /\ n.current = x.current /\ n.refused = x.refused
      BY <1>t DEF TabRecords, Sendable
    <3> HIDE DEF n
    <3>3. PositionsInOrder(n, NoRecord, written[t]) BY <1>x, <3>2, <2>3 DEF PositionsInOrder, Replies
    <3>4. replaces = 0 => KnowsItsRevision(n, NoRecord, Revision(row)) BY <1>x, <3>2 DEF KnowsItsRevision
    <3> HIDE DEF x, a
    <3> QED BY <2>1, <3>1, <3>3, <3>4, OneTabKeeps
  <2> QED BY <2>2, <2>4, <2>5, <2>6
<1>2. CASE Reread(t)
  <2>1. PICK answered \in BOOLEAN :
       tabs' = [tabs EXCEPT ![t] =
         [@ EXCEPT !.rereading = FALSE, !.pending = AfterRefusal(t), !.sent = NoRecord, !.loaded = answered,
                   !.revision = IF answered THEN Revision(row) ELSE tabs[t].revision, !.current = answered]]
    BY <1>2 DEF Reread
  <2> DEFINE n == [x EXCEPT !.rereading = FALSE, !.pending = NoRecord, !.sent = NoRecord, !.loaded = answered,
                   !.revision = IF answered THEN Revision(row) ELSE x.revision, !.current = answered]
  <2>2. tabs' = [tabs EXCEPT ![t] = n] /\ post' = post /\ UNCHANGED <<row, twin, kept, written, replaces>>
    BY <1>2, <2>1 DEF Reread, AfterRefusal
  <2>v. (IF answered THEN Revision(row) ELSE x.revision) \in Nat BY <1>t, <1>r DEF TabRecords
  <2>3. /\ n \in TabRecords /\ n.pending = NoRecord /\ n.sent = NoRecord
        /\ n.seq = x.seq /\ n.rereading = FALSE /\ n.loaded = answered /\ n.revision = (IF answered THEN Revision(row) ELSE x.revision)
        /\ n.current = answered /\ n.refused = x.refused
    BY <1>t, <2>v DEF TabRecords, Sendable
  <2> HIDE DEF n
  <2>4. a = NoRecord
    <3>1. x.rereading = TRUE BY <1>2, <1>t DEF Reread, TabRecords
    <3> QED BY <1>x, <3>1 DEF PositionsInOrder
  <2>5. PositionsInOrder(n, a, written[t]) BY <1>x, <2>3, <2>4 DEF PositionsInOrder
  <2>6. n.revision \in {Revision(row), x.revision} /\ (n.loaded = TRUE => n.revision = Revision(row) /\ n.current = TRUE)
    BY <2>3
  <2>7. replaces = 0 => KnowsItsRevision(n, a, Revision(row)) BY <1>x, <1>r, <2>4, <2>6 DEF KnowsItsRevision
  <2> HIDE DEF x
  <2> QED BY <2>2, <2>5, <2>7, <1>p, OneTabKeeps
<1>3. CASE Refuse(t) \/ Lose(t)
  <2>1. PICK b \in {Response("stale", 0, FALSE), Lost} : post' = [post EXCEPT ![t] = b]
    BY <1>3 DEF Refuse, Lose
  <2>2. tabs' = [tabs EXCEPT ![t] = tabs[t]] /\ UNCHANGED <<row, twin, kept, written, replaces>>
    BY <1>3, <1>q DEF Refuse, Lose
  <2>3. b \in Replies /\ b.kind # "ok"
    <3>1. Response("stale", 0, FALSE) \in Replies /\ Response("stale", 0, FALSE).kind = "stale" BY DEF Response, Replies
    <3>2. Lost \in Replies /\ Lost.kind = "lost" BY DEF Response, Lost, Replies
    <3> QED BY <3>1, <3>2
  <2>4. x.sent # NoRecord /\ x.rereading = FALSE BY <1>3, <1>t DEF Refuse, Lose, Asked, TabRecords
  <2>5. PositionsInOrder(x, b, written[t]) BY <1>x, <2>3, <2>4 DEF PositionsInOrder
  <2>6. replaces = 0 => KnowsItsRevision(x, b, Revision(row)) BY <1>x, <2>3 DEF KnowsItsRevision
  <2> QED BY <2>1, <2>2, <2>5, <2>6, OneTabKeeps
<1>4. written' = written BY DEF Receive, Reread, Refuse, Lose
<1> HIDE DEF x, a
<1> QED BY <1>1, <1>2, <1>3, <1>4

(* A write to the row outdates what a tab knows, and the answer on its way.      *)
LEMMA OutdatedTab ==
  ASSUME NEW x, NEW a, NEW w, NEW y, NEW b, PositionsInOrder(x, a, w), y = [x EXCEPT !.current = FALSE],
         b = IF a = NoRecord THEN NoRecord ELSE [a EXCEPT !.current = FALSE]
  PROVE  /\ PositionsInOrder(y, b, w) /\ y.revision = x.revision /\ y.seq = x.seq /\ y.sent = x.sent /\ y.pending = x.pending
         /\ y.rereading = x.rereading /\ y.loaded = x.loaded /\ y.refused = x.refused /\ y \in TabRecords
         /\ \A rev, new \in Nat : KnowsItsRevision(x, a, rev) /\ rev < new => KnowsItsRevision(y, b, new)
<1>1. x \in TabRecords /\ a \in Replies BY DEF PositionsInOrder
<1>2. /\ y \in TabRecords /\ y.revision = x.revision /\ y.seq = x.seq /\ y.sent = x.sent /\ y.pending = x.pending
      /\ y.rereading = x.rereading /\ y.loaded = x.loaded /\ y.refused = x.refused
  BY <1>1 DEF TabRecords
<1>3. b \in Replies /\ (b = NoRecord <=> a = NoRecord) /\ (a # NoRecord => b.kind = a.kind /\ b.revision = a.revision)
  <2>1. CASE a = NoRecord BY <2>1 DEF Replies
  <2>2. CASE a # NoRecord
    <3>1. a \in [kind : {"ok", "stale", "lost"}, revision : Nat, current : BOOLEAN] BY <1>1, <2>2 DEF Replies
    <3>2. b = [a EXCEPT !.current = FALSE] BY <2>2
    <3>3. b \in [kind : {"ok", "stale", "lost"}, revision : Nat, current : BOOLEAN] /\ b.kind = a.kind /\ b.revision = a.revision
      BY <3>1, <3>2
    <3>4. b # NoRecord BY <3>3
    <3> QED BY <3>3, <3>4, <2>2 DEF Replies
  <2> QED BY <2>1, <2>2
<1>4. PositionsInOrder(y, b, w) BY <1>2, <1>3 DEF PositionsInOrder
<1>5. ASSUME NEW rev \in Nat, NEW new \in Nat, KnowsItsRevision(x, a, rev), rev < new PROVE KnowsItsRevision(y, b, new)
  <2>1. x.revision \in Nat BY <1>1 DEF TabRecords
  <2>2. a # NoRecord => a.revision \in Nat BY <1>1 DEF Replies
  <2> QED BY <1>2, <1>3, <1>5, <2>1, <2>2 DEF KnowsItsRevision
<1> QED BY <1>2, <1>4, <1>5

(* A write to the row outdates every tab.                                      *)
LEMMA ChangeKeeps ==
  ASSUME ProgressInv, Changed, row' \in ProgressRecords, UNCHANGED written,
         kept' \in {NoRecord} \cup ProgressRecords, twin' \in {NoRecord} \cup ProgressRecords, replaces' \in Nat,
         replaces' = 0 => replaces = 0 /\ Revision(row)' > Revision(row)
  PROVE  ProgressInv'
<1> USE DEF ProgressInv
<1>1. tabs' = [t \in Tabs |-> [tabs[t] EXCEPT !.current = FALSE]]
      /\ post' = [t \in Tabs |-> IF post[t] = NoRecord THEN NoRecord ELSE [post[t] EXCEPT !.current = FALSE]]
  BY DEF Changed, Outdated, OutdatedPosts
<1>2. \A t \in Tabs : tabs'[t] = [tabs[t] EXCEPT !.current = FALSE]
                      /\ post'[t] = IF post[t] = NoRecord THEN NoRecord ELSE [post[t] EXCEPT !.current = FALSE]
  BY <1>1
<1>3. Revision(row) \in Nat /\ Revision(row)' \in Nat BY RevisionFacts DEF Revision, ProgressRecords
<1>4. \A t \in Tabs : PositionsInOrder(tabs'[t], post'[t], written'[t])
  <2> TAKE t \in Tabs
  <2>1. /\ tabs'[t] = [tabs[t] EXCEPT !.current = FALSE]
        /\ post'[t] = IF post[t] = NoRecord THEN NoRecord ELSE [post[t] EXCEPT !.current = FALSE]
    BY <1>2
  <2>2. PositionsInOrder(tabs[t], post[t], written[t]) OBVIOUS
  <2>3. PositionsInOrder(tabs'[t], post'[t], written[t]) BY ONLY <2>1, <2>2, OutdatedTab
  <2> QED BY <2>3
<1>5. replaces' = 0 => \A t \in Tabs : KnowsItsRevision(tabs'[t], post'[t], Revision(row)')
  <2> SUFFICES ASSUME replaces' = 0, NEW t \in Tabs PROVE KnowsItsRevision(tabs'[t], post'[t], Revision(row)')
    OBVIOUS
  <2>1. PICK rev \in Nat, new \in Nat : rev = Revision(row) /\ new = Revision(row)' /\ rev < new BY <1>3
  <2>2. PositionsInOrder(tabs[t], post[t], written[t]) /\ KnowsItsRevision(tabs[t], post[t], rev) BY <2>1
  <2>3. KnowsItsRevision(tabs'[t], post'[t], new) BY <1>2, <2>1, <2>2, OutdatedTab
  <2> QED BY <2>1, <2>3
<1>6. tabs' \in [Tabs -> TabRecords] /\ post' \in [Tabs -> Replies] BY <1>1, <1>4 DEF PositionsInOrder
<1> QED BY <1>4, <1>5, <1>6

(* What is joined is a new write, and no step back.                              *)
LEMMA JoinAdvances ==
  ASSUME ProgressInv, NEW other \in {NoRecord} \cup ProgressRecords, Joins(other)
  PROVE  \/ UNCHANGED <<row, tabs, post>>
         \/ row' \in ProgressRecords /\ Revision(row)' > Revision(row) /\ FarOf(row)' >= FarOf(row) /\ Changed
<1>r. row \in {NoRecord} \cup ProgressRecords BY DEF ProgressInv
<1>1. CASE other # NoRecord /\ (row = NoRecord \/ MoreAdvanced(other, row))
  <2>1. row' = Joined(other) /\ Changed BY <1>1 DEF Joins, Writes
  <2>2. other \in ProgressRecords BY <1>1
  <2>3. CASE row = NoRecord
    <3>1. row' = other BY <2>1, <2>3 DEF Joined
    <3> QED BY <2>1, <2>2, <2>3, <3>1, NoRecordIsNone DEF Revision, FarOf, ProgressRecords
  <2>4. CASE row # NoRecord
    <3>1. row' = [far |-> other.far, revision |-> NextRevision] BY <2>1, <2>4 DEF Joined
    <3>2. Revision(row) \in Nat /\ NextRevision \in Nat \ {0} /\ NextRevision > Revision(row) BY <1>r, RevisionFacts DEF NextRevision
    <3>3. other.far \in Nat BY <2>2 DEF ProgressRecords
    <3>4. row' \in ProgressRecords /\ row'.far = other.far /\ row'.revision = NextRevision BY <3>1, <3>2, <3>3 DEF ProgressRecords
    <3>5. row' # NoRecord BY <3>4, NoRecordIsNone
    <3>6. Revision(row)' = NextRevision /\ FarOf(row)' = other.far BY <3>4, <3>5 DEF Revision, FarOf
    <3>7. FarOf(other) = other.far /\ FarOf(row) \in Nat BY <1>1, <1>r, RevisionFacts DEF FarOf
    <3>8. other.far > FarOf(row) BY <1>1, <2>4, <3>7 DEF MoreAdvanced
    <3> QED BY <2>1, <3>2, <3>3, <3>4, <3>6, <3>7, <3>8
  <2> QED BY <2>3, <2>4
<1>2. CASE ~(other # NoRecord /\ (row = NoRecord \/ MoreAdvanced(other, row)))
  BY <1>2 DEF Joins
<1> QED BY <1>1, <1>2

(* What is kept elsewhere may change as it likes.                              *)
LEMMA NobodyChanges ==
  ASSUME ProgressInv, UNCHANGED <<row, tabs, post, written, replaces>>,
         kept' \in {NoRecord} \cup ProgressRecords, twin' \in {NoRecord} \cup ProgressRecords
  PROVE  ProgressInv'
BY DEF ProgressInv, Revision

(* The user marks the unit, a twin is joined, a backup is made or restored.    *)
LEMMA RecordSteps ==
  ASSUME ProgressInv, Mark \/ JoinTwin \/ BackUpProgress \/ MergeKept \/ ReplaceByKept
  PROVE  /\ ProgressInv' /\ written' = written
         /\ (JoinTwin \/ MergeKept) => FarOf(row)' >= FarOf(row) /\ (row' # row => Revision(row)' > Revision(row))
<1>t. row \in {NoRecord} \cup ProgressRecords /\ kept \in {NoRecord} \cup ProgressRecords /\ twin \in {NoRecord} \cup ProgressRecords /\ replaces \in Nat
  BY DEF ProgressInv
<1>w. written' = written BY DEF Mark, JoinTwin, BackUpProgress, MergeKept, ReplaceByKept
<1>f. FarOf(row) \in Nat BY <1>t, RevisionFacts
<1>1. ASSUME Mark PROVE ProgressInv'
  <2>1. PICK far \in {0, Far} : row' = [far |-> far, revision |-> NextRevision] BY <1>1 DEF Mark, Writes
  <2>2. Revision(row) \in Nat /\ NextRevision \in Nat \ {0} /\ NextRevision > Revision(row) BY <1>t, RevisionFacts DEF NextRevision
  <2>3. row' \in ProgressRecords /\ row'.revision = NextRevision BY <2>1, <2>2 DEF ProgressRecords
  <2>4. Revision(row)' > Revision(row) BY <2>2, <2>3, NoRecordIsNone DEF Revision
  <2>5. Changed /\ kept' = kept /\ replaces' = replaces /\ twin' = twin BY <1>1 DEF Mark
  <2> QED BY <1>t, <1>w, <2>3, <2>4, <2>5, ChangeKeeps
<1>2. ASSUME NEW other \in {NoRecord} \cup ProgressRecords, Joins(other), kept' = kept, twin' \in {NoRecord, twin}, replaces' = replaces
      PROVE  ProgressInv' /\ FarOf(row)' >= FarOf(row) /\ (row' # row => Revision(row)' > Revision(row))
  <2>1. CASE UNCHANGED <<row, tabs, post>>
    <3>1. ProgressInv' BY <2>1, <1>2, <1>t, <1>w, NobodyChanges
    <3>2. FarOf(row)' = FarOf(row) BY <2>1 DEF FarOf
    <3> QED BY <3>1, <3>2, <2>1, <1>f
  <2>2. CASE row' \in ProgressRecords /\ Revision(row)' > Revision(row) /\ FarOf(row)' >= FarOf(row) /\ Changed
    BY <2>2, <1>2, <1>t, <1>w, ChangeKeeps
  <2> QED BY <2>1, <2>2, <1>2, JoinAdvances
<1>3. (JoinTwin \/ MergeKept) => ProgressInv' /\ FarOf(row)' >= FarOf(row) /\ (row' # row => Revision(row)' > Revision(row))
  <2>1. ASSUME JoinTwin PROVE Joins(twin) /\ kept' = kept /\ twin' \in {NoRecord, twin} /\ replaces' = replaces
    BY <2>1 DEF JoinTwin
  <2>2. ASSUME MergeKept PROVE Joins(kept) /\ kept' = kept /\ twin' \in {NoRecord, twin} /\ replaces' = replaces
    BY <2>2 DEF MergeKept
  <2>3. ASSUME JoinTwin PROVE ProgressInv' /\ FarOf(row)' >= FarOf(row) /\ (row' # row => Revision(row)' > Revision(row))
    BY <2>1, <2>3, <1>2, <1>t
  <2>4. ASSUME MergeKept PROVE ProgressInv' /\ FarOf(row)' >= FarOf(row) /\ (row' # row => Revision(row)' > Revision(row))
    BY <2>2, <2>4, <1>2, <1>t
  <2> QED BY <2>3, <2>4
<1>4. ASSUME BackUpProgress PROVE ProgressInv'
  <2>1. UNCHANGED <<row, tabs, post, written, replaces>> /\ kept' = row /\ twin' = twin BY <1>4 DEF BackUpProgress
  <2>2. kept' \in {NoRecord} \cup ProgressRecords /\ twin' \in {NoRecord} \cup ProgressRecords BY <2>1, <1>t
  <2> QED BY <2>1, <2>2, NobodyChanges
<1>5. ASSUME ReplaceByKept PROVE ProgressInv'
  <2>1. row' \in ProgressRecords /\ Changed /\ replaces' = replaces + 1 /\ kept' = kept /\ twin' = twin BY <1>5, <1>t DEF ReplaceByKept
  <2> QED BY <2>1, <1>t, <1>w, ChangeKeeps
<1>6. ProgressInv' BY <1>1, <1>3, <1>4, <1>5
<1> QED BY <1>3, <1>6, <1>w

(* The server accepts or refuses a position.                                   *)
LEMMA AcceptStep ==
  ASSUME ProgressInv, NEW t \in Tabs, Accept(t)
  PROVE  /\ ProgressInv'
         /\ \A u \in Tabs : written'[u] # written[u] =>
              /\ written'[u] > written[u] /\ written'[u] > tabs[u].refused
              /\ replaces = 0 => tabs[u].current
<1> DEFINE x == tabs[t]
<1>1. PositionsInOrder(x, post[t], written[t]) /\ (replaces = 0 => KnowsItsRevision(x, post[t], Revision(row)))
  BY DEF ProgressInv
<1>2. x \in TabRecords /\ tabs \in [Tabs -> TabRecords] /\ post \in [Tabs -> Replies] /\ written \in [Tabs -> Nat]
  BY DEF ProgressInv
<1>3. x.sent # NoRecord /\ x.rereading = FALSE /\ post[t] = NoRecord /\ x.revision = Revision(row) /\ x.loaded = TRUE
  BY <1>1, <1>2 DEF Accept, Asked, IsCurrent, PositionsInOrder, TabRecords
<1>4. x.sent \in [far : Nat, seq : Nat] BY <1>2, <1>3 DEF TabRecords, Sendable
<1>5. Revision(row) \in Nat /\ NextRevision \in Nat \ {0} /\ NextRevision > Revision(row)
  BY RevisionFacts DEF NextRevision, ProgressInv
<1>6. row' \in ProgressRecords /\ Revision(row)' = NextRevision
  <2>1. row' = [far |-> x.sent.far, revision |-> NextRevision] BY DEF Accept, Writes
  <2>2. row' \in ProgressRecords /\ row'.revision = NextRevision BY <2>1, <1>4, <1>5 DEF ProgressRecords
  <2> QED BY <2>2, NoRecordIsNone DEF Revision
<1>7. written' = [written EXCEPT ![t] = x.sent.seq] /\ tabs' = Outdated /\ UNCHANGED <<twin, kept, replaces>>
  BY DEF Accept
<1>8. PICK answer \in {Response("ok", NextRevision, TRUE), Lost} : post' = [OutdatedPosts EXCEPT ![t] = answer]
  BY DEF Accept
<1>9. answer \in Replies /\ answer # NoRecord /\ (answer.kind = "ok" => answer.revision = NextRevision /\ answer.current = TRUE)
  <2>1. CASE answer = Response("ok", NextRevision, TRUE)
    <3>1. answer \in [kind : {"ok", "stale", "lost"}, revision : Nat, current : BOOLEAN] /\ answer.revision = NextRevision
          /\ answer.current = TRUE
      BY <2>1, <1>5 DEF Response
    <3> QED BY <3>1 DEF Replies
  <2>2. CASE answer = Lost
    <3>1. answer \in [kind : {"ok", "stale", "lost"}, revision : Nat, current : BOOLEAN] /\ answer.kind = "lost"
      BY <2>2 DEF Lost, Response
    <3> QED BY <3>1 DEF Replies
  <2> QED BY <1>8, <2>1, <2>2
<1>10. \A u \in Tabs :
         /\ tabs'[u] = [tabs[u] EXCEPT !.current = FALSE]
         /\ u # t => post'[u] = (IF post[u] = NoRecord THEN NoRecord ELSE [post[u] EXCEPT !.current = FALSE]) /\ written'[u] = written[u]
  BY <1>2, <1>7, <1>8 DEF Outdated, OutdatedPosts
<1>11. post'[t] = answer /\ written'[t] = x.sent.seq BY <1>2, <1>7, <1>8 DEF OutdatedPosts
<1>12. \A u \in Tabs : PositionsInOrder(tabs'[u], post'[u], written'[u])
                        /\ (replaces = 0 => KnowsItsRevision(tabs'[u], post'[u], NextRevision))
  <2> TAKE u \in Tabs
  <2>1. PositionsInOrder(tabs[u], post[u], written[u]) /\ (replaces = 0 => KnowsItsRevision(tabs[u], post[u], Revision(row)))
    BY DEF ProgressInv
  <2>2. CASE u # t
    <3>1. /\ tabs'[u] = [tabs[u] EXCEPT !.current = FALSE]
          /\ post'[u] = IF post[u] = NoRecord THEN NoRecord ELSE [post[u] EXCEPT !.current = FALSE]
          /\ written'[u] = written[u]
      BY <1>10, <2>2
    <3>2. PositionsInOrder(tabs'[u], post'[u], written[u])
          /\ \A rev, new \in Nat : KnowsItsRevision(tabs[u], post[u], rev) /\ rev < new => KnowsItsRevision(tabs'[u], post'[u], new)
      BY ONLY <2>1, <3>1, OutdatedTab
    <3> QED BY <2>1, <3>1, <3>2, <1>5
  <2>3. CASE u = t
    <3>1. PICK y : y = [x EXCEPT !.current = FALSE] OBVIOUS
    <3>2. tabs'[t] = y BY <1>10, <3>1
    <3>3. /\ y \in TabRecords /\ y.revision = x.revision /\ y.seq = x.seq /\ y.sent = x.sent /\ y.pending = x.pending
          /\ y.rereading = x.rereading /\ y.loaded = x.loaded /\ y.refused = x.refused
      BY <1>2, <3>1 DEF TabRecords
    <3>4. PositionsInOrder(y, answer, x.sent.seq) BY <1>1, <1>3, <1>4, <1>9, <3>3 DEF PositionsInOrder, TabRecords, Sendable
    <3>5. KnowsItsRevision(y, answer, NextRevision) BY <1>3, <1>5, <1>9, <3>3 DEF KnowsItsRevision
    <3> QED BY <2>3, <1>11, <3>2, <3>4, <3>5
  <2> QED BY <2>2, <2>3
<1>13. ProgressInv'
  <2>1. tabs' \in [Tabs -> TabRecords] BY <1>7, <1>12 DEF Outdated, PositionsInOrder
  <2>2. post' \in [Tabs -> Replies] BY <1>8, <1>12 DEF OutdatedPosts, PositionsInOrder
  <2>3. written' \in [Tabs -> Nat] BY <1>2, <1>4, <1>7
  <2>4. \A u \in Tabs : PositionsInOrder(tabs'[u], post'[u], written'[u]) BY <1>12
  <2>5. replaces' = 0 => \A u \in Tabs : KnowsItsRevision(tabs'[u], post'[u], Revision(row)') BY <1>6, <1>7, <1>12
  <2>6. row' \in {NoRecord} \cup ProgressRecords /\ kept' = kept /\ twin' = twin /\ replaces' = replaces BY <1>6, <1>7
  <2> QED BY <2>1, <2>2, <2>3, <2>4, <2>5, <2>6 DEF ProgressInv
<1>14. written'[t] # written[t] => /\ written'[t] > written[t] /\ written'[t] > x.refused /\ (replaces = 0 => x.current = TRUE)
  <2>1. x.sent.seq \in Nat /\ written[t] \in Nat /\ x.refused \in Nat BY <1>2, <1>4 DEF TabRecords
  <2>2. written[t] <= x.sent.seq /\ x.refused < x.sent.seq BY <1>1, <1>3 DEF PositionsInOrder
  <2>3. replaces = 0 => x.current = TRUE
    <3>1. x.revision \in Nat /\ x.current \in BOOLEAN BY <1>2 DEF TabRecords
    <3> QED BY <1>1, <1>3, <1>5, <3>1 DEF KnowsItsRevision
  <2> QED BY <1>11, <2>1, <2>2, <2>3
<1>15. \A u \in Tabs : u # t => written'[u] = written[u] BY <1>10
<1> QED BY <1>13, <1>14, <1>15

(* What a step of the readers, the server and the repair keeps and may do.       *)
LEMMA ProgressStep ==
  ASSUME ProgressInv, [ProgressNext]_progressVars
  PROVE  /\ ProgressInv'
         /\ \A t \in Tabs : written'[t] # written[t] /\ replaces = 0 => tabs[t].current
         /\ \A t \in Tabs : written'[t] # written[t] => written'[t] > written[t] /\ written'[t] > tabs[t].refused
         /\ (JoinTwin \/ MergeKept) => FarOf(row') >= FarOf(row) /\ (row' # row => Revision(row') > Revision(row))
<1>j. (JoinTwin \/ MergeKept) => FarOf(row') >= FarOf(row) /\ (row' # row => Revision(row') > Revision(row))
  BY RecordSteps
<1>1. CASE UNCHANGED progressVars
  <2>1. ProgressInv' /\ written' = written BY <1>1 DEF progressVars, ProgressInv, Revision
  <2> QED BY <2>1, <1>j
<1>2. CASE ProgressNext
  <2>1. ASSUME NEW t \in Tabs, Accept(t)
        PROVE  /\ ProgressInv'
               /\ \A u \in Tabs : written'[u] # written[u] =>
                    /\ written'[u] > written[u] /\ written'[u] > tabs[u].refused
                    /\ replaces = 0 => tabs[u].current
    BY <2>1, AcceptStep
  <2>2. (ProgressInv' /\ written' = written) \/ \E t \in Tabs : Accept(t)
    BY <1>2, TabSteps, AnswerSteps, RecordSteps DEF ProgressNext
  <2> QED BY <2>1, <2>2, <1>j
<1> QED BY <1>1, <1>2

HIDE ProgressAssumption

-----------------------------------------------------------------------------
(* SESSIONS. Every login is a row of its table, and only one that is validated   *)
(* stores a session.                                                             *)
LoginRows == [phase : {"none", "starting", "open", "validating", "ended"}, active : BOOLEAN, expired : BOOLEAN]
SessionInv == logins \in [Logins -> LoginRows]

USE SessionsAssumption

(* A canceled login is still a row of the table.                               *)
LEMMA CancelledKeeps ==
  ASSUME NEW x \in LoginRows
  PROVE  Cancelled(x) \in LoginRows
BY DEF Cancelled, LoginRows

(* Logins stay rows of their table, and only the end of one stores a session     *)
(* where there was none.                                                         *)
LEMMA SessionStep ==
  ASSUME SessionInv, [SessionsNext]_sessionVars
  PROVE  /\ SessionInv'
         /\ (stored = None /\ stored' # None =>
               \E l \in Logins : logins[l].phase = "validating" /\ logins'[l].phase = "ended" /\ stored' \in {l, Unreadable})
<1> USE DEF SessionInv
<1>r. \A l \in Logins : logins[l] \in LoginRows OBVIOUS
<1>n. NoLogin \in LoginRows BY DEF NoLogin, LoginRows
<1>p. Pruned \in [Logins -> LoginRows] BY <1>r, CancelledKeeps DEF Pruned
<1>1. CASE UNCHANGED sessionVars BY <1>1 DEF sessionVars
<1>2. ASSUME NEW l \in Logins, StartLogin(l) PROVE SessionInv' /\ stored' = stored
  <2>1. [Pruned EXCEPT ![l].phase = "starting", ![l].active = TRUE] \in [Logins -> LoginRows]
    <3>1. [Pruned[l] EXCEPT !.phase = "starting", !.active = TRUE] \in LoginRows BY <1>p DEF LoginRows
    <3>2. [Pruned EXCEPT ![l].phase = "starting", ![l].active = TRUE] = [Pruned EXCEPT ![l] = [Pruned[l] EXCEPT !.phase = "starting", !.active = TRUE]]
      BY <1>p
    <3> QED BY <1>p, <3>1, <3>2
  <2> QED BY <1>2, <1>p, <2>1 DEF StartLogin
<1>3. ASSUME NEW l \in Logins, LoginOpens(l) \/ LoginExpires(l) \/ CompleteLogin(l) \/ LoginRefused(l) PROVE SessionInv' /\ stored' = stored
  <2>s. stored' = stored BY <1>3 DEF LoginOpens, LoginExpires, CompleteLogin, LoginRefused
  <2>1. CASE LoginOpens(l) BY <2>1, <2>s, <1>r DEF LoginOpens, LoginRows
  <2>2. CASE LoginExpires(l) BY <2>2, <2>s, <1>r DEF LoginExpires, LoginRows
  <2>3. CASE CompleteLogin(l) BY <2>3, <2>s, <1>r DEF CompleteLogin, LoginRows
  <2>4. CASE LoginRefused(l)
    <3>1. PICK p \in {"open", "ended"} : logins' = [logins EXCEPT ![l].phase = p] BY <2>4 DEF LoginRefused
    <3> QED BY <3>1, <2>s, <1>r DEF LoginRows
  <2> QED BY <1>3, <2>1, <2>2, <2>3, <2>4
<1>4. ASSUME NEW l \in Logins, CancelLogin(l) PROVE SessionInv' /\ stored' = stored
  BY <1>4, <1>r, CancelledKeeps DEF CancelLogin
<1>5. ASSUME NEW l \in Logins, LoginAccepted(l)
      PROVE SessionInv' /\ logins[l].phase = "validating" /\ logins'[l].phase = "ended" /\ stored' = l
  BY <1>5, <1>r DEF LoginAccepted, LoginRows
<1>6. CASE \/ \E c \in Checks : StartCheck(c) \/ CheckBreaks(c) \/ (\E good \in BOOLEAN : EndCheck(c, good))
           \/ \E u \in Uses : StartUse(u) \/ UseRefused(u)
  BY <1>6 DEF StartCheck, CheckBreaks, EndCheck, StartUse, UseRefused
<1>7. CASE Disconnect BY <1>7 DEF Disconnect
<1>8. ASSUME NEW u \in Uses, UseAnswered(u) PROVE SessionInv' /\ (stored = None => stored' = None)
  <2>1. logins' = logins BY <1>8 DEF UseAnswered
  <2>2. stored = None => ~MayRefresh BY DEF MayRefresh, Loaded
  <2> QED BY <1>8, <2>1, <2>2 DEF UseAnswered
<1>9. CASE SessionCrash
  <2>1. PICK s \in {stored, None} \cup {l \in Logins : logins[l].phase = "validating"}, keyKept \in BOOLEAN :
          stored' = IF keyKept \/ s = None THEN s ELSE Unreadable
    BY <1>9 DEF SessionCrash
  <2>2. logins' = [l \in Logins |-> IF logins[l].phase = "none" THEN NoLogin ELSE [NoLogin EXCEPT !.phase = "ended"]]
    BY <1>9 DEF SessionCrash
  <2>3. [NoLogin EXCEPT !.phase = "ended"] \in LoginRows /\ [NoLogin EXCEPT !.phase = "ended"].phase = "ended"
    BY DEF NoLogin, LoginRows
  <2>4. SessionInv' BY <2>2, <2>3, <1>n
  <2>5. ASSUME stored = None, stored' # None
        PROVE  \E l \in Logins : logins[l].phase = "validating" /\ logins'[l].phase = "ended" /\ stored' \in {l, Unreadable}
    <3>1. s \in Logins /\ logins[s].phase = "validating" /\ stored' \in {s, Unreadable} BY <2>1, <2>5
    <3>2. logins'[s] = [NoLogin EXCEPT !.phase = "ended"] BY <2>2, <3>1
    <3> QED BY <3>1, <3>2, <2>3
  <2> QED BY <2>4, <2>5
<1> QED BY <1>1, <1>2, <1>3, <1>4, <1>5, <1>6, <1>7, <1>8, <1>9 DEF SessionsNext, LoginStep

(* There is no login at the start.                                             *)
LEMMA SessionInitially == ASSUME SessionsInit PROVE SessionInv
BY DEF SessionsInit, SessionInv, NoLogin, LoginRows

HIDE SessionsAssumption

-----------------------------------------------------------------------------
(* ONE FILE. The part in the staging area is of one version, no older than the   *)
(* one it is recorded as (PartOfOne): it may be of a newer one, when the body of *)
(* that broke off before its headers were saved; but then the site has left the  *)
(* recorded one behind, and nothing it answers continues it.                     *)
(* Sites that keep to what a range is of, or say of which version theirs is.     *)
RangesAreNamed == \A s \in FileSites : s.ranges # "silent"

FileShape ==
  /\ fileSite \in FileSites /\ online \in FileVersions
  /\ stagedFile \in {NoPart} \cup Seq(FileVersions \X Nat)
  /\ fileState \in KnownOfFile /\ attempt \in Attempts /\ fileFaults \in Nat

(* The file begins as version v does.                                            *)
Begins(file, v) == Len(file) <= FileLength[v] /\ \A n \in 1 .. Len(file) : file[n] = Chunk(v, n)

(* The part is of one version, no older than the one it is known as: a site only *)
(* goes on to new ones, so what is answered for the old one is not asked for.    *)
PartOfOne ==
  /\ fileState.validator <= online
  /\ stagedFile # NoPart => \E v \in FileVersions : Begins(stagedFile, v) /\ fileState.validator <= v /\ v <= online

(* What arrives goes on where the part ends.                                     *)
BodyGoesOn ==
  /\ attempt.pc = "body" =>
       /\ attempt.of \in FileVersions /\ attempt.of <= online /\ fileState.validator <= attempt.of
       /\ stagedFile # NoPart /\ Begins(stagedFile, attempt.of) /\ attempt.offset = Len(stagedFile)
       /\ attempt.told.validator \in {0, attempt.of}
  /\ (attempt.pc = "ask" /\ attempt.rest = TRUE) => StagedSize > 0 /\ fileState.validator # 0

FileInv == FileShape /\ PartOfOne /\ BodyGoesOn

USE FilesAssumption

(* Nothing is fetched at the start.                                            *)
LEMMA FileInitially == ASSUME FileInit PROVE FileInv
<1> USE DEF FileInit
<1>1. FileShape BY DEF FileShape, FileVersions, KnownOfFile, NothingKnown, NoAttempt, Attempts
<1>2. fileState.validator = 0 /\ attempt.pc = "queued" BY DEF NothingKnown, NoAttempt
<1>3. PartOfOne BY <1>2 DEF PartOfOne
<1>4. BodyGoesOn BY <1>2 DEF BodyGoesOn
<1> QED BY <1>1, <1>3, <1>4 DEF FileInv

(* A part of some length is a sequence.                                          *)
LEMMA StagedFacts ==
  ASSUME FileShape
  PROVE  /\ NoPart \notin Seq(FileVersions \X Nat)
         /\ stagedFile # NoPart => stagedFile \in Seq(FileVersions \X Nat) /\ StagedSize = Len(stagedFile) /\ Len(stagedFile) \in Nat
         /\ stagedFile = NoPart => StagedSize = 0
         /\ \A v \in FileVersions : v \in Nat /\ v # 0 /\ FileLength[v] \in Nat
         /\ <<>> \in Seq(FileVersions \X Nat) /\ Len(<<>>) = 0 /\ \A v \in FileVersions : Begins(<<>>, v)
BY DEF FileShape, FileVersions, StagedSize, Begins

(* The answer that a part is continued by is of the version the part is of.      *)
LEMMA ContinuedIsOfOne ==
  ASSUME FileInv, RangesAreNamed, attempt.pc = "ask", ContinuesPart(FileAnswer)
  PROVE  /\ stagedFile # NoPart /\ online = fileState.validator /\ Begins(stagedFile, online)
         /\ FileAnswer.offset = Len(stagedFile) /\ FileAnswer.tag \in {0, online} /\ FileAnswer.total \in Nat
<1> USE DEF FileInv
<1>1. attempt.rest = TRUE /\ fileSite.ranges \in {"none", "honest", "terse", "careless", "shifted"}
  BY DEF ContinuesPart, FileShape, Attempts, RangesAreNamed
<1>2. StagedSize > 0 /\ fileState.validator # 0 BY <1>1 DEF BodyGoesOn
<1>3. stagedFile # NoPart /\ StagedSize = Len(stagedFile) /\ Len(stagedFile) \in Nat BY <1>2, StagedFacts
<1>4. FileLength[online] \in Nat /\ online \in Nat /\ online # 0 BY StagedFacts DEF FileShape
<1>5. \/ FileAnswer = Answer206(StagedSize, 0) /\ online = fileState.validator
      \/ FileAnswer = Answer206(StagedSize, online)
  <2>1. FileAnswer.status = 206 /\ FileAnswer.offset = StagedSize BY DEF ContinuesPart
  <2>2. Answer200.status = 200 /\ Answer416.status = 416 /\ Answer206(0, online).offset = 0 BY DEF Answer200, Answer416, Answer206
  <2>3. fileSite.ranges # "none" /\ fileSite.ranges # "shifted" BY <1>1, <1>2, <2>1, <2>2 DEF FileAnswer
  <2>4. fileSite.ranges \in {"honest", "terse"} => online = fileState.validator
    BY <1>1, <2>1, <2>2, <2>3 DEF FileAnswer
  <2>5. FileAnswer = Answer206(StagedSize, IF fileSite.ranges \in {"terse", "silent"} THEN 0 ELSE online)
    BY <1>1, <2>1, <2>2, <2>3, <2>4 DEF FileAnswer
  <2> QED BY <1>1, <2>3, <2>4, <2>5
<1>6. /\ FileAnswer.offset = Len(stagedFile) /\ FileAnswer.tag \in {0, online} /\ FileAnswer.total \in Nat
      /\ online = fileState.validator
  BY <1>2, <1>3, <1>4, <1>5 DEF Answer206, ContinuesPart
<1>7. PICK v \in FileVersions : Begins(stagedFile, v) /\ fileState.validator <= v /\ v <= online
  BY <1>3 DEF PartOfOne
<1>8. v = online BY <1>6, <1>7, <1>4, StagedFacts
<1> QED BY <1>3, <1>6, <1>7, <1>8

(* The headers arrive, of the rest or of the whole.                            *)
LEMMA HeadersKeep == ASSUME FileInv, RangesAreNamed, HeadersArrive PROVE FileInv'
<1> USE DEF FileInv
<1>h. attempt.pc = "ask" /\ UNCHANGED <<fileSite, online, fileState, fileAttempts, fileFaults>> BY DEF HeadersArrive
<1>t. attempt \in Attempts /\ online \in FileVersions /\ fileState \in KnownOfFile BY DEF FileShape
<1>1. CASE AsksAnew(FileAnswer) /\ attempt' = [attempt EXCEPT !.rest = FALSE] /\ UNCHANGED stagedFile
  <2>1. attempt' \in Attempts /\ attempt'.pc = "ask" /\ attempt'.rest = FALSE BY <1>1, <1>h, <1>t DEF Attempts
  <2> QED BY <1>1, <1>h, <2>1 DEF FileShape, PartOfOne, BodyGoesOn
<1>2. ASSUME NEW whole \in BOOLEAN, whole = TRUE => FileAnswer.status = 200, whole = FALSE => ContinuesPart(FileAnswer),
             attempt' = [attempt EXCEPT !.pc = "body", !.of = online, !.offset = IF whole THEN 0 ELSE FileAnswer.offset,
                                        !.told = [validator |-> FileAnswer.tag, expected |-> FileAnswer.total]],
             stagedFile' = IF whole THEN <<>> ELSE stagedFile
      PROVE  FileInv'
  <2>v. online \in Nat /\ online # 0 /\ online <= LastVersion /\ FileLength[online] \in Nat
        /\ 0 \in 0 .. LastVersion /\ online \in 0 .. LastVersion
    BY <1>t DEF FileVersions
  <2>1. FileAnswer.tag \in {0, online} /\ FileAnswer.total \in Nat
    <3>1. CASE whole = TRUE
      <4>1. Answer206(0, online).status = 206 /\ Answer416.status = 416
            /\ \A from, tag : Answer206(from, tag).status = 206
        BY DEF Answer206, Answer416, Answer200
      <4>2. FileAnswer = Answer200 BY <1>2, <3>1, <4>1 DEF FileAnswer
      <4> QED BY <4>2, <2>v DEF Answer200
    <3>2. CASE whole = FALSE BY <1>2, <1>h, <3>2, ContinuedIsOfOne
    <3> QED BY <3>1, <3>2
  <2>2. PICK off \in Nat : off = IF whole THEN 0 ELSE FileAnswer.offset
    <3>1. whole = FALSE => FileAnswer.offset \in Nat BY <1>2, <1>h, ContinuedIsOfOne, StagedFacts
    <3> QED BY <3>1
  <2>3. PICK told \in KnownOfFile : told = [validator |-> FileAnswer.tag, expected |-> FileAnswer.total]
    BY <2>1, <2>v DEF KnownOfFile
  <2>4. attempt' = [attempt EXCEPT !.pc = "body", !.of = online, !.offset = off, !.told = told]
    BY <1>2, <2>2, <2>3
  <2>5. attempt' \in Attempts /\ attempt'.pc = "body" /\ attempt'.of = online /\ attempt'.offset = off /\ attempt'.told = told
    BY <2>4, <1>t, <2>v DEF Attempts
  <2>6. /\ stagedFile' \in Seq(FileVersions \X Nat) /\ stagedFile' # NoPart /\ Begins(stagedFile', online)
        /\ Len(stagedFile') = off
    <3>1. CASE whole = TRUE BY <3>1, <1>2, <2>2, <1>t, StagedFacts
    <3>2. CASE whole = FALSE
      <4>1. stagedFile' = stagedFile /\ off = FileAnswer.offset BY <3>2, <1>2, <2>2
      <4> QED BY <4>1, <3>2, <1>2, <1>h, ContinuedIsOfOne, StagedFacts
    <3> QED BY <3>1, <3>2
  <2>7. fileState.validator <= online BY DEF PartOfOne
  <2>8. FileShape' BY <1>h, <2>5, <2>6 DEF FileShape
  <2>9. online <= online BY <2>v
  <2>10. PartOfOne' BY <1>h, <1>t, <2>6, <2>7, <2>9 DEF PartOfOne
  <2>11. told.validator \in {0, online} BY <2>1, <2>3
  <2>12. BodyGoesOn' BY <1>h, <1>t, <2>5, <2>6, <2>7, <2>9, <2>11 DEF BodyGoesOn
  <2> QED BY <2>8, <2>10, <2>12
<1>3. FileAnswer.status = 200 \/ ContinuesPart(FileAnswer) =>
        \/ AsksAnew(FileAnswer) /\ attempt' = [attempt EXCEPT !.rest = FALSE] /\ UNCHANGED stagedFile
        \/ \E whole \in BOOLEAN :
             /\ whole = TRUE => FileAnswer.status = 200
             /\ whole = FALSE => ContinuesPart(FileAnswer)
             /\ attempt' = [attempt EXCEPT !.pc = "body", !.of = online, !.offset = IF whole THEN 0 ELSE FileAnswer.offset,
                                           !.told = [validator |-> FileAnswer.tag, expected |-> FileAnswer.total]]
             /\ stagedFile' = IF whole THEN <<>> ELSE stagedFile
  <2>1. CASE AsksAnew(FileAnswer) /\ attempt' = [attempt EXCEPT !.rest = FALSE] /\ UNCHANGED stagedFile BY <2>1
  <2>2. CASE ~ContinuesPart(FileAnswer) BY <2>2 DEF HeadersArrive
  <2>3. CASE ContinuesPart(FileAnswer) BY <2>3 DEF HeadersArrive
  <2> QED BY <2>1, <2>2, <2>3
<1> QED BY <1>1, <1>2, <1>3 DEF HeadersArrive

(* A chunk arrives.                                                            *)
LEMMA ChunkKeeps == ASSUME FileInv, ChunkArrives PROVE FileInv'
<1> USE DEF FileInv
<1>h. /\ attempt.pc = "body" /\ UNCHANGED <<fileSite, online, fileState, fileAttempts, fileFaults>>
      /\ stagedFile' = Append(stagedFile, Chunk(attempt.of, attempt.offset + 1)) /\ attempt' = [attempt EXCEPT !.offset = @ + 1]
      /\ Len(stagedFile) < FileLength[attempt.of]
  BY DEF ChunkArrives
<1>t. attempt \in Attempts BY DEF FileShape
<1>b. /\ attempt.of \in FileVersions /\ attempt.of <= online /\ fileState.validator <= attempt.of
      /\ stagedFile # NoPart /\ Begins(stagedFile, attempt.of) /\ attempt.offset = Len(stagedFile)
      /\ attempt.told.validator \in {0, attempt.of}
  BY <1>h DEF BodyGoesOn
<1>1. PICK v \in FileVersions, len \in Nat : v = attempt.of /\ len = Len(stagedFile) BY <1>b, StagedFacts
<1>2. attempt' \in Attempts /\ attempt'.pc = "body" /\ attempt'.of = v /\ attempt'.offset = len + 1 /\ attempt'.told = attempt.told
  <2>1. attempt.offset + 1 \in Nat /\ attempt.offset + 1 = len + 1 BY <1>b, <1>1
  <2> QED BY <1>h, <1>t, <1>1, <2>1 DEF Attempts
<1>3. /\ stagedFile' \in Seq(FileVersions \X Nat) /\ Len(stagedFile') = len + 1
      /\ \A n \in 1 .. len : stagedFile'[n] = stagedFile[n]
      /\ stagedFile'[len + 1] = Chunk(v, len + 1)
  <2>1. stagedFile \in Seq(FileVersions \X Nat) BY <1>b, StagedFacts
  <2>2. Chunk(v, len + 1) \in FileVersions \X Nat BY <1>1 DEF Chunk
  <2>3. stagedFile' = Append(stagedFile, Chunk(v, len + 1)) BY <1>h, <1>b, <1>1
  <2> QED BY <2>1, <2>2, <2>3, <1>1, AppendProperties
<1>4. Begins(stagedFile', v)
  <2>1. len + 1 <= FileLength[v] BY <1>h, <1>1, <1>b, StagedFacts
  <2>2. \A n \in 1 .. len + 1 : n \in 1 .. len \/ n = len + 1 BY <1>1
  <2>3. \A n \in 1 .. len : stagedFile[n] = Chunk(v, n) BY <1>b, <1>1 DEF Begins
  <2> QED BY <1>3, <2>1, <2>2, <2>3 DEF Begins
<1>5. stagedFile' # NoPart BY <1>3, StagedFacts
<1>6. FileShape' BY <1>h, <1>2, <1>3 DEF FileShape
<1>7. PartOfOne' BY <1>h, <1>b, <1>1, <1>4 DEF PartOfOne
<1>8. BodyGoesOn' BY <1>h, <1>b, <1>1, <1>2, <1>3, <1>4, <1>5 DEF BodyGoesOn
<1> QED BY <1>6, <1>7, <1>8

(* The body ends.                                                              *)
LEMMA BodyEndKeeps == ASSUME FileInv, BodyEnds PROVE FileInv'
<1> USE DEF FileInv
<1>h. /\ attempt.pc = "body" /\ UNCHANGED <<fileSite, online, stagedFile, fileAttempts, fileFaults>>
      /\ fileState' = attempt.told /\ attempt' = [NoAttempt EXCEPT !.pc = "verify"]
  BY DEF BodyEnds
<1>b. /\ attempt.of \in FileVersions /\ attempt.of <= online
      /\ stagedFile # NoPart /\ Begins(stagedFile, attempt.of)
      /\ attempt.told.validator \in {0, attempt.of}
  BY <1>h DEF BodyGoesOn
<1>1. attempt' \in Attempts /\ attempt'.pc = "verify"
  <2>1. NoAttempt \in Attempts BY DEF NoAttempt, NothingKnown, Attempts, KnownOfFile
  <2> QED BY <1>h, <2>1 DEF Attempts
<1>2. fileState' \in KnownOfFile /\ fileState'.validator \in {0, attempt.of} BY <1>h, <1>b DEF FileShape, Attempts
<1>3. fileState'.validator <= attempt.of /\ fileState'.validator <= online
  BY <1>2, <1>b DEF FileShape, FileVersions
<1> QED BY <1>h, <1>b, <1>1, <1>2, <1>3 DEF FileShape, PartOfOne, BodyGoesOn

(* What ends an attempt or follows its body leaves the part, or deletes it.      *)
LEMMA OtherFileSteps ==
  ASSUME FileInv,
         \/ StartAttempt \/ FileVerified \/ FoundBad \/ FileCommitted \/ UnexpectedResponse \/ TooLarge
         \/ AttemptBreaks \/ UserRetries \/ SiteReplacesFile
  PROVE  FileInv'
<1> USE DEF FileInv
<1>t. attempt \in Attempts /\ fileState \in KnownOfFile /\ online \in FileVersions /\ fileFaults \in Nat BY DEF FileShape
<1>n. NoAttempt \in Attempts /\ NoAttempt.pc = "queued" /\ NothingKnown \in KnownOfFile /\ NothingKnown.validator = 0
  BY DEF NoAttempt, NothingKnown, Attempts, KnownOfFile
<1>1. CASE StartAttempt
  <2>1. attempt' = [NoAttempt EXCEPT !.pc = "ask", !.rest = FileResumable]
        /\ UNCHANGED <<fileSite, online, stagedFile, fileState, fileFaults>>
    BY <1>1 DEF StartAttempt
  <2>2. FileResumable \in BOOLEAN /\ (FileResumable => StagedSize > 0 /\ fileState.validator # 0) BY DEF FileResumable
  <2>3. attempt' \in Attempts /\ attempt'.pc = "ask" /\ attempt'.rest = FileResumable BY <2>1, <2>2, <1>n DEF Attempts
  <2>4. StagedSize' = StagedSize BY <2>1 DEF StagedSize
  <2> QED BY <2>1, <2>2, <2>3, <2>4 DEF FileShape, PartOfOne, BodyGoesOn
<1>2. CASE FileVerified \/ FileCommitted
  <2>1. PICK pc \in {"commit", "done"} : attempt' = [attempt EXCEPT !.pc = pc]
    BY <1>2 DEF FileVerified, FileCommitted
  <2>2. attempt' \in Attempts /\ attempt'.pc = pc BY <2>1, <1>t DEF Attempts
  <2>3. stagedFile' \in {stagedFile, NoPart} /\ UNCHANGED <<fileSite, online, fileState, fileFaults>>
    BY <1>2 DEF FileVerified, FileCommitted
  <2> QED BY <2>2, <2>3 DEF FileShape, PartOfOne, BodyGoesOn
<1>3. CASE FoundBad \/ UnexpectedResponse \/ TooLarge \/ AttemptBreaks
  <2>1. /\ attempt' = NoAttempt /\ UNCHANGED <<fileSite, online>> /\ fileFaults' \in {fileFaults, fileFaults + 1}
        /\ \/ stagedFile' = stagedFile /\ fileState' = fileState
           \/ stagedFile' = NoPart /\ fileState' = NothingKnown
    BY <1>3 DEF FoundBad, UnexpectedResponse, TooLarge, AttemptBreaks
  <2>2. fileFaults' \in Nat BY <2>1, <1>t
  <2> QED BY <2>1, <2>2, <1>t, <1>n DEF FileShape, PartOfOne, BodyGoesOn, FileVersions
<1>4. CASE UserRetries
  <2>1. /\ attempt.pc = "queued" /\ fileState' = NothingKnown /\ stagedFile' \in {stagedFile, NoPart}
        /\ UNCHANGED <<fileSite, online, attempt, fileFaults>>
    BY <1>4 DEF UserRetries
  <2>2. \A v \in FileVersions : 0 <= v BY DEF FileVersions
  <2> QED BY <2>1, <2>2, <1>t, <1>n DEF FileShape, PartOfOne, BodyGoesOn
<1>5. CASE SiteReplacesFile
  <2>1. online' = online + 1 /\ online < LastVersion /\ UNCHANGED <<fileSite, stagedFile, fileState, attempt, fileFaults>>
    BY <1>5 DEF SiteReplacesFile
  <2>2. online' \in FileVersions /\ \A v \in Nat : v <= online => v <= online' BY <2>1, <1>t DEF FileVersions
  <2>3. fileState.validator \in Nat /\ \A v \in FileVersions : v \in Nat BY <1>t DEF KnownOfFile, FileVersions
  <2>4. StagedSize' = StagedSize BY <2>1 DEF StagedSize
  <2>5. FileShape' BY <2>1, <2>2 DEF FileShape
  <2>6. PartOfOne' BY <2>1, <2>2, <2>3 DEF PartOfOne
  <2>7. BodyGoesOn' BY <2>1, <2>2, <2>3, <2>4 DEF BodyGoesOn
  <2> QED BY <2>5, <2>6, <2>7
<1> QED BY <1>1, <1>2, <1>3, <1>4, <1>5

(* A request that is answered at all never ends the attempt.                     *)
LEMMA AnsweredGoesOn ==
  ASSUME FileInv, UnexpectedResponse
  PROVE  fileFaults' > fileFaults
<1>1. PICK a \in FileAnswers :
        /\ a.status # 200 /\ ~ContinuesPart(a) /\ ~AsksAnew(a)
        /\ fileFaults' = IF a = Refusal THEN fileFaults + 1 ELSE fileFaults
  BY DEF UnexpectedResponse
<1>2. Answer200.status = 200 /\ Answer416.status = 416 /\ \A from, tag : Answer206(from, tag).status = 206
  BY DEF Answer200, Answer416, Answer206
<1>3. FileAnswer.status = 200 \/ (attempt.rest /\ FileAnswer.status \in {206, 416})
  <2>1. attempt.rest \in BOOLEAN BY DEF FileInv, FileShape, Attempts
  <2>2. attempt.rest = FALSE => FileAnswer = Answer200 BY DEF FileAnswer
  <2>3. FileAnswer \in {Answer200, Answer416, Answer206(0, online), Answer206(StagedSize, 0), Answer206(StagedSize, online)}
    <3> DEFINE tag == IF fileSite.ranges \in {"terse", "silent"} THEN 0 ELSE online
    <3>1. tag \in {0, online} OBVIOUS
    <3>2. FileAnswer \in {Answer200, Answer416, Answer206(0, online), Answer206(StagedSize, tag)} BY DEF FileAnswer
    <3> QED BY <3>1, <3>2
  <2>4. FileAnswer.status \in {200, 206, 416} BY <2>3, <1>2
  <2>5. CASE attempt.rest = FALSE
    BY <2>2, <2>5, <1>2
  <2>6. CASE attempt.rest = TRUE
    BY <2>4, <2>6
  <2> QED BY <2>1, <2>5, <2>6
<1>4. a = Refusal BY <1>1, <1>3 DEF FileAnswers, AsksAnew
<1> QED BY <1>1, <1>4 DEF FileInv, FileShape

(* Every step of a download of one file.                                         *)
LEMMA FileStep ==
  ASSUME FileInv, RangesAreNamed, [FileNext]_fileVars
  PROVE  FileInv' /\ [attempt.pc = "ask" /\ attempt' = NoAttempt => fileFaults' > fileFaults]_fileVars
<1>1. CASE UNCHANGED fileVars
  <2>1. StagedSize' = StagedSize BY <1>1 DEF fileVars, StagedSize
  <2> QED BY <1>1, <2>1 DEF fileVars, FileInv, FileShape, PartOfOne, BodyGoesOn
<1>2. CASE FileNext
  <2>1. FileInv' BY <1>2, HeadersKeep, ChunkKeeps, BodyEndKeeps, OtherFileSteps DEF FileNext, AttemptSteps
  <2>2. ASSUME attempt.pc = "ask", attempt' = NoAttempt PROVE fileFaults' > fileFaults
    <3>1. NoAttempt.pc = "queued" /\ attempt \in Attempts BY DEF NoAttempt, FileInv, FileShape
    <3>2. attempt'.pc = "queued" BY <2>2, <3>1
    <3>3. HeadersArrive => attempt'.pc \in {"ask", "body"} BY <2>2, <3>1 DEF HeadersArrive, Attempts
    <3>4. ~StartAttempt /\ ~ChunkArrives /\ ~BodyEnds /\ ~FileVerified /\ ~FoundBad /\ ~FileCommitted
          /\ ~TooLarge /\ ~AttemptBreaks /\ ~UserRetries
      BY <2>2 DEF StartAttempt, ChunkArrives, BodyEnds, FileVerified, FoundBad, FileCommitted, TooLarge, AttemptBreaks, UserRetries
    <3>5. SiteReplacesFile => attempt' = attempt BY DEF SiteReplacesFile
    <3>6. ~SiteReplacesFile BY <3>2, <3>5, <2>2
    <3>7. UnexpectedResponse BY <3>2, <3>3, <3>4, <3>6, <1>2 DEF FileNext, AttemptSteps
    <3> QED BY <3>7, AnsweredGoesOn
  <2> QED BY <2>1, <2>2
<1> QED BY <1>1, <1>2

(* What the invariant says of the property.                                    *)
LEMMA FileInvShows == ASSUME FileInv PROVE NeverSpliced
<1> SUFFICES ASSUME stagedFile # NoPart PROVE \E v \in FileVersions : IsPrefix(stagedFile, Body(v))
  BY DEF NeverSpliced
<1>1. PICK v \in FileVersions : Begins(stagedFile, v) BY DEF FileInv, PartOfOne
<1>2. PICK len \in Nat : len = Len(stagedFile) /\ stagedFile \in Seq(FileVersions \X Nat)
  BY StagedFacts DEF FileInv
<1>3. Len(Body(v)) = FileLength[v] /\ \A n \in 1 .. FileLength[v] : Body(v)[n] = Chunk(v, n)
  BY StagedFacts DEF Body, FileInv
<1>4. \A n \in 1 .. len : stagedFile[n] = Body(v)[n]
  BY <1>1, <1>2, <1>3, StagedFacts DEF Begins, FileInv
<1>5. SubSeq(stagedFile, 1, len) = [n \in 1 .. len |-> stagedFile[n]] /\ SubSeq(Body(v), 1, len) = [n \in 1 .. len |-> Body(v)[n]]
  BY <1>2
<1>6. len <= Len(Body(v)) BY <1>1, <1>2, <1>3 DEF Begins
<1> QED BY <1>2, <1>4, <1>5, <1>6 DEF IsPrefix

HIDE FilesAssumption

-----------------------------------------------------------------------------
(* PAGES. What an attempt has passed is in place and recorded, nothing past the  *)
(* end of its list is (FetchedSoFar), and a record says whose image was checked  *)
(* (RecordsAreTrue), so what is skipped is the page that is listed.              *)
PageRows == {NoImage} \cup [url : PageUrls, image : PageUrls]
UnitPagesShape ==
  /\ pageListed \in PageLists
  /\ pageFiles \in [PagePlaces -> {NoImage} \cup PageUrls] /\ pageRecords \in [PagePlaces -> PageRows]
  /\ fetching \in [pc : {"queued", "page", "record", "package", "done"}, list : PageLists \cup {<<>>}, at : Nat]

(* What is recorded of a page is the image of its url.                           *)
RecordsAreTrue == \A n \in PagePlaces : pageRecords[n] # NoImage => pageRecords[n].image = pageRecords[n].url

(* What the attempt has passed is recorded and in place, and nothing is recorded *)
(* past the end of its list.                                                     *)
FetchedSoFar ==
  /\ fetching.pc \in {"page", "record"} =>
       /\ fetching.list \in PageLists /\ fetching.at \in 1 .. Len(fetching.list) + 1
       /\ \A n \in PagePlaces : n > Len(fetching.list) => pageRecords[n] = NoImage
       /\ \A n \in 1 .. fetching.at - 1 : pageRecords[n] # NoImage /\ pageFiles[n] = fetching.list[n]
  /\ fetching.pc = "record" => fetching.at <= Len(fetching.list) /\ pageFiles[fetching.at] = fetching.list[fetching.at]

(* There is an archive only of the attempt that ends with it.                    *)
ArchiveIsWhole == packaged # <<>> => fetching.pc = "done" /\ packaged = fetching.list

UnitPagesInv == UnitPagesShape /\ RecordsAreTrue /\ FetchedSoFar /\ ArchiveIsWhole

USE PageListsAssumption

(* There is a place for every page that can be listed.                           *)
LEMMA PlacesSuffice ==
  /\ \E last \in Nat : PagePlaces = 1 .. last
  /\ \A l \in PageLists : l \in Seq(PageUrls) /\ Len(l) \in Nat /\ 1 .. Len(l) \subseteq PagePlaces
<1>1. PICK longest \in PageLists : \A l \in PageLists : Len(l) <= Len(longest) OBVIOUS
<1>2. \A l \in PageLists : l \in Seq(PageUrls) /\ Len(l) \in Nat OBVIOUS
<1> DEFINE last == CHOOSE n \in {Len(l) : l \in PageLists} : \A l \in PageLists : Len(l) <= n
<1>3. last \in {Len(l) : l \in PageLists} /\ \A l \in PageLists : Len(l) <= last BY <1>1
<1>4. last \in Nat /\ PagePlaces = 1 .. last BY <1>2, <1>3 DEF PagePlaces
<1> HIDE DEF last
<1>5. \A l \in PageLists : 1 .. Len(l) \subseteq 1 .. last BY <1>2, <1>3, <1>4
<1> QED BY <1>2, <1>4, <1>5

(* What an attempt under way is at.                                              *)
LEMMA FetchFacts ==
  ASSUME UnitPagesInv, fetching.pc \in {"page", "record"}
  PROVE  /\ fetching.list \in PageLists /\ Len(fetching.list) \in Nat /\ fetching.at \in Nat /\ fetching.at > 0
         /\ fetching.at <= Len(fetching.list) + 1
         /\ \A n \in 1 .. Len(fetching.list) : n \in PagePlaces /\ fetching.list[n] \in PageUrls
         /\ PagePlaces \subseteq Nat
<1>1. fetching.list \in PageLists /\ fetching.at \in 1 .. Len(fetching.list) + 1 BY DEF UnitPagesInv, FetchedSoFar
<1>2. fetching.list \in Seq(PageUrls) /\ Len(fetching.list) \in Nat /\ 1 .. Len(fetching.list) \subseteq PagePlaces
  BY <1>1, PlacesSuffice
<1>3. PagePlaces \subseteq Nat BY PlacesSuffice
<1> QED BY <1>1, <1>2, <1>3

(* Nothing is fetched at the start.                                            *)
LEMMA UnitPagesInitially == ASSUME PagesOfUnitInit PROVE UnitPagesInv
<1>1. fetching.pc = "queued" /\ UnitPagesShape BY DEF PagesOfUnitInit, NoFetch, UnitPagesShape, PageRows
<1> QED BY <1>1 DEF PagesOfUnitInit, UnitPagesInv, RecordsAreTrue, FetchedSoFar, ArchiveIsWhole

(* An attempt begins with the list it gets.                                    *)
LEMMA BeginKeeps == ASSUME UnitPagesInv, BeginPages PROVE UnitPagesInv'
<1> USE DEF UnitPagesInv
<1>h. /\ fetching' = [pc |-> "page", list |-> pageListed, at |-> 1] /\ pageRecords' = WithoutStale(pageListed)
      /\ UNCHANGED <<pageListed, pageFiles, packaged, pageFaults>> /\ fetching.pc = "queued"
  BY DEF BeginPages
<1>1. pageListed \in PageLists /\ Len(pageListed) \in Nat BY PlacesSuffice DEF UnitPagesShape
<1>2. \A n \in PagePlaces : pageRecords'[n] = IF n > Len(pageListed) THEN NoImage ELSE pageRecords[n] BY <1>h DEF WithoutStale
<1>3. pageRecords' \in [PagePlaces -> PageRows] BY <1>h DEF WithoutStale, PageRows, UnitPagesShape
<1>4. UnitPagesShape' BY <1>h, <1>1, <1>3 DEF UnitPagesShape
<1>5. RecordsAreTrue' BY <1>2 DEF RecordsAreTrue
<1>6. fetching'.pc = "page" /\ fetching'.list = pageListed /\ fetching'.at = 1 /\ 1 .. 1 - 1 = {} BY <1>h
<1>7. FetchedSoFar'
  <2>1. fetching'.list \in PageLists /\ fetching'.at \in 1 .. Len(fetching'.list) + 1 BY <1>6, <1>1
  <2>2. \A n \in PagePlaces : n > Len(fetching'.list) => pageRecords'[n] = NoImage BY <1>2, <1>6
  <2>3. \A n \in 1 .. fetching'.at - 1 : FALSE BY <1>6
  <2> QED BY <1>6, <2>1, <2>2, <2>3 DEF FetchedSoFar
<1>8. ArchiveIsWhole' BY <1>h DEF ArchiveIsWhole
<1> QED BY <1>4, <1>5, <1>7, <1>8

(* A page is skipped, arrives or is recorded.                                  *)
LEMMA PageKeeps == ASSUME UnitPagesInv, SkipPage \/ PageArrives \/ RecordPage PROVE UnitPagesInv'
<1> USE DEF UnitPagesInv
<1>h. fetching.pc \in {"page", "record"} /\ UNCHANGED <<pageListed, packaged>> BY DEF SkipPage, PageArrives, RecordPage
<1>f. /\ fetching.list \in PageLists /\ Len(fetching.list) \in Nat /\ fetching.at \in Nat /\ fetching.at > 0
      /\ fetching.at <= Len(fetching.list) + 1
      /\ \A n \in 1 .. Len(fetching.list) : n \in PagePlaces /\ fetching.list[n] \in PageUrls
      /\ PagePlaces \subseteq Nat
  BY <1>h, FetchFacts
<1>e. packaged = <<>> /\ ArchiveIsWhole' BY <1>h DEF ArchiveIsWhole
<1>1. PICK list \in PageLists, len \in Nat, at \in Nat \ {0} : list = fetching.list /\ len = Len(list) /\ at = fetching.at
  BY <1>f
<1>a. at <= len /\ at \in PagePlaces /\ list[at] \in PageUrls /\ list[at] # NoImage
  <2>1. at <= len BY <1>1 DEF SkipPage, PageArrives, RecordPage, FetchedSoFar
  <2> QED BY <2>1, <1>1, <1>f
<1>s. \A n \in PagePlaces : n > len => pageRecords[n] = NoImage BY <1>h, <1>1 DEF FetchedSoFar
<1>p. \A n \in 1 .. at - 1 : pageRecords[n] # NoImage /\ pageFiles[n] = list[n] BY <1>h, <1>1 DEF FetchedSoFar
<1>t. fetching \in [pc : {"queued", "page", "record", "package", "done"}, list : PageLists \cup {<<>>}, at : Nat]
      /\ pageFiles \in [PagePlaces -> {NoImage} \cup PageUrls] /\ pageRecords \in [PagePlaces -> PageRows]
  BY DEF UnitPagesShape
<1>u. \A n \in 1 .. at : n \in 1 .. at - 1 \/ n = at BY <1>1
<1>c. at + 1 \in 1 .. len + 1 /\ at \in 1 .. len + 1 /\ at + 1 - 1 = at BY <1>1, <1>a
<1>q. \A n \in 1 .. at - 1 : n # at /\ n \in PagePlaces BY <1>1, <1>a, <1>f
<1>2. CASE SkipPage
  <2>1. fetching' = [fetching EXCEPT !.at = at + 1] /\ fetching.pc = "page" /\ UNCHANGED <<pageFiles, pageRecords>> /\ Skipped(at)
    BY <1>2, <1>1 DEF SkipPage
  <2>2. fetching'.pc = "page" /\ fetching'.list = list /\ fetching'.at = at + 1
        /\ fetching' \in [pc : {"queued", "page", "record", "package", "done"}, list : PageLists \cup {<<>>}, at : Nat]
    BY <2>1, <1>t, <1>1
  <2>3. pageRecords[at] # NoImage /\ pageFiles[at] = list[at] BY <2>1, <1>1, <1>a DEF Skipped, RecordsAreTrue
  <2>4. \A n \in 1 .. at : pageRecords[n] # NoImage /\ pageFiles[n] = list[n] BY <2>3, <1>p, <1>u
  <2>5. FetchedSoFar' BY <2>1, <2>2, <2>4, <1>s, <1>c, <1>1 DEF FetchedSoFar
  <2> QED BY <2>1, <2>2, <2>5, <1>h, <1>e DEF UnitPagesShape, RecordsAreTrue
<1>3. CASE PageArrives
  <2>1. /\ fetching.pc = "page" /\ pageFiles' = [pageFiles EXCEPT ![at] = list[at]]
        /\ fetching' = [fetching EXCEPT !.pc = "record"] /\ UNCHANGED pageRecords
    BY <1>3, <1>1 DEF PageArrives
  <2>2. fetching'.pc = "record" /\ fetching'.list = list /\ fetching'.at = at
        /\ fetching' \in [pc : {"queued", "page", "record", "package", "done"}, list : PageLists \cup {<<>>}, at : Nat]
    BY <2>1, <1>t, <1>1
  <2>3. /\ pageFiles' \in [PagePlaces -> {NoImage} \cup PageUrls] /\ pageFiles'[at] = list[at]
        /\ \A n \in PagePlaces : n # at => pageFiles'[n] = pageFiles[n]
    BY <2>1, <1>t, <1>a
  <2>4. \A n \in 1 .. at - 1 : pageRecords[n] # NoImage /\ pageFiles'[n] = list[n] BY <2>3, <1>p, <1>q
  <2>5. FetchedSoFar' BY <2>1, <2>2, <2>3, <2>4, <1>s, <1>c, <1>1, <1>a DEF FetchedSoFar
  <2> QED BY <2>1, <2>2, <2>3, <2>5, <1>h, <1>e DEF UnitPagesShape, RecordsAreTrue
<1>4. CASE RecordPage
  <2>1. /\ fetching.pc = "record" /\ pageRecords' = [pageRecords EXCEPT ![at] = PageRecord(list[at], pageFiles[at])]
        /\ fetching' = [fetching EXCEPT !.pc = "page", !.at = at + 1] /\ UNCHANGED pageFiles
    BY <1>4, <1>1 DEF RecordPage
  <2>2. fetching'.pc = "page" /\ fetching'.list = list /\ fetching'.at = at + 1
        /\ fetching' \in [pc : {"queued", "page", "record", "package", "done"}, list : PageLists \cup {<<>>}, at : Nat]
    <3>1. at + 1 \in Nat BY <1>1
    <3> QED BY <2>1, <3>1, <1>t, <1>1
  <2>3. pageFiles[at] = list[at] BY <2>1, <1>1 DEF FetchedSoFar
  <2>4. PICK new : new = PageRecord(list[at], list[at]) OBVIOUS
  <2>5. new \in PageRows /\ new # NoImage /\ new.image = new.url BY <2>4, <1>a DEF PageRecord, PageRows
  <2>6. /\ pageRecords' \in [PagePlaces -> PageRows] /\ pageRecords'[at] = new
        /\ \A n \in PagePlaces : n # at => pageRecords'[n] = pageRecords[n]
    <3>1. pageRecords' = [pageRecords EXCEPT ![at] = new] BY <2>1, <2>3, <2>4
    <3> QED BY <3>1, <2>5, <1>t, <1>a
  <2>7. RecordsAreTrue' BY <2>5, <2>6 DEF RecordsAreTrue
  <2>8. \A n \in 1 .. at : pageRecords'[n] # NoImage /\ pageFiles[n] = list[n] BY <2>3, <2>5, <2>6, <1>p, <1>q, <1>u
  <2>9. \A n \in PagePlaces : n > len => pageRecords'[n] = NoImage BY <2>6, <1>s, <1>a, <1>1, <1>f
  <2>10. FetchedSoFar' BY <2>1, <2>2, <2>8, <2>9, <1>c, <1>1 DEF FetchedSoFar
  <2> QED BY <2>1, <2>2, <2>6, <2>7, <2>10, <1>h, <1>e DEF UnitPagesShape
<1> QED BY <1>2, <1>3, <1>4

(* The pages are packaged.                                                     *)
LEMMA PackageKeeps == ASSUME UnitPagesInv, PackagePages PROVE UnitPagesInv'
<1> USE DEF UnitPagesInv
<1>h. /\ AllFetched /\ packaged' = Archive /\ fetching' = [fetching EXCEPT !.pc = "done"]
      /\ UNCHANGED <<pageListed, pageFiles, pageRecords>>
  BY DEF PackagePages
<1>t. fetching \in [pc : {"queued", "page", "record", "package", "done"}, list : PageLists \cup {<<>>}, at : Nat]
  BY DEF UnitPagesShape
<1>f. /\ fetching.list \in PageLists /\ Len(fetching.list) \in Nat /\ fetching.at \in Nat
      /\ fetching.at <= Len(fetching.list) + 1 /\ fetching.at > Len(fetching.list)
  BY <1>h, FetchFacts DEF AllFetched
<1>1. PICK list \in PageLists, len \in Nat : list = fetching.list /\ len = Len(list) /\ fetching.at = len + 1 BY <1>f
<1>2. \A n \in 1 .. len : pageFiles[n] = list[n] BY <1>h, <1>1 DEF FetchedSoFar, AllFetched
<1>3. Archive = [n \in 1 .. len |-> list[n]] BY <1>1, <1>2 DEF Archive
<1>4. list \in Seq(PageUrls) BY PlacesSuffice
<1>5. Archive = list
  <2>1. list = [n \in 1 .. len |-> list[n]] BY ONLY <1>4, <1>1
  <2> QED BY <2>1, <1>3
<1>6. fetching'.pc = "done" /\ fetching'.list = list
      /\ fetching' \in [pc : {"queued", "page", "record", "package", "done"}, list : PageLists \cup {<<>>}, at : Nat]
  BY <1>h, <1>t, <1>1
<1> QED BY <1>h, <1>5, <1>6 DEF UnitPagesShape, RecordsAreTrue, FetchedSoFar, ArchiveIsWhole

(* An attempt ends early, or the site lists the pages anew.                    *)
LEMMA PagesBreak ==
  ASSUME UnitPagesInv, FetchBreaks \/ CancelAndRetry \/ SiteRelists
  PROVE  UnitPagesInv'
<1> USE DEF UnitPagesInv
<1>1. CASE FetchBreaks \/ CancelAndRetry
  <2>1. /\ fetching' = NoFetch /\ packaged' = <<>> /\ UNCHANGED <<pageListed, pageRecords>>
        /\ pageFiles' \in {pageFiles, [n \in PagePlaces |-> NoImage]}
    BY <1>1 DEF FetchBreaks, CancelAndRetry
  <2>2. fetching'.pc = "queued"
        /\ fetching' \in [pc : {"queued", "page", "record", "package", "done"}, list : PageLists \cup {<<>>}, at : Nat]
    BY <2>1 DEF NoFetch
  <2> QED BY <2>1, <2>2 DEF UnitPagesShape, RecordsAreTrue, FetchedSoFar, ArchiveIsWhole
<1>2. CASE SiteRelists
  BY <1>2 DEF SiteRelists, UnitPagesShape, RecordsAreTrue, FetchedSoFar, ArchiveIsWhole
<1> QED BY <1>1, <1>2

(* Every step of a download of one unit's pages.                                 *)
LEMMA UnitPagesStep == ASSUME UnitPagesInv, [PagesOfUnitNext]_pageVars PROVE UnitPagesInv'
<1>1. CASE UNCHANGED pageVars
  BY <1>1 DEF pageVars, UnitPagesInv, UnitPagesShape, RecordsAreTrue, FetchedSoFar, ArchiveIsWhole
<1>2. CASE PagesOfUnitNext
  BY <1>2, BeginKeeps, PageKeeps, PackageKeeps, PagesBreak DEF PagesOfUnitNext
<1> QED BY <1>1, <1>2

(* What the invariant says of the properties.                                  *)
LEMMA UnitPagesInvShows == ASSUME UnitPagesInv PROVE PackagedAsListed /\ CoverageMatches
<1> USE DEF UnitPagesInv
<1>1. PackagedAsListed BY DEF PackagedAsListed, ArchiveIsWhole
<1>2. ASSUME AllFetched PROVE Covered
  <2>1. fetching.pc = "page" /\ fetching.at > Len(fetching.list) BY <1>2 DEF AllFetched
  <2>2. /\ fetching.list \in PageLists /\ Len(fetching.list) \in Nat /\ fetching.at \in Nat
        /\ fetching.at <= Len(fetching.list) + 1 /\ PagePlaces \subseteq Nat
        /\ \A n \in 1 .. Len(fetching.list) : n \in PagePlaces
    BY <2>1, FetchFacts
  <2>3. PICK len \in Nat : len = Len(fetching.list) /\ fetching.at = len + 1 BY <2>1, <2>2
  <2>4. \A n \in 1 .. len : pageRecords[n] # NoImage BY <2>1, <2>3 DEF FetchedSoFar
  <2>5. \A n \in PagePlaces : n > len => pageRecords[n] = NoImage BY <2>1, <2>3 DEF FetchedSoFar
  <2>6. \A n \in PagePlaces : n > 0 BY PlacesSuffice
  <2>7. RecordedPages = 1 .. len BY <2>2, <2>3, <2>4, <2>5, <2>6 DEF RecordedPages
  <2>8. Cardinality(1 .. len) = len
    <3>1. Cardinality(1 .. len) = IF 1 > len THEN 0 ELSE len - 1 + 1 BY FS_Interval
    <3> QED BY <3>1
  <2> QED BY <2>3, <2>7, <2>8 DEF Covered
<1> QED BY <1>1, <1>2 DEF CoverageMatches

HIDE PageListsAssumption

-----------------------------------------------------------------------------
(* READING AHEAD. A unit has one job that is not over, and none beside its copy  *)
(* (OneJobEach): enqueue looks for both. Leaving the work leaves of what waits   *)
(* for nobody only the unit that was read (OneUnitLeft).                         *)
OpenJob(i) == downloads[i].state \in {"queued", "begun"}
WaitsAhead(i) == downloads[i].state = "queued" /\ downloads[i].ahead = TRUE

AheadShape ==
  /\ downloads \in Seq(Downloads) /\ copies \subseteq TrackUnits
  /\ readerOpen \in BOOLEAN /\ userRetried \in BOOLEAN
  /\ \A i \in DownloadIds : downloads[i].ahead = TRUE => downloads[i].by = "reader"

(* A unit has at most one job that is not over, and none when it has its copy.   *)
OneJobEach ==
  userRetried = FALSE =>
    \A i \in DownloadIds : OpenJob(i) =>
      /\ downloads[i].unit \notin copies
      /\ \A j \in DownloadIds : OpenJob(j) /\ downloads[j].unit = downloads[i].unit => i = j

(* Once the work was left, what waits of what was read ahead is of one unit.     *)
OneUnitLeft ==
  (readerOpen = FALSE /\ userRetried = FALSE) =>
    \A i, j \in DownloadIds : WaitsAhead(i) /\ WaitsAhead(j) => downloads[i].unit = downloads[j].unit

AheadInv == AheadShape /\ OneJobEach /\ OneUnitLeft

USE DownloadsAssumption

(* No download is asked for at the start.                                      *)
LEMMA AheadInitially == ASSUME ReadAheadInit PROVE AheadInv
<1> USE DEF ReadAheadInit
<1>1. downloads \in Seq(Downloads) /\ DownloadIds = {} BY DEF DownloadIds
<1> QED BY <1>1 DEF AheadInv, AheadShape, OneJobEach, OneUnitLeft

(* The table of jobs is a sequence of jobs.                                    *)
LEMMA DownloadRows ==
  ASSUME AheadShape
  PROVE  /\ Len(downloads) \in Nat /\ DownloadIds = 1 .. Len(downloads) /\ \A i \in DownloadIds : downloads[i] \in Downloads
BY DEF AheadShape, DownloadIds

(* New jobs follow those that are there, each of a unit that had none.           *)
LEMMA EnqueueAppends ==
  ASSUME AheadShape, NEW wanted \in SUBSET TrackUnits, NEW ahead, NEW by \in {"reader", "user"}, Enqueue(wanted, ahead, by),
         by = "user" => ahead = {}
  PROVE  /\ downloads' \in Seq(Downloads) /\ DownloadIds \subseteq DownloadIds'
         /\ \A i \in DownloadIds : downloads'[i] = downloads[i]
         /\ \A i \in DownloadIds' \ DownloadIds :
              /\ downloads'[i].state = "queued" /\ downloads'[i].unit \notin copies /\ ~ActiveJob(downloads'[i].unit)
              /\ downloads'[i].ahead = TRUE => by = "reader"
              /\ downloads'[i].by = by
         /\ \A i, j \in DownloadIds' \ DownloadIds : downloads'[i].unit = downloads'[j].unit => i = j
<1> DEFINE new == {u \in wanted : u \notin copies /\ ~ActiveJob(u)}
<1>0. IsFiniteSet(TrackUnits) BY FS_Interval DEF TrackUnits
<1>1. IsFiniteSet(new)
  <2>1. new \subseteq TrackUnits OBVIOUS
  <2> QED BY <2>1, <1>0, FS_Subset
<1>2. PICK count \in Nat : count = Cardinality(new) BY <1>1, FS_CardinalityType
<1>3. PICK queued \in [1 .. count -> new] :
        /\ \A m, n \in 1 .. count : m < n => queued[m] < queued[n]
        /\ downloads' = downloads \o
             [n \in 1 .. count |-> [unit |-> queued[n], state |-> "queued", ahead |-> queued[n] \in ahead, by |-> by]]
  BY <1>2 DEF Enqueue
<1>4. \A n \in 1 .. count : queued[n] \in TrackUnits /\ queued[n] \notin copies /\ ~ActiveJob(queued[n])
  BY <1>3
<1>5. PICK more : more = [n \in 1 .. count |-> [unit |-> queued[n], state |-> "queued", ahead |-> queued[n] \in ahead, by |-> by]]
  OBVIOUS
<1>b. \A n \in 1 .. count : (queued[n] \in ahead) \in BOOLEAN OBVIOUS
<1>6. \A n \in 1 .. count : /\ more[n] \in Downloads /\ more[n].unit = queued[n] /\ more[n].state = "queued" /\ more[n].by = by
                            /\ more[n].ahead = (queued[n] \in ahead)
  BY <1>4, <1>5, <1>b DEF Downloads
<1>7. more \in Seq(Downloads) /\ Len(more) = count BY <1>2, <1>5, <1>6
<1> HIDE DEF new
<1>8. downloads \in Seq(Downloads) /\ downloads' = downloads \o more BY <1>3, <1>5 DEF AheadShape
<1>9. /\ downloads' \in Seq(Downloads) /\ Len(downloads') = Len(downloads) + count
      /\ \A i \in 1 .. Len(downloads) : downloads'[i] = downloads[i]
      /\ \A i \in Len(downloads) + 1 .. Len(downloads) + count : downloads'[i] = more[i - Len(downloads)]
  <2>1. downloads \o more \in Seq(Downloads) /\ Len(downloads \o more) = Len(downloads) + Len(more) BY <1>7, <1>8, ConcatProperties
  <2> QED BY <2>1, <1>7, <1>8
<1>10. PICK len \in Nat : len = Len(downloads) BY DownloadRows
<1>11. DownloadIds = 1 .. len /\ DownloadIds' = 1 .. len + count /\ DownloadIds' \ DownloadIds = len + 1 .. len + count
  BY <1>2, <1>9, <1>10 DEF DownloadIds
<1>12. \A i \in DownloadIds' \ DownloadIds : i - len \in 1 .. count /\ downloads'[i] = more[i - len] /\ i \in Nat
  BY <1>2, <1>9, <1>10, <1>11
<1>13. \A i, j \in DownloadIds' \ DownloadIds : downloads'[i].unit = downloads'[j].unit => i = j
  <2> SUFFICES ASSUME NEW i \in DownloadIds' \ DownloadIds, NEW j \in DownloadIds' \ DownloadIds, downloads'[i].unit = downloads'[j].unit
      PROVE  i = j
    OBVIOUS
  <2>1. PICK m \in 1 .. count, n \in 1 .. count : m = i - len /\ n = j - len BY <1>12
  <2>2. queued[m] = queued[n] BY <2>1, <1>12, <1>6
  <2>3. queued[m] \in Nat /\ queued[n] \in Nat BY <1>4 DEF TrackUnits
  <2>4. m = n BY <2>2, <2>3, <1>3, <1>2
  <2> QED BY <2>1, <2>4, <1>10, <1>12
<1>14. \A i \in DownloadIds' \ DownloadIds :
              /\ downloads'[i].state = "queued" /\ downloads'[i].unit \notin copies /\ ~ActiveJob(downloads'[i].unit)
              /\ downloads'[i].ahead = TRUE => by = "reader"
              /\ downloads'[i].by = by
  <2> TAKE i \in DownloadIds' \ DownloadIds
  <2>1. PICK m \in 1 .. count : m = i - len /\ downloads'[i] = more[m] BY <1>12
  <2>2. more[m].ahead = TRUE => queued[m] \in ahead BY <1>6
  <2> QED BY <2>1, <2>2, <1>4, <1>6
<1>15. DownloadIds \subseteq DownloadIds' /\ \A i \in DownloadIds : downloads'[i] = downloads[i]
  BY <1>9, <1>10, <1>11, <1>2
<1> QED BY <1>9, <1>13, <1>14, <1>15

(* Asking for units that have neither a copy nor a job.                        *)
LEMMA EnqueueKeeps ==
  ASSUME AheadInv, NEW wanted \in SUBSET TrackUnits, NEW ahead, NEW by \in {"reader", "user"}, Enqueue(wanted, ahead, by),
         by = "user" => ahead = {}, by = "reader" => readerOpen' = TRUE, by = "user" => readerOpen' = readerOpen,
         copies' = copies, userRetried' = userRetried
  PROVE  AheadInv'
<1>e. /\ downloads' \in Seq(Downloads) /\ DownloadIds \subseteq DownloadIds'
      /\ \A i \in DownloadIds : downloads'[i] = downloads[i]
      /\ \A i \in DownloadIds' \ DownloadIds :
           /\ downloads'[i].state = "queued" /\ downloads'[i].unit \notin copies /\ ~ActiveJob(downloads'[i].unit)
           /\ downloads'[i].ahead = TRUE => by = "reader"
           /\ downloads'[i].by = by
      /\ \A i, j \in DownloadIds' \ DownloadIds : downloads'[i].unit = downloads'[j].unit => i = j
  BY EnqueueAppends DEF AheadInv
<1>1. AheadShape' BY <1>e DEF AheadInv, AheadShape
<1>2. OneJobEach'
  <2> SUFFICES ASSUME userRetried = FALSE, NEW i \in DownloadIds', OpenJob(i)'
      PROVE  /\ downloads'[i].unit \notin copies'
             /\ \A j \in DownloadIds' : OpenJob(j)' /\ downloads'[j].unit = downloads'[i].unit => i = j
    BY DEF OneJobEach
  <2>a. \A j, k : j \in DownloadIds /\ OpenJob(j)' /\ k \in DownloadIds' \ DownloadIds => downloads'[j].unit # downloads'[k].unit
    BY <1>e DEF ActiveJob, JobsOf, InState, OpenJob
  <2>1. CASE i \in DownloadIds
    <3>1. OpenJob(i) BY <2>1, <1>e DEF OpenJob
    <3>2. \A j \in DownloadIds : OpenJob(j)' /\ downloads'[j].unit = downloads'[i].unit => i = j
      BY <2>1, <3>1, <1>e DEF OpenJob, AheadInv, OneJobEach
    <3>3. downloads'[i].unit \notin copies' BY <2>1, <3>1, <1>e DEF AheadInv, OneJobEach
    <3> QED BY <2>1, <2>a, <3>2, <3>3
  <2>2. CASE i \notin DownloadIds
    <3>1. \A j \in DownloadIds' : OpenJob(j)' /\ downloads'[j].unit = downloads'[i].unit => i = j
      BY <2>2, <2>a, <1>e
    <3> QED BY <2>2, <3>1, <1>e
  <2> QED BY <2>1, <2>2
<1>3. OneUnitLeft'
  <2> SUFFICES ASSUME readerOpen' = FALSE, userRetried' = FALSE, NEW i \in DownloadIds', NEW j \in DownloadIds', WaitsAhead(i)', WaitsAhead(j)'
      PROVE  downloads'[i].unit = downloads'[j].unit
    BY DEF OneUnitLeft
  <2>1. by = "user" /\ readerOpen = FALSE /\ userRetried = FALSE OBVIOUS
  <2>2. i \in DownloadIds /\ j \in DownloadIds BY <2>1, <1>e DEF WaitsAhead
  <2>3. WaitsAhead(i) /\ WaitsAhead(j) BY <2>2, <1>e DEF WaitsAhead
  <2> QED BY <2>1, <2>2, <2>3, <1>e DEF AheadInv, OneUnitLeft
<1> QED BY <1>1, <1>2, <1>3 DEF AheadInv

(* One job moves to another state.                                               *)
LEMMA MoveKeepsRows ==
  ASSUME AheadShape, NEW i \in DownloadIds, NEW from, NEW to \in {"queued", "begun", "completed", "ended"}, Moves(i, from, to)
  PROVE  /\ downloads' \in Seq(Downloads) /\ DownloadIds' = DownloadIds
         /\ downloads'[i].state = to /\ downloads[i].state \in from
         /\ \A j \in DownloadIds : /\ downloads'[j].unit = downloads[j].unit /\ downloads'[j].ahead = downloads[j].ahead
                                   /\ downloads'[j].by = downloads[j].by /\ downloads[j].unit \in TrackUnits
                                   /\ j # i => downloads'[j] = downloads[j]
<1>0. downloads' = [downloads EXCEPT ![i].state = to] /\ downloads[i].state \in from BY DEF Moves
<1>1. downloads \in Seq(Downloads) /\ downloads[i] \in Downloads /\ \A j \in DownloadIds : downloads[j] \in Downloads
  BY DownloadRows DEF AheadShape
<1> DEFINE n == [downloads[i] EXCEPT !.state = to]
<1>2. n \in Downloads /\ n.state = to /\ n.unit = downloads[i].unit /\ n.ahead = downloads[i].ahead /\ n.by = downloads[i].by
  BY <1>1 DEF Downloads
<1>3. downloads' = [downloads EXCEPT ![i] = n] BY <1>0, <1>1
<1> HIDE DEF n
<1>4. downloads' \in Seq(Downloads) /\ Len(downloads') = Len(downloads) BY <1>1, <1>2, <1>3 DEF DownloadIds
<1>5. \A j \in DownloadIds : downloads'[j] = IF j = i THEN n ELSE downloads[j] BY <1>1, <1>3 DEF DownloadIds
<1>6. \A j \in DownloadIds : downloads[j].unit \in TrackUnits BY <1>1 DEF Downloads
<1> QED BY <1>0, <1>2, <1>4, <1>5, <1>6 DEF DownloadIds

(* A job is canceled, tried again, begins or ends.                             *)
LEMMA MovesKeep ==
  ASSUME AheadInv, NEW i \in DownloadIds, UserCancels(i) \/ UserRetriesJob(i) \/ StartJob(i) \/ EndJob(i)
  PROVE  AheadInv' /\ readerOpen' = readerOpen
<1> USE DEF AheadInv
<1>1. PICK from \in {{"queued", "begun"}, {"ended"}, {"queued"}, {"begun"}}, to \in {"queued", "begun", "completed", "ended"} :
        /\ Moves(i, from, to)
        /\ to = "queued" => userRetried' = TRUE
        /\ to # "queued" => userRetried' = userRetried /\ from # {"ended"}
        /\ to = "begun" => from = {"queued"}
        /\ copies' = IF to = "completed" THEN copies \cup {downloads[i].unit} ELSE copies
  BY DEF UserCancels, UserRetriesJob, StartJob, EndJob
<1>2. /\ downloads' \in Seq(Downloads) /\ DownloadIds' = DownloadIds
      /\ downloads'[i].state = to /\ downloads[i].state \in from
      /\ \A j \in DownloadIds : /\ downloads'[j].unit = downloads[j].unit /\ downloads'[j].ahead = downloads[j].ahead
                                /\ downloads'[j].by = downloads[j].by /\ downloads[j].unit \in TrackUnits
                                /\ j # i => downloads'[j] = downloads[j]
  BY <1>1, MoveKeepsRows
<1>3. readerOpen' = readerOpen BY <1>1 DEF Moves
<1>4. userRetried' \in BOOLEAN /\ copies' \subseteq TrackUnits BY <1>1, <1>2 DEF AheadShape
<1>5. AheadShape' BY <1>2, <1>3, <1>4 DEF AheadShape
<1>6. userRetried' = FALSE => /\ userRetried = FALSE /\ to # "queued" /\ OpenJob(i)
                              /\ \A j \in DownloadIds : OpenJob(j)' => OpenJob(j)
                              /\ \A j \in DownloadIds : WaitsAhead(j)' => WaitsAhead(j)
  <2> SUFFICES ASSUME userRetried' = FALSE
      PROVE  /\ userRetried = FALSE /\ to # "queued" /\ OpenJob(i)
             /\ \A j \in DownloadIds : OpenJob(j)' => OpenJob(j)
             /\ \A j \in DownloadIds : WaitsAhead(j)' => WaitsAhead(j)
    OBVIOUS
  <2>1. userRetried = FALSE /\ to # "queued" /\ OpenJob(i) BY <1>1, <1>2 DEF OpenJob
  <2>2. \A j \in DownloadIds : OpenJob(j)' => OpenJob(j) BY <1>2, <2>1 DEF OpenJob
  <2>3. \A j \in DownloadIds : WaitsAhead(j)' => WaitsAhead(j) BY <1>2, <2>1 DEF WaitsAhead
  <2> QED BY <2>1, <2>2, <2>3
<1>7. OneJobEach'
  <2> SUFFICES ASSUME userRetried' = FALSE, NEW k \in DownloadIds, OpenJob(k)'
      PROVE  /\ downloads'[k].unit \notin copies'
             /\ \A j \in DownloadIds : OpenJob(j)' /\ downloads'[j].unit = downloads'[k].unit => k = j
    BY <1>2 DEF OneJobEach
  <2>1. OpenJob(k) BY <1>6
  <2>2. \A j \in DownloadIds : OpenJob(j)' /\ downloads'[j].unit = downloads'[k].unit => k = j
    BY <1>2, <1>6, <2>1 DEF OneJobEach
  <2>3. downloads[k].unit \notin copies BY <1>6, <2>1 DEF OneJobEach
  <2>4. to = "completed" => downloads[k].unit # downloads[i].unit
    <3> SUFFICES ASSUME to = "completed", downloads[k].unit = downloads[i].unit PROVE FALSE
      OBVIOUS
    <3>1. k = i BY <1>6, <2>1 DEF OneJobEach
    <3> QED BY <3>1, <1>2 DEF OpenJob
  <2> QED BY <1>1, <1>2, <2>2, <2>3, <2>4
<1>8. OneUnitLeft'
  BY <1>2, <1>3, <1>6 DEF OneUnitLeft
<1> QED BY <1>3, <1>5, <1>7, <1>8

(* Leaving the work takes nothing the user asked for.                          *)
LEMMA LeaveKeeps ==
  ASSUME AheadInv, LeaveWork
  PROVE  AheadInv' /\ \A i \in DownloadIds : downloads[i].by = "user" => downloads'[i] = downloads[i]
<1> USE DEF AheadInv
<1>0. \A i \in DownloadIds : downloads[i] \in Downloads BY DownloadRows
<1>1. downloads' = [i \in DownloadIds |-> IF i \in LeavesBehind THEN [downloads[i] EXCEPT !.state = "ended"] ELSE downloads[i]]
      /\ readerOpen' = FALSE /\ UNCHANGED <<copies, userRetried>>
  BY DEF LeaveWork
<1>2. \A i \in DownloadIds : /\ downloads'[i] \in Downloads
                             /\ downloads'[i].unit = downloads[i].unit /\ downloads'[i].ahead = downloads[i].ahead /\ downloads'[i].by = downloads[i].by
                             /\ i \in LeavesBehind => downloads'[i].state = "ended"
                             /\ i \notin LeavesBehind => downloads'[i] = downloads[i]
  <2> TAKE i \in DownloadIds
  <2>1. CASE i \in LeavesBehind
    <3>1. downloads'[i] = [downloads[i] EXCEPT !.state = "ended"] BY <1>1, <2>1
    <3> QED BY <1>0, <2>1, <3>1 DEF Downloads
  <2>2. CASE i \notin LeavesBehind BY <1>0, <1>1, <2>2
  <2> QED BY <2>1, <2>2
<1>3. PICK len \in Nat : len = Len(downloads) /\ DownloadIds = 1 .. len BY DownloadRows
<1>4. downloads' \in Seq(Downloads) /\ Len(downloads') = len
  <2>1. PICK now : now = downloads' OBVIOUS
  <2>2. now = [i \in 1 .. len |-> now[i]] BY <2>1, <1>1, <1>3
  <2>3. \A i \in 1 .. len : now[i] \in Downloads BY <2>1, <1>2, <1>3
  <2>4. len \in Nat BY <1>3
  <2>5. now \in Seq(Downloads) /\ Len(now) = len BY ONLY <2>2, <2>3, <2>4
  <2> QED BY <2>1, <2>5
<1>5. DownloadIds' = DownloadIds BY <1>3, <1>4 DEF DownloadIds
<1>6. AheadShape' BY <1>1, <1>2, <1>4, <1>5 DEF AheadShape
<1>7. \A i \in DownloadIds : OpenJob(i)' => OpenJob(i) BY <1>2 DEF OpenJob
<1>8. OneJobEach' BY <1>1, <1>2, <1>5, <1>7 DEF OneJobEach
<1>9. OneUnitLeft'
  <2>1. \A i \in DownloadIds : WaitsAhead(i)' => downloads'[i].unit = reading
    BY <1>2 DEF WaitsAhead, LeavesBehind, InState, ReadAheadJob
  <2> QED BY <2>1, <1>5 DEF OneUnitLeft
<1>10. ASSUME NEW i \in DownloadIds, downloads[i].by = "user" PROVE downloads'[i] = downloads[i]
  <2>1. downloads[i].ahead \in BOOLEAN /\ downloads[i].ahead # TRUE BY <1>0, <1>10 DEF AheadShape, Downloads
  <2>2. i \notin LeavesBehind BY <2>1 DEF LeavesBehind, ReadAheadJob
  <2> QED BY <2>2, <1>2
<1> QED BY <1>6, <1>8, <1>9, <1>10

(* What a step keeps, and that leaving takes only what was read ahead.           *)
LEMMA AheadStep ==
  ASSUME AheadInv, [ReadAheadNext]_readAheadVars
  PROVE  /\ AheadInv'
         /\ (readerOpen /\ ~readerOpen') => \A i \in DownloadIds : downloads[i].by = "user" => downloads'[i] = downloads[i]
<1> USE DEF AheadInv
<1>1. CASE UNCHANGED readAheadVars
  BY <1>1 DEF readAheadVars, AheadShape, OneJobEach, OneUnitLeft, DownloadIds, OpenJob, WaitsAhead
<1>2. ASSUME NEW u \in TrackUnits, Engage(u) PROVE AheadInv' /\ readerOpen' = TRUE
  <2>1. readerOpen' = TRUE /\ copies' = copies /\ userRetried' = userRetried BY <1>2 DEF Engage
  <2>2. CASE downloads' = downloads
    BY <2>1, <2>2 DEF AheadShape, OneJobEach, OneUnitLeft, DownloadIds, OpenJob, WaitsAhead
  <2>3. CASE downloads' # downloads
    <3> DEFINE wanted == {v \in {u} \cup Following(u) : NeedsDownload(v)}
    <3>1. wanted \subseteq TrackUnits BY DEF Following
    <3>2. Enqueue(wanted, wanted \ {u}, "reader") BY <1>2, <2>3 DEF Engage
    <3> HIDE DEF wanted
    <3> QED BY <2>1, <3>1, <3>2, EnqueueKeeps
  <2> QED BY <2>2, <2>3
<1>3. ASSUME NEW u \in TrackUnits, UserDownloads(u) PROVE AheadInv' /\ readerOpen' = readerOpen
  <2>1. Enqueue({u}, {}, "user") /\ UNCHANGED <<copies, reading, readerOpen, userRetried>> BY <1>3 DEF UserDownloads
  <2> QED BY <2>1, EnqueueKeeps
<1>4. ASSUME NEW u \in TrackUnits, DeleteCopy(u) PROVE AheadInv' /\ readerOpen' = readerOpen
  BY <1>4 DEF DeleteCopy, AheadShape, OneJobEach, OneUnitLeft, DownloadIds, OpenJob, WaitsAhead
<1>5. ASSUME RestartProgram PROVE AheadInv' /\ readerOpen' = readerOpen
  BY <1>5 DEF RestartProgram, AheadShape, OneJobEach, OneUnitLeft, DownloadIds, OpenJob, WaitsAhead
<1>6. CASE LeaveWork BY <1>6, LeaveKeeps
<1>7. ASSUME NEW i \in DownloadIds, UserCancels(i) \/ UserRetriesJob(i) \/ StartJob(i) \/ EndJob(i)
      PROVE  AheadInv' /\ readerOpen' = readerOpen
  BY <1>7, MovesKeep
<1>t. readerOpen \in BOOLEAN BY DEF AheadShape
<1>8. CASE AheadInv' /\ (readerOpen' = TRUE \/ readerOpen' = readerOpen)
  BY <1>8, <1>t
<1>9. CASE ReadAheadNext
  BY <1>9, <1>2, <1>3, <1>4, <1>5, <1>6, <1>7, <1>8 DEF ReadAheadNext
<1> QED BY <1>1, <1>9

(* A set whose members are equal has at most one.                              *)
LEMMA AtMostOne ==
  ASSUME NEW S, \A i, j \in S : i = j
  PROVE  IsFiniteSet(S) /\ Cardinality(S) \in Nat /\ Cardinality(S) <= 1
<1>1. CASE S = {} BY <1>1, FS_EmptySet
<1>2. ASSUME NEW i \in S PROVE IsFiniteSet(S) /\ Cardinality(S) \in Nat /\ Cardinality(S) <= 1
  <2>1. S = {i} OBVIOUS
  <2>2. IsFiniteSet({i}) /\ Cardinality({i}) = 1 BY FS_Singleton
  <2> QED BY <2>1, <2>2
<1> QED BY <1>1, <1>2

(* What the invariant says of the properties.                                  *)
LEMMA AheadInvShows ==
  ASSUME AheadInv
  PROVE  NeverTwice /\ NothingForNobody
<1> USE DEF AheadInv
<1>1. ASSUME ~userRetried, NEW u \in TrackUnits
      PROVE  Cardinality(JobsOf(u) \cap InState({"queued", "begun"})) + (IF u \in copies THEN 1 ELSE 0) <= 1
  <2>0. userRetried = FALSE BY <1>1 DEF AheadShape
  <2> DEFINE S == JobsOf(u) \cap InState({"queued", "begun"})
  <2>1. \A i, j \in S : i = j BY <2>0 DEF OneJobEach, OpenJob, JobsOf, InState
  <2>2. u \in copies => S = {} BY <2>0 DEF OneJobEach, OpenJob, JobsOf, InState
  <2> HIDE DEF S
  <2>3. Cardinality(S) \in Nat /\ Cardinality(S) <= 1 BY <2>1, AtMostOne
  <2>4. u \in copies => Cardinality(S) = 0 BY <2>2, FS_EmptySet
  <2>5. Cardinality(S) + (IF u \in copies THEN 1 ELSE 0) <= 1 BY <2>3, <2>4
  <2> QED BY <2>5 DEF S
<1>2. ASSUME ~readerOpen, ~userRetried
      PROVE  Cardinality({i \in InState({"queued"}) : downloads[i].ahead}) <= 1
  <2>0. userRetried = FALSE /\ readerOpen = FALSE BY <1>2 DEF AheadShape
  <2>r. \A i \in DownloadIds : downloads[i].ahead \in BOOLEAN BY DownloadRows DEF Downloads
  <2> DEFINE S == {i \in InState({"queued"}) : downloads[i].ahead}
  <2>1. \A i \in S : i \in DownloadIds /\ WaitsAhead(i) /\ OpenJob(i) BY <2>r DEF InState, WaitsAhead, OpenJob
  <2> HIDE DEF S
  <2>2. \A i, j \in S : i = j BY <2>0, <2>1 DEF OneUnitLeft, OneJobEach
  <2>3. Cardinality(S) <= 1 BY <2>2, AtMostOne
  <2> QED BY <2>3 DEF S
<1> QED BY <1>1, <1>2 DEF NeverTwice, NothingForNobody

HIDE DownloadsAssumption

-----------------------------------------------------------------------------
(* THE TYPES OF THE RECORDS: what the invariants above leave open of them.       *)
(* What else is recorded of a plugin, and that one version can be rolled back to. *)
NoteAndOwner ==
  /\ bundledNote \in [is : {"none", "installed", "failed", "skipped"}, package : MaybePackage]
  /\ granted \subseteq Perms /\ choice \in {"none", "disabled", "removed", "own"}
OnePrevious == \A u, v \in Versions : versions[u].status = "previous" /\ versions[v].status = "previous" => u = v

USE PackagesAssumption

(* The active version becomes the one that can be rolled back to, in place of it.*)
LEMMA ActivatedLeavesOne ==
  ASSUME PluginShape, OneRuns, NEW p \in Packages, NEW approved, NEW channel, Activated(p, approved, channel)
  PROVE  OnePrevious'
<1>1. versions' = [v \in Versions |->
         IF v = p.version THEN [status |-> "active", package |-> p, approved |-> approved \cap p.perms]
         ELSE IF versions[v].status = "previous" THEN [versions[v] EXCEPT !.status = "retired"]
         ELSE IF versions[v].status = "active" THEN [versions[v] EXCEPT !.status = "previous"] ELSE versions[v]]
  BY DEF Activated
<1>2. \A v \in Versions : versions[v] \in VersionRows BY DEF PluginShape
<1>3. ASSUME NEW v \in Versions, versions'[v].status = "previous" PROVE v = plugin.active
  <2>1. v # p.version
    <3>1. SUFFICES ASSUME v = p.version PROVE FALSE OBVIOUS
    <3>2. versions'[v].status = "active" BY <1>1, <3>1
    <3> QED BY <1>3, <3>2
  <2>2. versions[v].status # "previous"
    <3>1. SUFFICES ASSUME versions[v].status = "previous" PROVE FALSE OBVIOUS
    <3>2. versions'[v] = [versions[v] EXCEPT !.status = "retired"] BY <1>1, <2>1, <3>1
    <3>3. versions'[v].status = "retired" BY <1>2, <3>2 DEF VersionRows
    <3> QED BY <1>3, <3>3
  <2>3. versions[v].status = "active"
    <3>1. SUFFICES ASSUME versions[v].status # "active" PROVE FALSE OBVIOUS
    <3>2. versions'[v] = versions[v] BY <1>1, <2>1, <2>2, <3>1
    <3> QED BY <1>3, <2>2, <3>2
  <2> QED BY <2>3 DEF OneRuns
<1> QED BY <1>3 DEF OnePrevious

(* A review changes no version that can be rolled back to, nor does it add one.  *)
LEMMA ReviewLeavesOne ==
  ASSUME PluginShape, OnePrevious, NEW p \in Packages, NEW channel, AwaitsReview(p, channel)
  PROVE  OnePrevious'
<1>1. versions' = [versions EXCEPT ![p.version] = [status |-> "pending_review", package |-> p, approved |-> {}]]
  BY DEF AwaitsReview
<1>2. \A v \in Versions : versions'[v].status = "previous" => versions[v].status = "previous"
  BY <1>1 DEF PluginShape
<1> QED BY <1>2 DEF OnePrevious

(* An install records a version, or that one waits.                              *)
LEMMA InstallLeavesOne ==
  ASSUME PluginShape, OneRuns, OnePrevious, NEW p \in Packages, NEW approved, NEW channel, Install(p, approved, channel)
  PROVE  OnePrevious'
BY ActivatedLeavesOne, ReviewLeavesOne DEF Install, Recorded

(* Of the bundled package some note is taken, the owner grants what packages ask *)
(* for, and one version can be rolled back to.                                   *)
LEMMA RestStep ==
  ASSUME PluginInv, ReviewBinds, NoteAndOwner, OnePrevious, [PluginsNext]_pluginVars
  PROVE  NoteAndOwner' /\ OnePrevious'
<1> USE DEF PluginInv, RowsInv
<1>n. bundled \in MaybePackage /\ bundled \in Packages BY DEF PluginShape, MaybePackage
<1>p. \A p \in Packages : p.perms \subseteq Perms /\ p.version \in Versions BY PackageFacts
<1>k. ASSUME versions' = versions PROVE OnePrevious' BY <1>k DEF OnePrevious
<1>g. ASSUME NEW approved, approved \subseteq Perms, Grants(approved), bundledNote' = bundledNote PROVE NoteAndOwner'
  BY <1>g DEF Grants, NoteAndOwner
<1>o. ASSUME bundledNote' = bundledNote, granted' = granted, choice' \in {choice, "disabled", "own"} PROVE NoteAndOwner'
  BY <1>o DEF NoteAndOwner
<1>a. ASSUME NEW v \in Versions, NEW approved, NEW channel, Approve(v, approved, channel)
      PROVE  OnePrevious' /\ versions[v].package.perms \subseteq Perms
  <2>1. versions[v].package \in Packages BY <1>a DEF Approve, StoreHasRegistered, Registered
  <2>2. Activated(versions[v].package, Baseline \cup approved, channel) BY <1>a DEF Approve
  <2> QED BY <1>p, <2>1, <2>2, ActivatedLeavesOne
<1>r. ASSUME Removed, bundledNote' = bundledNote PROVE NoteAndOwner' /\ OnePrevious'
  <2>1. versions' = [v \in Versions |-> IF versions[v].status = "none" THEN NoVersion ELSE [versions[v] EXCEPT !.status = "retired"]]
        /\ granted' = {} /\ choice' = "removed"
    BY <1>r DEF Removed
  <2>2. \A v \in Versions : versions[v] \in VersionRows BY DEF PluginShape
  <2>3. \A v \in Versions : versions'[v].status # "previous"
    <3> TAKE v \in Versions
    <3>1. CASE versions[v].status = "none" BY <2>1, <3>1 DEF NoVersion
    <3>2. CASE versions[v].status # "none" BY <2>1, <2>2, <3>2 DEF VersionRows
    <3> QED BY <3>1, <3>2
  <2>4. OnePrevious' BY <2>3 DEF OnePrevious
  <2> QED BY <1>r, <2>1, <2>4 DEF NoteAndOwner
<1>f. ASSUME FirstInstall, bundledNote' = bundledNote PROVE NoteAndOwner' /\ OnePrevious'
  <2>1. CASE Install(bundled, bundled.perms, "bundled") /\ granted' = granted \cup bundled.perms /\ choice' = choice
    <3>1. OnePrevious' BY <1>n, <2>1, InstallLeavesOne
    <3>2. bundled.perms \subseteq Perms BY <1>n, <1>p
    <3> QED BY <1>f, <2>1, <3>1, <3>2 DEF NoteAndOwner
  <2>2. CASE AlreadyInstalled(bundled) /\ UNCHANGED <<recordVars, store, ownerVars>>
    BY <1>f, <1>k, <1>o, <2>2 DEF recordVars, ownerVars
  <2> QED BY <1>f, <2>1, <2>2 DEF FirstInstall
<1>e. ASSUME NEW status \in {"none", "installed", "failed", "skipped"}, Ends(status), UNCHANGED <<recordVars, store, ownerVars>>
      PROVE  NoteAndOwner' /\ OnePrevious'
  <2>1. bundledNote' = [is |-> status, package |-> bundled] /\ granted' = granted /\ choice' = choice /\ versions' = versions
    BY <1>e DEF Ends, recordVars, ownerVars
  <2>2. bundledNote' \in [is : {"none", "installed", "failed", "skipped"}, package : MaybePackage] BY <1>n, <2>1
  <2> QED BY <1>k, <2>1, <2>2 DEF NoteAndOwner
<1>1. ASSUME NEW p \in Packages, NEW approved \in SUBSET p.perms, UploadInstall(p, approved) PROVE NoteAndOwner' /\ OnePrevious'
  <2>1. approved \subseteq Perms BY <1>p
  <2>2. Install(p, approved, "upload") /\ Grants(approved) /\ bundledNote' = bundledNote BY <1>1 DEF UploadInstall, imageVars
  <2> QED BY <1>g, <2>1, <2>2, InstallLeavesOne
<1>2. ASSUME NEW v \in Versions, ApproveReview(v) PROVE NoteAndOwner' /\ OnePrevious'
  <2>1. Approve(v, versions[v].package.perms, plugin.channel) /\ Grants(versions[v].package.perms) /\ bundledNote' = bundledNote
    BY <1>2 DEF ApproveReview, imageVars
  <2> QED BY <1>a, <1>g, <2>1
<1>3. CASE Disable \/ Enable
  <2>1. versions' = versions /\ bundledNote' = bundledNote /\ granted' = granted /\ choice' \in {"disabled", "own"}
    BY <1>3 DEF Disable, Enable, imageVars
  <2> QED BY <1>k, <1>o, <2>1
<1>4. CASE Rollback
  <2>1. PICK v \in Versions : /\ versions[v].status = "previous"
                              /\ versions' = [versions EXCEPT ![plugin.active].status = "previous", ![v].status = "active"]
    BY <1>4 DEF Rollback
  <2>2. bundledNote' = bundledNote /\ granted' = granted /\ choice' = "own" /\ plugin.active # 0
    BY <1>4 DEF Rollback, imageVars
  <2>3. plugin.active \in Versions BY <2>2 DEF PluginShape, PluginRows
  <2>4. plugin.active # v BY <2>1, <2>3 DEF OneRuns
  <2>5. \A u \in Versions : versions[u] \in VersionRows BY DEF PluginShape
  <2>6. ASSUME NEW u \in Versions, versions'[u].status = "previous" PROVE u = plugin.active
    <3>1. u # v
      <4>1. SUFFICES ASSUME u = v PROVE FALSE OBVIOUS
      <4>2. versions'[v] = [versions[v] EXCEPT !.status = "active"] BY <2>1, <2>4 DEF PluginShape
      <4>3. versions'[v].status = "active" BY <2>5, <4>2 DEF VersionRows
      <4> QED BY <2>6, <4>1, <4>3
    <3>2. u # plugin.active => versions'[u] = versions[u] BY <2>1, <3>1 DEF PluginShape
    <3> QED BY <2>1, <2>6, <3>1, <3>2 DEF OnePrevious
  <2>7. OnePrevious' BY <2>6 DEF OnePrevious
  <2> QED BY <1>o, <2>2, <2>7
<1>5. CASE Uninstall BY <1>5, <1>r DEF Uninstall, imageVars
<1>6. CASE (\E p \in Packages : Offer(p) \/ NewImage(p)) \/ ReviewPackage \/ FetchReviewed \/ Stop \/ UNCHANGED pluginVars
  <2>1. versions' = versions /\ bundledNote' = bundledNote /\ granted' = granted /\ choice' = choice
    BY <1>6 DEF Offer, NewImage, ReviewPackage, FetchReviewed, Stop, pluginVars, recordVars, imageVars, ownerVars
  <2> QED BY <1>k, <1>o, <2>1
<1>7. CASE InstallFetched
  <2>1. bundledNote' = bundledNote BY <1>7 DEF InstallFetched, imageVars
  <2>2. PICK p, approved : /\ p = review.fetched /\ p # NoPackage /\ approved = review.shown.perms
                           /\ \/ Install(p, approved, "registry") /\ Grants(approved)
                              \/ /\ AlreadyInstalled(p) /\ versions[p.version].status = "pending_review"
                                 /\ Approve(p.version, approved, plugin.channel) /\ Grants(approved) /\ UNCHANGED store
                              \/ UNCHANGED <<recordVars, store, ownerVars>>
    BY <1>7 DEF InstallFetched
  <2>3. p \in Packages BY <2>2 DEF PluginShape, MaybePackage
  <2>4. approved \subseteq Perms
    <3>1. review.shown \in Packages BY <2>2, <2>3 DEF ReviewBinds
    <3> QED BY <1>p, <2>2, <3>1
  <2>5. CASE Install(p, approved, "registry") /\ Grants(approved) BY <1>g, <2>1, <2>3, <2>4, <2>5, InstallLeavesOne
  <2>6. CASE Approve(p.version, approved, plugin.channel) /\ Grants(approved) BY <1>a, <1>g, <1>p, <2>1, <2>3, <2>4, <2>6
  <2>7. CASE UNCHANGED <<recordVars, store, ownerVars>> BY <1>k, <1>o, <2>1, <2>7 DEF recordVars, ownerVars
  <2> QED BY <2>2, <2>5, <2>6, <2>7
<1>8. CASE ReconcileStore \/ LeaveAlone \/ SetMarker
  <2>1. versions' = versions /\ bundledNote' = bundledNote /\ granted' = granted /\ choice' = choice
    BY <1>8 DEF ReconcileStore, LeaveAlone, SetMarker, recordVars, imageVars, ownerVars
  <2> QED BY <1>k, <1>o, <2>1
<1>9. CASE Skip BY <1>9, <1>e DEF Skip
<1>10. CASE BundledRejected BY <1>10, <1>e DEF BundledRejected
<1>11. CASE NoteInstalled BY <1>11, <1>e DEF NoteInstalled
<1>12. CASE Bootstrap BY <1>12, <1>f DEF Bootstrap
<1>13. CASE Maintain
  <2>1. bundledNote' = bundledNote BY <1>13 DEF Maintain
  <2>2. CASE Install(bundled, {}, "bundled") /\ UNCHANGED ownerVars
    BY <1>n, <1>o, <2>1, <2>2, InstallLeavesOne DEF ownerVars
  <2>3. CASE UNCHANGED <<recordVars, store, ownerVars>> BY <1>k, <1>o, <2>1, <2>3 DEF recordVars, ownerVars
  <2>4. CASE FirstInstall BY <1>f, <2>1, <2>4
  <2> QED BY <1>13, <2>2, <2>3, <2>4 DEF Maintain
<1>14. CASE PluginCrash
  <2>1. bundledNote' = bundledNote BY <1>14 DEF PluginCrash, imageVars
  <2>2. (UNCHANGED <<recordVars, ownerVars>>) \/ Removed BY <1>14 DEF PluginCrash
  <2> QED BY <1>k, <1>o, <1>r, <2>1, <2>2 DEF recordVars, ownerVars
<1> QED BY <1>1, <1>2, <1>3, <1>4, <1>5, <1>6, <1>7, <1>8, <1>9, <1>10, <1>11, <1>12, <1>13, <1>14
       DEF PluginsNext, StartStep

(* Nothing is noted, and nothing can be rolled back to, at the start.            *)
LEMMA RestInitially == ASSUME PluginsInit PROVE NoteAndOwner /\ OnePrevious
<1>1. PICK own \in BOOLEAN, p \in Packages :
       /\ versions = [v \in Versions |-> IF own /\ v = p.version
                                         THEN [status |-> "active", package |-> p, approved |-> p.perms] ELSE NoVersion]
       /\ granted = IF own THEN p.perms ELSE {}
       /\ choice = IF own THEN "own" ELSE "none"
  BY DEF PluginsInit
<1>2. \A v \in Versions : versions[v].status # "previous"
  <2> TAKE v \in Versions
  <2>1. versions[v] = [status |-> "active", package |-> p, approved |-> p.perms] \/ versions[v] = NoVersion BY <1>1
  <2> QED BY <2>1 DEF NoVersion
<1>3. p.perms \subseteq Perms BY PackageFacts
<1>4. bundledNote = [is |-> "none", package |-> NoPackage] /\ NoPackage \in MaybePackage
  BY DEF PluginsInit, Nothing, MaybePackage
<1>5. granted \subseteq Perms /\ choice \in {"none", "disabled", "removed", "own"} BY <1>1, <1>3
<1> QED BY <1>2, <1>4, <1>5 DEF NoteAndOwner, OnePrevious

(* The rows and the store are of their types.                                    *)
LEMMA PluginTypes == ASSUME PluginInv, NoteAndOwner, OnePrevious PROVE PluginTypeOK
<1> DEFINE Before == {v \in Versions : versions[v].status = "previous"}
<1>1. Cardinality(Before) <= 1
  <2>1. CASE Before = {}
    <3>1. Cardinality(Before) = 0 BY <2>1, FS_EmptySet
    <3> QED BY <3>1
  <2>2. CASE Before # {}
    <3>1. PICK v \in Before : TRUE BY <2>2
    <3>2. Before = {v} BY <3>1 DEF OnePrevious
    <3>3. Cardinality(Before) = 1 BY <3>2, FS_Singleton
    <3> QED BY <3>3
  <2> QED BY <2>1, <2>2
<1>2. bundled \in MaybePackage BY DEF PluginInv, PluginShape, MaybePackage
<1> QED BY <1>1, <1>2 DEF PluginInv, PluginShape, RowsInv, OneRuns, NoteAndOwner, PluginTypeOK, PluginRows, VersionRows

HIDE PackagesAssumption

(* A snapshot is of a database, whole or not.                                    *)
CopiesAre == \A s \in snapshots : s.db \in Databases /\ s.whole \in BOOLEAN

(* A copy is begun, and ended, of what the database is.                          *)
LEMMA CopiesStay == ASSUME SchemaShape, CopiesAre, [SchemaNext]_schemaVars PROVE CopiesAre'
<1>1. CASE BeginSnapshot \/ EndSnapshot
  <2>1. db \in Databases BY DEF SchemaShape
  <2>2. \A s \in snapshots' : s \in snapshots \/ \E whole \in BOOLEAN : s = [db |-> db, whole |-> whole]
    BY <1>1 DEF BeginSnapshot, EndSnapshot
  <2>3. CopiesAre' <=> \A s \in snapshots' : s.db \in Databases /\ s.whole \in BOOLEAN BY DEF CopiesAre, Databases
  <2> QED BY <2>1, <2>2, <2>3 DEF CopiesAre
<1>2. CASE snapshots' = snapshots BY <1>2 DEF CopiesAre, Databases
<1>3. BeginSnapshot \/ EndSnapshot \/ snapshots' = snapshots
  <2>1. UNCHANGED schemaVars => snapshots' = snapshots BY DEF schemaVars
  <2>2. \A newest : StartProgram(newest) => snapshots' = snapshots BY Zenon DEF StartProgram
  <2>3. BeginMigration => snapshots' = snapshots BY DEF BeginMigration
  <2>4. (ExecuteStatement => snapshots' = snapshots) /\ (CommitMigration => snapshots' = snapshots)
    <3>1. ExecuteStatement => snapshots' = snapshots BY Zenon DEF ExecuteStatement
    <3>2. CommitMigration => snapshots' = snapshots BY Zenon DEF CommitMigration
    <3> QED BY <3>1, <3>2
  <2>5. MigrationFails \/ ProgramStops \/ LibraryChanges => snapshots' = snapshots
    BY DEF MigrationFails, ProgramStops, LibraryChanges
  <2> QED BY <2>1, <2>2, <2>3, <2>4, <2>5 DEF SchemaNext
<1> QED BY <1>1, <1>2, <1>3

(* The database and the program that runs are of their types.                    *)
LEMMA SchemaTypes == ASSUME SchemaShape, CopiesAre PROVE SchemaTypeOK
BY DEF SchemaShape, CopiesAre, SchemaTypeOK

(* The schema begins with no snapshot.                                           *)
LEMMA CopiesInitially == ASSUME SchemaInit PROVE CopiesAre
BY DEF SchemaInit, CopiesAre

USE ProgressAssumption

(* How far positions, revisions and their numbers go, and who rereads: a tab     *)
(* that was refused what it still holds.                                         *)
TabBounds(x, a) ==
  /\ x.pending \in {NoRecord} \cup Positions /\ x.sent \in {NoRecord} \cup Positions
  /\ x.revision <= MaxRevision /\ x.seq <= MaxPositions
  /\ x.rereading = TRUE => x.loaded = FALSE /\ x.sent # NoRecord
  /\ a # NoRecord => a.revision <= MaxRevision
ProgressBounds ==
  /\ row \in {NoRecord} \cup Rows /\ kept \in {NoRecord} \cup Rows
  /\ twin \in {NoRecord} \cup [far : 1 .. Far, revision : {1}]
  /\ \A t \in Tabs : TabBounds(tabs[t], post[t])

(* The row, if there is one, is within the bounds.                               *)
LEMMA RevisionBound == ASSUME ProgressBounds PROVE Revision(row) \in 0 .. MaxRevision
BY DEF ProgressBounds, Rows, Revision

(* Another one wrote: nothing but that is known to be outdated.                  *)
LEMMA OutdatedBounds ==
  ASSUME ProgressInv, ProgressBounds, NEW t \in Tabs
  PROVE  TabBounds(Outdated[t], OutdatedPosts[t])
<1>1. tabs[t] \in TabRecords /\ post[t] \in Replies BY DEF ProgressInv
<1>2. /\ Outdated[t] = [tabs[t] EXCEPT !.current = FALSE]
      /\ OutdatedPosts[t] = IF post[t] = NoRecord THEN NoRecord ELSE [post[t] EXCEPT !.current = FALSE]
  BY DEF Outdated, OutdatedPosts
<1>3. TabBounds(tabs[t], post[t]) BY DEF ProgressBounds
<1>4. /\ Outdated[t].pending = tabs[t].pending /\ Outdated[t].sent = tabs[t].sent /\ Outdated[t].revision = tabs[t].revision
      /\ Outdated[t].seq = tabs[t].seq /\ Outdated[t].rereading = tabs[t].rereading /\ Outdated[t].loaded = tabs[t].loaded
  BY <1>1, <1>2 DEF TabRecords
<1>5. OutdatedPosts[t] # NoRecord => post[t] # NoRecord /\ OutdatedPosts[t].revision = post[t].revision
  BY <1>1, <1>2 DEF Replies
<1> QED BY <1>3, <1>4, <1>5 DEF TabBounds

(* One tab goes on within the bounds.                                            *)
LEMMA OneTabBounds ==
  ASSUME ProgressInv, ProgressBounds, NEW t \in Tabs, NEW n, NEW a, TabBounds(n, a),
         tabs' = [tabs EXCEPT ![t] = n], post' = [post EXCEPT ![t] = a], UNCHANGED <<row, twin, kept>>
  PROVE  ProgressBounds'
<1>1. \A u \in Tabs : TabBounds(tabs'[u], post'[u])
  <2> TAKE u \in Tabs
  <2>1. CASE u = t BY <2>1 DEF ProgressInv
  <2>2. CASE u # t
    <3>1. tabs'[u] = tabs[u] /\ post'[u] = post[u] BY <2>2 DEF ProgressInv
    <3> QED BY <3>1 DEF ProgressBounds
  <2> QED BY <2>1, <2>2
<1> QED BY <1>1 DEF ProgressBounds

(* A row is written within the bounds.                                           *)
LEMMA WrittenIsBounded ==
  ASSUME NEW far \in 0 .. Far, NEW revision \in Nat \ {0}, Writes([far |-> far, revision |-> revision])
  PROVE  row' \in Rows
BY DEF Writes, Rows

(* The server, the owner, a repair or a backup changes the row.                  *)
LEMMA ChangedBounds ==
  ASSUME ProgressInv, ProgressBounds, Changed, row' \in Rows, kept' = kept, twin' \in {twin, NoRecord}
  PROVE  ProgressBounds'
<1>1. \A t \in Tabs : TabBounds(tabs'[t], post'[t]) BY OutdatedBounds DEF Changed
<1> QED BY <1>1 DEF ProgressBounds

(* A join writes the other's record, or changes nothing.                         *)
LEMMA JoinsBounds ==
  ASSUME ProgressInv, ProgressBounds, NEW other \in {kept, twin}, other # NoRecord, Joins(other), kept' = kept,
         twin' \in {twin, NoRecord}
  PROVE  ProgressBounds'
<1>1. other \in [far : 0 .. Far, revision : Nat \ {0}]
  <2>1. \A r \in Rows : r \in [far : 0 .. Far, revision : Nat \ {0}] BY DEF Rows
  <2>2. \A r \in [far : 1 .. Far, revision : {1}] : r \in [far : 0 .. Far, revision : Nat \ {0}] OBVIOUS
  <2> QED BY <2>1, <2>2 DEF ProgressBounds
<1>2. CASE row = NoRecord \/ MoreAdvanced(other, row)
  <2>1. Writes(Joined(other)) /\ Changed BY <1>2 DEF Joins
  <2>2. row' \in Rows
    <3>1. CASE row = NoRecord BY <1>1, <2>1, <3>1 DEF Joined, Writes, Rows
    <3>2. CASE row # NoRecord
      <4>1. NextRevision \in Nat \ {0} BY RevisionBound DEF NextRevision
      <4> QED BY <1>1, <2>1, <3>2, <4>1, WrittenIsBounded DEF Joined
    <3> QED BY <3>1, <3>2
  <2> QED BY <2>1, <2>2, ChangedBounds
<1>3. CASE ~(row = NoRecord \/ MoreAdvanced(other, row))
  <2>1. row' = row /\ tabs' = tabs /\ post' = post BY <1>3 DEF Joins
  <2> QED BY <2>1 DEF ProgressBounds
<1> QED BY <1>2, <1>3

(* Every step of the tabs and the server stays within the bounds.                *)
LEMMA BoundsStep == ASSUME ProgressInv, ProgressBounds, [ProgressNext]_progressVars PROVE ProgressBounds'
<1>t. \A t \in Tabs : tabs[t] \in TabRecords /\ post[t] \in Replies /\ TabBounds(tabs[t], post[t])
  BY DEF ProgressInv, ProgressBounds
<1>v. Revision(row) \in 0 .. MaxRevision BY RevisionBound
<1>1. ASSUME NEW t \in Tabs, Load(t) PROVE ProgressBounds'
  <2> DEFINE n == [tabs[t] EXCEPT !.loaded = TRUE, !.revision = Revision(row), !.current = TRUE]
  <2>1. tabs' = [tabs EXCEPT ![t] = n] BY <1>1 DEF Load, ProgressInv
  <2>2. post' = [post EXCEPT ![t] = post[t]] BY <1>1 DEF Load, ProgressInv
  <2>3. tabs[t].rereading = FALSE BY <1>1, <1>t DEF Load, TabRecords
  <2>4. TabBounds(n, post[t]) BY <1>t, <1>v, <2>3 DEF TabBounds, TabRecords
  <2> HIDE DEF n
  <2> QED BY <1>1, <2>1, <2>2, <2>4, OneTabBounds DEF Load
<1>2. ASSUME NEW t \in Tabs, Record(t) PROVE ProgressBounds'
  <2>1. PICK far \in 1 .. Far :
          tabs' = [tabs EXCEPT ![t].pending = [far |-> far, seq |-> tabs[t].seq + 1], ![t].seq = @ + 1]
    BY <1>2 DEF Record
  <2> DEFINE n == [tabs[t] EXCEPT !.pending = [far |-> far, seq |-> tabs[t].seq + 1], !.seq = tabs[t].seq + 1]
  <2>2. tabs' = [tabs EXCEPT ![t] = n] BY <2>1 DEF ProgressInv
  <2>3. post' = [post EXCEPT ![t] = post[t]] BY <1>2 DEF Record, ProgressInv
  <2>4. tabs[t].seq + 1 \in 1 .. MaxPositions BY <1>2, <1>t DEF Record, TabRecords
  <2>5. [far |-> far, seq |-> tabs[t].seq + 1] \in Positions BY <2>4 DEF Positions
  <2>6. TabBounds(n, post[t]) BY <1>t, <2>4, <2>5 DEF TabBounds, TabRecords
  <2> HIDE DEF n
  <2> QED BY <1>2, <2>2, <2>3, <2>6, OneTabBounds DEF Record
<1>3. ASSUME NEW t \in Tabs, Send(t) PROVE ProgressBounds'
  <2> DEFINE n == [tabs[t] EXCEPT !.sent = tabs[t].pending, !.pending = NoRecord]
  <2>1. tabs' = [tabs EXCEPT ![t] = n] BY <1>3 DEF Send, ProgressInv
  <2>2. post' = [post EXCEPT ![t] = post[t]] BY <1>3 DEF Send, ProgressInv
  <2>3. tabs[t].loaded = TRUE BY <1>3, <1>t DEF Send, MaySend, TabRecords
  <2>4. TabBounds(n, post[t]) BY <1>t, <2>3 DEF TabBounds, TabRecords
  <2> HIDE DEF n
  <2> QED BY <1>3, <2>1, <2>2, <2>4, OneTabBounds DEF Send
<1>4. ASSUME NEW t \in Tabs, Receive(t) PROVE ProgressBounds'
  <2>p. post[t] # NoRecord /\ post[t].revision <= MaxRevision /\ tabs[t].sent # NoRecord
    BY <1>4, <1>t DEF Receive, TabBounds, ProgressInv, PositionsInOrder
  <2>i. UNCHANGED <<row, twin, kept>> /\ post' = [post EXCEPT ![t] = NoRecord] BY <1>4 DEF Receive
  <2>1. CASE post[t].kind = "ok"
    <3> DEFINE n == [tabs[t] EXCEPT !.revision = post[t].revision, !.current = post[t].current, !.sent = NoRecord]
    <3>1. tabs' = [tabs EXCEPT ![t] = n] BY <1>4, <2>1 DEF Receive
    <3>2. tabs[t].rereading = FALSE BY <2>p, <1>t DEF ProgressInv, PositionsInOrder
    <3>3. TabBounds(n, NoRecord) BY <1>t, <2>p, <3>2 DEF TabBounds, TabRecords
    <3> HIDE DEF n
    <3> QED BY <2>i, <3>1, <3>3, OneTabBounds
  <2>2. CASE post[t].kind = "stale"
    <3> DEFINE n == [tabs[t] EXCEPT !.loaded = FALSE, !.rereading = TRUE, !.refused = tabs[t].seq]
    <3>1. tabs' = [tabs EXCEPT ![t] = n] BY <1>4, <2>2 DEF Receive
    <3>2. TabBounds(n, NoRecord) BY <1>t, <2>p DEF TabBounds, TabRecords
    <3> HIDE DEF n
    <3> QED BY <2>i, <3>1, <3>2, OneTabBounds
  <2>3. CASE post[t].kind \notin {"ok", "stale"}
    <3> DEFINE n == [tabs[t] EXCEPT !.pending = IF tabs[t].pending = NoRecord THEN tabs[t].sent ELSE tabs[t].pending,
                                    !.sent = NoRecord]
    <3>1. tabs' = [tabs EXCEPT ![t] = n] BY <1>4, <2>3 DEF Receive
    <3>2. tabs[t].rereading = FALSE BY <2>p, <1>t DEF ProgressInv, PositionsInOrder
    <3>3. TabBounds(n, NoRecord) BY <1>t, <2>p, <3>2 DEF TabBounds, TabRecords
    <3> HIDE DEF n
    <3> QED BY <2>i, <3>1, <3>3, OneTabBounds
  <2> QED BY <2>1, <2>2, <2>3
<1>5. ASSUME NEW t \in Tabs, Reread(t) PROVE ProgressBounds'
  <2>1. PICK answered \in BOOLEAN :
          tabs' = [tabs EXCEPT ![t] =
            [@ EXCEPT !.rereading = FALSE, !.pending = AfterRefusal(t), !.sent = NoRecord, !.loaded = answered,
                      !.revision = IF answered THEN Revision(row) ELSE tabs[t].revision, !.current = answered]]
    BY <1>5, Zenon DEF Reread
  <2> DEFINE n == [tabs[t] EXCEPT !.rereading = FALSE, !.pending = NoRecord, !.sent = NoRecord, !.loaded = answered,
                      !.revision = IF answered THEN Revision(row) ELSE tabs[t].revision, !.current = answered]
  <2>2. tabs' = [tabs EXCEPT ![t] = n] BY <2>1 DEF AfterRefusal, ProgressInv
  <2>3. post' = [post EXCEPT ![t] = post[t]] BY <1>5 DEF Reread, ProgressInv
  <2>4. TabBounds(n, post[t]) BY <1>t, <1>v DEF TabBounds, TabRecords
  <2> HIDE DEF n
  <2> QED BY <1>5, <2>2, <2>3, <2>4, OneTabBounds DEF Reread
<1>6. ASSUME NEW t \in Tabs, Refuse(t) \/ Lose(t) PROVE ProgressBounds'
  <2>1. PICK kind, revision : revision = 0 /\ post' = [post EXCEPT ![t] = [kind |-> kind, revision |-> revision, current |-> FALSE]]
    BY <1>6 DEF Refuse, Lose, Lost, Response
  <2>2. tabs' = [tabs EXCEPT ![t] = tabs[t]] BY <1>6 DEF Refuse, Lose, ProgressInv
  <2>3. TabBounds(tabs[t], [kind |-> kind, revision |-> revision, current |-> FALSE]) BY <1>t, <1>v, <2>1 DEF TabBounds
  <2> QED BY <1>6, <2>1, <2>2, <2>3, OneTabBounds DEF Refuse, Lose
<1>7. ASSUME NEW t \in Tabs, Accept(t) PROVE ProgressBounds'
  <2>1. tabs[t].sent \in Positions BY <1>7, <1>t DEF Accept, Asked, TabBounds
  <2>2. NextRevision \in Nat \ {0} BY <1>v DEF NextRevision
  <2>3. tabs[t].sent.far \in 0 .. Far BY <2>1 DEF Positions
  <2>4. Writes([far |-> tabs[t].sent.far, revision |-> NextRevision]) BY <1>7 DEF Accept
  <2>5. row' \in Rows BY <2>2, <2>3, <2>4, WrittenIsBounded
  <2>6. NextRevision <= MaxRevision BY <2>4 DEF Writes
  <2>7. PICK answer : /\ answer \in {Response("ok", NextRevision, TRUE), Lost}
                      /\ post' = [OutdatedPosts EXCEPT ![t] = answer]
    BY <1>7 DEF Accept
  <2>8. answer.revision <= MaxRevision BY <1>v, <2>6, <2>7 DEF Response, Lost
  <2>9. \A u \in Tabs : TabBounds(tabs'[u], post'[u])
    <3> TAKE u \in Tabs
    <3>1. TabBounds(Outdated[u], OutdatedPosts[u]) /\ tabs'[u] = Outdated[u] BY <1>7, OutdatedBounds DEF Accept
    <3>2. CASE u = t
      <4>1. post'[u] = answer BY <2>7, <3>2 DEF OutdatedPosts
      <4> QED BY <2>8, <3>1, <4>1 DEF TabBounds
    <3>3. CASE u # t
      <4>1. post'[u] = OutdatedPosts[u] BY <2>7, <3>3 DEF OutdatedPosts
      <4> QED BY <3>1, <4>1
    <3> QED BY <3>2, <3>3
  <2> QED BY <1>7, <2>5, <2>9 DEF Accept, ProgressBounds
<1>8. CASE Mark
  <2>1. PICK far \in {0, Far} : Writes([far |-> far, revision |-> NextRevision]) BY <1>8 DEF Mark
  <2>2. NextRevision \in Nat \ {0} /\ far \in 0 .. Far BY <1>v DEF NextRevision
  <2>3. row' \in Rows BY <2>1, <2>2, WrittenIsBounded
  <2> QED BY <1>8, <2>3, ChangedBounds DEF Mark
<1>9. CASE JoinTwin BY <1>9, JoinsBounds DEF JoinTwin
<1>10. CASE MergeKept BY <1>10, JoinsBounds DEF MergeKept
<1>11. CASE BackUpProgress BY <1>11 DEF BackUpProgress, ProgressBounds
<1>12. CASE ReplaceByKept
  <2>1. row' \in Rows /\ Changed /\ kept' = kept /\ twin' = twin BY <1>12 DEF ReplaceByKept, ProgressBounds
  <2> QED BY <2>1, ChangedBounds
<1>13. CASE UNCHANGED progressVars BY <1>13 DEF progressVars, ProgressBounds
<1> QED BY <1>1, <1>2, <1>3, <1>4, <1>5, <1>6, <1>7, <1>8, <1>9, <1>10, <1>11, <1>12, <1>13 DEF ProgressNext

(* No record, and no tab that is open, at the start.                             *)
LEMMA BoundsInitially == ASSUME ProgressInit PROVE ProgressBounds
<1>1. \A t \in Tabs : TabBounds(tabs[t], post[t]) BY DEF ProgressInit, Unopened, TabBounds
<1> QED BY <1>1 DEF ProgressInit, ProgressBounds

(* Records and positions are of their types.                                     *)
LEMMA ProgressTypes == ASSUME ProgressInv, ProgressBounds PROVE ProgressTypeOK
<1>1. \A t \in Tabs : tabs[t] \in TabRecords /\ PositionsInOrder(tabs[t], post[t], written[t]) /\ TabBounds(tabs[t], post[t])
  BY DEF ProgressInv, ProgressBounds
<1>2. ASSUME NEW t \in Tabs
      PROVE  /\ tabs[t].pending \in {NoRecord} \cup Positions /\ tabs[t].sent \in {NoRecord} \cup Positions
             /\ (post[t] # NoRecord) => tabs[t].sent # NoRecord
             /\ tabs[t].rereading => (~tabs[t].loaded /\ tabs[t].sent # NoRecord)
             /\ written[t] <= tabs[t].seq /\ tabs[t].revision \in 0 .. MaxRevision
  <2>1. tabs[t].rereading => (~tabs[t].loaded /\ tabs[t].sent # NoRecord) BY <1>1 DEF TabRecords, TabBounds
  <2>2. tabs[t].revision \in 0 .. MaxRevision BY <1>1 DEF TabRecords, TabBounds
  <2> QED BY <1>1, <2>1, <2>2 DEF PositionsInOrder, TabBounds
<1> QED BY <1>2 DEF ProgressBounds, ProgressTypeOK

HIDE ProgressAssumption

USE SessionsAssumption

(* What is kept of sessions and validations, and how many browsers are open: the *)
(* logins that are active are finitely many, though those there may be are not.  *)
StoreOfSessions ==
  /\ sessionState \in {"not_connected", "checking", "connected", "needs_reconnect"}
  /\ stored \in {None, Unreadable} \cup Readable
  /\ checks \in [Checks -> {None} \cup Readable] /\ uses \in [Uses -> {"idle", None} \cup Readable]
  /\ sessionCrashes \in 0 .. MaxSessionCrashes /\ interrupted \in BOOLEAN
FewOf(ls) == LET active == {l \in Logins : ls[l].active = TRUE} IN IsFiniteSet(active) /\ Cardinality(active) <= MaxActive
SessionsInv == SessionInv /\ StoreOfSessions /\ FewOf(logins) /\ CheckingIsUnderWay

(* Fewer are few.                                                                *)
LEMMA FewerAreFew ==
  ASSUME NEW ls, NEW fs, FewOf(ls), \A l \in Logins : fs[l].active = TRUE => ls[l].active = TRUE
  PROVE  FewOf(fs)
<1> DEFINE A == {l \in Logins : ls[l].active = TRUE}
           B == {l \in Logins : fs[l].active = TRUE}
<1>1. IsFiniteSet(A) /\ Cardinality(A) <= MaxActive BY DEF FewOf
<1>2. B \subseteq A OBVIOUS
<1>3. IsFiniteSet(B) /\ Cardinality(B) <= Cardinality(A) BY <1>1, <1>2, FS_Subset
<1>4. Cardinality(A) \in Nat /\ Cardinality(B) \in Nat BY <1>1, <1>3, FS_CardinalityType
<1>5. Cardinality(B) <= MaxActive BY <1>1, <1>3, <1>4
<1> QED BY <1>3, <1>5 DEF FewOf

(* One more, below the limit, are few.                                           *)
LEMMA OneMoreIsFew ==
  ASSUME NEW ls, NEW fs, NEW x \in Logins, FewOf(ls), ~AtLimit(ls), ls \in [Logins -> LoginRows],
         \A l \in Logins \ {x} : fs[l].active = TRUE => ls[l].active = TRUE
  PROVE  FewOf(fs)
<1> DEFINE A == {l \in Logins : ls[l].active = TRUE}
           B == {l \in Logins : fs[l].active = TRUE}
<1>0. A = {l \in Logins : ls[l].active} BY DEF LoginRows
<1>1. IsFiniteSet(A) /\ ~(Cardinality(A) >= MaxActive) BY <1>0 DEF FewOf, AtLimit
<1>2. PICK n \in Nat : n = Cardinality(A) BY <1>1, FS_CardinalityType
<1>3. IsFiniteSet(A \cup {x}) /\ Cardinality(A \cup {x}) = IF x \in A THEN n ELSE n + 1 BY <1>1, <1>2, FS_AddElement
<1>4. Cardinality(A \cup {x}) <= MaxActive BY <1>1, <1>2, <1>3
<1>5. B \subseteq A \cup {x} OBVIOUS
<1>6. IsFiniteSet(B) /\ Cardinality(B) <= Cardinality(A \cup {x}) BY <1>3, <1>5, FS_Subset
<1>7. Cardinality(A \cup {x}) \in Nat /\ Cardinality(B) \in Nat BY <1>3, <1>6, FS_CardinalityType
<1>8. Cardinality(B) <= MaxActive BY <1>4, <1>6, <1>7
<1> QED BY <1>6, <1>8 DEF FewOf

(* Nothing is stored, and no browser is open, at the start.                      *)
LEMMA SessionsInitially == ASSUME SessionsInit PROVE SessionsInv
<1>1. SessionInv BY DEF SessionsInit, SessionInv, NoLogin, LoginRows
<1>2. {l \in Logins : logins[l].active = TRUE} = {} BY DEF SessionsInit, NoLogin
<1>3. FewOf(logins) BY <1>2, FS_EmptySet DEF FewOf
<1>4. 0 \in 0 .. MaxSessionCrashes OBVIOUS
<1>5. StoreOfSessions BY <1>4 DEF SessionsInit, StoreOfSessions
<1>6. CheckingIsUnderWay BY DEF SessionsInit, CheckingIsUnderWay
<1> QED BY <1>1, <1>3, <1>5, <1>6 DEF SessionsInv

(* What is loaded or sent can be read, and the state is one of the four.         *)
LEMMA LoadedIsReadable ==
  ASSUME StoreOfSessions
  PROVE  /\ Loaded \in {None} \cup Readable /\ Sent \in {None} \cup Readable
         /\ AfterLoad \in {"not_connected", "checking", "connected", "needs_reconnect"}
         /\ AfterLoad = "checking" => sessionState = "checking"
<1>1. Loaded \in {None} \cup Readable BY DEF StoreOfSessions, Loaded
<1>2. Sent \in {None} \cup Readable BY <1>1 DEF Sent
<1>3. /\ AfterLoad \in {"not_connected", "checking", "connected", "needs_reconnect"}
      /\ AfterLoad = "checking" => sessionState = "checking"
  BY DEF StoreOfSessions, AfterLoad
<1> QED BY <1>1, <1>2, <1>3

(* Logins are opened one at a time and closed in any number.                     *)
LEMMA LoginsStayFew ==
  ASSUME SessionInv, FewOf(logins), [SessionsNext]_sessionVars PROVE FewOf(logins')
<1>r. logins \in [Logins -> LoginRows] /\ \A l \in Logins : logins[l] \in LoginRows BY DEF SessionInv
<1>c. \A x \in LoginRows : Cancelled(x) \in LoginRows /\ Cancelled(x).active = FALSE
  <2>1. \A x \in LoginRows : Cancelled(x) \in LoginRows BY CancelledKeeps
  <2>2. \A x \in LoginRows : Cancelled(x).active = FALSE BY DEF Cancelled, LoginRows
  <2> QED BY <2>1, <2>2
<1>p. /\ Pruned \in [Logins -> LoginRows]
      /\ \A l \in Logins : Pruned[l].active = TRUE => logins[l].active = TRUE
  BY <1>r, <1>c DEF Pruned
<1>f. FewOf(Pruned) BY <1>p, FewerAreFew
<1>1. ASSUME NEW x \in Logins, StartLogin(x) PROVE FewOf(logins')
  <2>1. CASE AtLimit(Pruned) BY <1>1, <1>f, <2>1 DEF StartLogin
  <2>2. CASE ~AtLimit(Pruned)
    <3>1. logins' = [Pruned EXCEPT ![x].phase = "starting", ![x].active = TRUE] BY <1>1, <2>2 DEF StartLogin
    <3>2. \A l \in Logins \ {x} : logins'[l] = Pruned[l] BY <1>p, <3>1
    <3> QED BY <1>f, <1>p, <2>2, <3>2, OneMoreIsFew
  <2> QED BY <2>1, <2>2
<1>2. ASSUME NEW x \in Logins, LoginOpens(x) \/ LoginExpires(x) \/ CompleteLogin(x) \/ LoginRefused(x) \/ LoginAccepted(x)
      PROVE  FewOf(logins')
  <2>1. /\ \A l \in Logins \ {x} : logins'[l] = logins[l]
        /\ logins'[x].active = TRUE => logins[x].active = TRUE
    BY <1>2, <1>r DEF LoginOpens, LoginExpires, CompleteLogin, LoginRefused, LoginAccepted, LoginRows
  <2>2. \A l \in Logins : logins'[l].active = TRUE => logins[l].active = TRUE BY <2>1
  <2> QED BY <2>2, FewerAreFew
<1>3. ASSUME NEW x \in Logins, CancelLogin(x) PROVE FewOf(logins')
  <2>1. \A l \in Logins : logins'[l].active = TRUE => logins[l].active = TRUE BY <1>3, <1>r, <1>c DEF CancelLogin
  <2> QED BY <2>1, FewerAreFew
<1>4. CASE SessionCrash
  <2>1. logins' = [l \in Logins |-> IF logins[l].phase = "none" THEN NoLogin ELSE [NoLogin EXCEPT !.phase = "ended"]]
    BY <1>4 DEF SessionCrash
  <2>2. NoLogin.active = FALSE /\ [NoLogin EXCEPT !.phase = "ended"].active = FALSE BY DEF NoLogin
  <2>3. \A l \in Logins : logins'[l].active = TRUE => logins[l].active = TRUE BY <2>1, <2>2
  <2> QED BY <2>3, FewerAreFew
<1>5. ASSUME logins' = logins PROVE FewOf(logins') BY <1>5
<1> QED BY <1>1, <1>2, <1>3, <1>4, <1>5
       DEF SessionsNext, LoginStep, sessionVars, StartCheck, CheckBreaks, EndCheck, StartUse, UseRefused, UseAnswered, Disconnect

(* What is stored and shown of a session stays what it may be, and a validation  *)
(* that is shown is under way.                                                   *)
LEMMA StoreStep ==
  ASSUME SessionInv, StoreOfSessions, CheckingIsUnderWay, [SessionsNext]_sessionVars
  PROVE  StoreOfSessions' /\ CheckingIsUnderWay'
<1>l. /\ Loaded \in {None} \cup Readable /\ Sent \in {None} \cup Readable
      /\ AfterLoad \in {"not_connected", "checking", "connected", "needs_reconnect"}
      /\ AfterLoad = "checking" => sessionState = "checking"
  BY LoadedIsReadable
<1> DEFINE Kept == checks' = checks /\ interrupted' = interrupted /\ sessionCrashes' = sessionCrashes
<1>k. ASSUME Kept, sessionState' \in {sessionState, AfterLoad, "connected", "needs_reconnect", "not_connected"},
             stored' \in {None, Unreadable} \cup Readable, uses' \in [Uses -> {"idle", None} \cup Readable]
      PROVE  StoreOfSessions' /\ CheckingIsUnderWay'
  <2>1. sessionState' \in {"not_connected", "checking", "connected", "needs_reconnect"} /\ (sessionState' = "checking" => sessionState = "checking")
    BY <1>k, <1>l DEF StoreOfSessions
  <2> QED BY <1>k, <2>1 DEF StoreOfSessions, CheckingIsUnderWay
<1>1. ASSUME NEW l \in Logins, LoginStep(l) PROVE StoreOfSessions' /\ CheckingIsUnderWay'
  <2>1. /\ Kept /\ uses' = uses /\ stored' \in {stored, l}
        /\ sessionState' \in {sessionState, AfterLoad, "connected"}
    BY <1>1 DEF LoginStep, StartLogin, LoginOpens, LoginExpires, CancelLogin, CompleteLogin, LoginAccepted, LoginRefused
  <2>2. stored' \in {None, Unreadable} \cup Readable BY <2>1 DEF StoreOfSessions, Readable
  <2> QED BY <1>k, <2>1, <2>2 DEF StoreOfSessions
<1>2. ASSUME NEW c \in Checks, StartCheck(c) PROVE StoreOfSessions' /\ CheckingIsUnderWay'
  <2>1. CASE Loaded = None
    <3>1. Kept /\ uses' = uses /\ stored' = stored /\ sessionState' = AfterLoad BY <1>2, <2>1 DEF StartCheck
    <3> QED BY <1>k, <3>1 DEF StoreOfSessions
  <2>2. CASE Loaded # None
    <3>1. /\ sessionState' = "checking" /\ checks' = [checks EXCEPT ![c] = Loaded] /\ stored' = stored /\ uses' = uses
          /\ sessionCrashes' = sessionCrashes /\ interrupted' = interrupted
      BY <1>2, <2>2 DEF StartCheck
    <3>2. checks' \in [Checks -> {None} \cup Readable] /\ checks'[c] # None BY <1>l, <2>2, <3>1 DEF StoreOfSessions
    <3> QED BY <3>1, <3>2 DEF StoreOfSessions, CheckingIsUnderWay
  <2> QED BY <2>1, <2>2
<1>3. ASSUME NEW c \in Checks, NEW good \in BOOLEAN, EndCheck(c, good) PROVE StoreOfSessions' /\ CheckingIsUnderWay'
  <2>1. sessionState' \in {"connected", "needs_reconnect"} /\ stored' = stored /\ uses' = uses
        /\ sessionCrashes' = sessionCrashes /\ interrupted' = interrupted /\ checks' = [checks EXCEPT ![c] = None]
    BY <1>3 DEF EndCheck, VerdictOf
  <2>2. checks' \in [Checks -> {None} \cup Readable] BY <2>1 DEF StoreOfSessions
  <2> QED BY <2>1, <2>2 DEF StoreOfSessions, CheckingIsUnderWay
<1>4. ASSUME NEW c \in Checks, CheckBreaks(c) PROVE StoreOfSessions' /\ CheckingIsUnderWay'
  <2>1. checks' \in [Checks -> {None} \cup Readable] BY <1>4 DEF CheckBreaks, StoreOfSessions
  <2> QED BY <1>4, <2>1 DEF CheckBreaks, StoreOfSessions, CheckingIsUnderWay
<1>5. ASSUME NEW u \in Uses, StartUse(u) \/ UseRefused(u) PROVE StoreOfSessions' /\ CheckingIsUnderWay'
  <2>1. Kept /\ stored' = stored /\ sessionState' \in {sessionState, AfterLoad, "needs_reconnect"}
    BY <1>5 DEF StartUse, UseRefused
  <2>2. uses' \in [Uses -> {"idle", None} \cup Readable] BY <1>5, <1>l DEF StartUse, UseRefused, StoreOfSessions
  <2> QED BY <1>k, <2>1, <2>2 DEF StoreOfSessions
<1>6. ASSUME NEW u \in Uses, UseAnswered(u) PROVE StoreOfSessions' /\ CheckingIsUnderWay'
  <2>1. Kept /\ sessionState' \in {sessionState, AfterLoad} /\ stored' \in {stored, Anonymous, uses[u]}
        /\ uses' = [uses EXCEPT ![u] = "idle"] /\ uses[u] # "idle"
    BY <1>6 DEF UseAnswered
  <2>2. uses[u] \in {None} \cup Readable BY <2>1 DEF StoreOfSessions
  <2>3. stored' \in {None, Unreadable} \cup Readable BY <2>1, <2>2 DEF StoreOfSessions, Readable
  <2>4. uses' \in [Uses -> {"idle", None} \cup Readable] BY <2>1 DEF StoreOfSessions
  <2> QED BY <1>k, <2>1, <2>3, <2>4
<1>7. CASE Disconnect
  <2>1. Kept /\ uses' = uses /\ stored' = None /\ sessionState' = "not_connected" BY <1>7 DEF Disconnect
  <2> QED BY <1>k, <2>1 DEF StoreOfSessions
<1>8. CASE SessionCrash
  <2>1. PICK s \in {stored, None} \cup {l \in Logins : logins[l].phase = "validating"}, keyKept \in BOOLEAN :
          stored' = IF keyKept \/ s = None THEN s ELSE Unreadable
    BY <1>8 DEF SessionCrash
  <2>2. stored' \in {None, Unreadable} \cup Readable BY <2>1 DEF StoreOfSessions, Readable
  <2>3. /\ sessionCrashes' = sessionCrashes + 1 /\ sessionCrashes < MaxSessionCrashes /\ interrupted' = TRUE
        /\ checks' = [c \in Checks |-> None] /\ uses' = [u \in Uses |-> "idle"] /\ sessionState' = sessionState
    BY <1>8 DEF SessionCrash
  <2> QED BY <2>2, <2>3 DEF StoreOfSessions, CheckingIsUnderWay
<1>9. CASE UNCHANGED sessionVars BY <1>9 DEF sessionVars, StoreOfSessions, CheckingIsUnderWay, Readable
<1> QED BY <1>1, <1>2, <1>3, <1>4, <1>5, <1>6, <1>7, <1>8, <1>9 DEF SessionsNext

(* Few browsers are open, as the type says.                                      *)
LEMMA SessionsShow == ASSUME SessionsInv PROVE SessionTypeOK /\ CheckingIsUnderWay
<1>1. Active = {l \in Logins : logins[l].active = TRUE} BY DEF Active, SessionsInv, SessionInv, LoginRows
<1>2. Cardinality(Active) <= MaxActive BY <1>1 DEF SessionsInv, FewOf
<1> QED BY <1>2 DEF SessionsInv, SessionInv, LoginRows, StoreOfSessions, SessionTypeOK

HIDE SessionsAssumption

USE PageListsAssumption

(* An attempt is never past the end of its list by more than one.                *)
WithinList == fetching.at <= Len(fetching.list) + 1

(* A fetch goes on to the next place of its list, or gets a list anew.         *)
LEMMA WithinListStep ==
  ASSUME UnitPagesInv, WithinList, [PagesOfUnitNext]_pageVars
  PROVE  WithinList'
<1>1. UnitPagesInv' BY UnitPagesStep
<1>2. CASE fetching' = fetching BY <1>2 DEF WithinList
<1>3. CASE fetching' = NoFetch BY <1>3 DEF WithinList, NoFetch
<1>4. CASE fetching'.pc \in {"page", "record"}
  <2>1. PICK list \in PageLists, at \in Nat : list = fetching'.list /\ at = fetching'.at /\ at \in 1 .. Len(list) + 1
    BY <1>1, <1>4 DEF UnitPagesInv, UnitPagesShape, FetchedSoFar
  <2>2. at <= Len(list) + 1 BY <2>1, PlacesSuffice
  <2> QED BY <2>1, <2>2 DEF WithinList
<1>5. CASE PackagePages
  <2>1. fetching' = [fetching EXCEPT !.pc = "done"] BY <1>5 DEF PackagePages
  <2>2. fetching'.at = fetching.at /\ fetching'.list = fetching.list BY <2>1 DEF UnitPagesInv, UnitPagesShape
  <2> QED BY <2>2 DEF WithinList
<1>6. \/ fetching' = fetching \/ fetching' = NoFetch \/ PackagePages
      \/ BeginPages \/ SkipPage \/ PageArrives \/ RecordPage
  <2>1. UNCHANGED pageVars => fetching' = fetching BY DEF pageVars
  <2>2. FetchBreaks \/ CancelAndRetry => fetching' = NoFetch BY DEF FetchBreaks, CancelAndRetry
  <2>3. SiteRelists => fetching' = fetching BY DEF SiteRelists
  <2> QED BY <2>1, <2>2, <2>3 DEF PagesOfUnitNext
<1>7. BeginPages \/ SkipPage \/ PageArrives \/ RecordPage => fetching'.pc \in {"page", "record"}
  <2>1. BeginPages => fetching'.pc = "page" BY DEF BeginPages
  <2>2. PageArrives => fetching'.pc = "record" BY DEF PageArrives, UnitPagesInv, UnitPagesShape
  <2>3. SkipPage \/ RecordPage => fetching'.pc = "page" BY DEF SkipPage, RecordPage, UnitPagesInv, UnitPagesShape
  <2> QED BY <2>1, <2>2, <2>3
<1> QED BY <1>2, <1>3, <1>4, <1>5, <1>6, <1>7

(* Nothing is fetched at the start.                                            *)
LEMMA WithinListInitially == ASSUME PagesOfUnitInit PROVE WithinList
BY DEF PagesOfUnitInit, NoFetch, WithinList

(* What is fetched has the types of its variables.                               *)
LEMMA PageTypes == ASSUME UnitPagesInv, WithinList PROVE PageRetrievalTypeOK
<1> USE DEF UnitPagesInv, UnitPagesShape
<1>1. DOMAIN packaged \subseteq PagePlaces
  <2>1. CASE packaged = <<>> BY <2>1
  <2>2. CASE packaged # <<>>
    <3>1. packaged \in PageLists BY <2>2 DEF ArchiveIsWhole
    <3>2. packaged \in Seq(PageUrls) /\ 1 .. Len(packaged) \subseteq PagePlaces BY <3>1, PlacesSuffice
    <3>3. DOMAIN packaged = 1 .. Len(packaged) BY <3>2
    <3> QED BY <3>2, <3>3
  <2> QED BY <2>1, <2>2
<1>2. fetching.at \in 0 .. Len(fetching.list) + 1
  <2>1. Len(fetching.list) \in Nat /\ fetching.at \in Nat BY PlacesSuffice
  <2> QED BY <2>1 DEF WithinList
<1>3. ASSUME NEW n \in PagePlaces
      PROVE  /\ pageFiles[n] # NoImage => pageFiles[n] \in PageUrls
             /\ pageRecords[n] # NoImage => pageRecords[n] \in [url : PageUrls, image : PageUrls]
  BY <1>3 DEF PageRows
<1> QED BY <1>1, <1>2, <1>3 DEF PageRetrievalTypeOK
HIDE PageListsAssumption

(* READING AHEAD. There are no more downloads than are counted, and what is read *)
(* is a unit.                                                                    *)
FewDownloads == Len(downloads) <= MaxDownloads /\ (reading # NotReading => reading \in TrackUnits)

USE DownloadsAssumption

(* What is asked for is counted.                                                 *)
LEMMA EnqueueCounts ==
  ASSUME AheadShape, NEW wanted \in SUBSET TrackUnits, NEW ahead, NEW by, Enqueue(wanted, ahead, by)
  PROVE  Len(downloads') <= MaxDownloads
<1> DEFINE new == {u \in wanted : u \notin copies /\ ~ActiveJob(u)}
<1>0. IsFiniteSet(TrackUnits) BY FS_Interval DEF TrackUnits
<1>1. IsFiniteSet(new)
  <2>1. new \subseteq TrackUnits OBVIOUS
  <2> QED BY <2>1, <1>0, FS_Subset
<1>2. PICK count \in Nat : count = Cardinality(new) BY <1>1, FS_CardinalityType
<1>3. PICK queued :
        downloads' = downloads \o
             [n \in 1 .. count |-> [unit |-> queued[n], state |-> "queued", ahead |-> queued[n] \in ahead, by |-> by]]
  BY <1>2 DEF Enqueue
<1>4. Len(downloads) + count <= MaxDownloads BY <1>2 DEF Enqueue
<1> HIDE DEF new
<1> DEFINE entry(n) == [unit |-> queued[n], state |-> "queued", ahead |-> queued[n] \in ahead, by |-> by]
<1> DEFINE more == [n \in 1 .. count |-> entry(n)]
<1> DEFINE rows == {entry(n) : n \in 1 .. count} \cup Downloads
<1>5. downloads' = downloads \o more BY <1>3
<1>6. \A n \in 1 .. count : entry(n) \in rows OBVIOUS
<1> HIDE DEF entry
<1>7. more \in Seq(rows) /\ Len(more) = count BY <1>2, <1>6
<1>8. downloads \in Seq(Downloads) /\ Downloads \subseteq rows BY DEF AheadShape
<1> HIDE DEF more, rows
<1>9. downloads \in Seq(rows) BY <1>8
<1>10. Len(downloads') = Len(downloads) + Len(more) BY <1>5, <1>7, <1>9, ConcatProperties
<1> QED BY <1>4, <1>7, <1>10

(* Jobs are only added while there is room for all of them.                    *)
LEMMA FewDownloadsStep ==
  ASSUME AheadInv, FewDownloads, [ReadAheadNext]_readAheadVars
  PROVE  FewDownloads'
<1> USE DEF FewDownloads
<1>s. AheadShape BY DEF AheadInv
<1>1. CASE UNCHANGED readAheadVars BY <1>1 DEF readAheadVars
<1>2. ASSUME NEW u \in TrackUnits, Engage(u) PROVE FewDownloads'
  <2>1. reading' = u BY <1>2 DEF Engage
  <2>2. CASE downloads' = downloads BY <2>1, <2>2
  <2>3. CASE downloads' # downloads
    <3> DEFINE wanted == {v \in {u} \cup Following(u) : NeedsDownload(v)}
    <3>1. wanted \subseteq TrackUnits BY DEF Following
    <3>2. Enqueue(wanted, wanted \ {u}, "reader") BY <1>2, <2>3 DEF Engage
    <3> HIDE DEF wanted
    <3> QED BY <1>s, <2>1, <3>1, <3>2, EnqueueCounts
  <2> QED BY <2>2, <2>3
<1>3. ASSUME NEW u \in TrackUnits, UserDownloads(u) PROVE FewDownloads'
  <2>1. Enqueue({u}, {}, "user") /\ UNCHANGED reading BY <1>3 DEF UserDownloads
  <2> QED BY <1>s, <2>1, EnqueueCounts
<1>4. ASSUME NEW u \in TrackUnits, DeleteCopy(u) PROVE FewDownloads' BY <1>4 DEF DeleteCopy
<1>5. CASE RestartProgram BY <1>5 DEF RestartProgram
<1>6. CASE LeaveWork
  <2>1. reading' = NotReading /\ DOMAIN downloads' = DownloadIds BY <1>6 DEF LeaveWork
  <2>2. Len(downloads) \in Nat /\ DownloadIds = 1 .. Len(downloads) BY <1>s, DownloadRows
  <2>3. downloads' \in Seq(Downloads) BY <1>6, LeaveKeeps DEF AheadInv, AheadShape
  <2>4. PICK now \in Seq(Downloads), len \in Nat : now = downloads' /\ len = Len(downloads) /\ DOMAIN now = 1 .. len
    BY <2>1, <2>2, <2>3
  <2>5. Len(now) = len BY <2>4
  <2> QED BY <2>1, <2>4, <2>5
<1>7. ASSUME NEW i \in DownloadIds, UserCancels(i) \/ UserRetriesJob(i) \/ StartJob(i) \/ EndJob(i) PROVE FewDownloads'
  <2>1. PICK to : downloads' = [downloads EXCEPT ![i].state = to]
    BY <1>7 DEF UserCancels, UserRetriesJob, StartJob, EndJob, Moves
  <2>2. reading' = reading BY <1>7 DEF UserCancels, UserRetriesJob, StartJob, EndJob, Moves
  <2>3. Len(downloads') = Len(downloads) BY <1>s, <2>1 DEF AheadShape
  <2> QED BY <2>2, <2>3
<1> QED BY <1>1, <1>2, <1>3, <1>4, <1>5, <1>6, <1>7 DEF ReadAheadNext

(* There are none at the start.                                                *)
LEMMA FewDownloadsInitially == ASSUME ReadAheadInit PROVE FewDownloads
BY DEF ReadAheadInit, FewDownloads

(* Downloads have the types of their variables.                                  *)
LEMMA AheadTypes == ASSUME AheadInv, FewDownloads PROVE ReadAheadTypeOK
<1>1. \A i \in DownloadIds : downloads[i].ahead \in BOOLEAN BY DownloadRows DEF AheadInv, Downloads
<1> QED BY <1>1 DEF AheadInv, AheadShape, FewDownloads, ReadAheadTypeOK

HIDE DownloadsAssumption

-----------------------------------------------------------------------------
(* The components side by side.                                                  *)

RecordsInv == ReviewInv /\ SchemaInv /\ ProgressInv /\ SessionInv /\ CorrectionsInv
              /\ SearchInv /\ UnitPagesInv /\ AheadInv /\ IdentityInv /\ PagedInv

(* The step of one component is a step or a stutter of each of them.             *)
LEMMA RecordsComponents ==
  ASSUME [RecordsNext]_recordsVars
  PROVE  /\ [PluginsNext]_pluginVars /\ [SchemaNext]_schemaVars /\ [ProgressNext]_progressVars
         /\ [SessionsNext]_sessionVars /\ [CorrectionsNext]_correctionVars /\ [ReadAheadNext]_readAheadVars
         /\ [SearchNext]_searchVars /\ [FileNext]_fileVars /\ [PagesOfUnitNext]_pageVars /\ [IdentityNext]_identityVars
         /\ [PagedNext]_pagedVars /\ [HealthNext]_healthVars /\ [EchNext]_echVars /\ [DiagnosticsNext]_diagnosticsVars
         /\ part' = part
<1>1. CASE UNCHANGED recordsVars
  BY <1>1 DEF recordsVars, sourceVars, networkVars, retrievalVars, libraryVars
<1>2. CASE SourcesNext /\ UNCHANGED <<part, networkVars, retrievalVars, libraryVars>>
  BY <1>2 DEF SourcesNext, networkVars, retrievalVars, libraryVars
<1>3. CASE RetrievalNext /\ UNCHANGED <<part, sourceVars, networkVars, libraryVars>>
  BY <1>3 DEF RetrievalNext, sourceVars, networkVars, libraryVars
<1>4. CASE NetworkNext /\ UNCHANGED <<part, sourceVars, retrievalVars, libraryVars>>
  BY <1>4 DEF NetworkNext, sourceVars, retrievalVars, libraryVars
<1>5. CASE LibraryNext /\ UNCHANGED <<part, sourceVars, networkVars, retrievalVars>>
  BY <1>5 DEF LibraryNext, sourceVars, networkVars, retrievalVars
<1> QED BY <1>1, <1>2, <1>3, <1>4, <1>5 DEF RecordsNext

(* Every component begins as its invariant says.                                 *)
LEMMA RecordsStart == RecordsInit => RecordsInv
BY ReviewInitially, SchemaInitially, ProgressInitially, SessionInitially, FieldsInitially,
   SearchInitially, UnitPagesInitially, AheadInitially, IdentityInitially, PagedInitially
   DEF RecordsInit, RecordsInv

(* What every step may do with what the user decided.                            *)
ReviewOK ==
  review.fetched # NoPackage /\ review'.fetched = NoPackage =>
    \A v \in Versions : versions'[v].package \in {versions[v].package, review.shown}
LoginOK ==
  stored = None /\ stored' # None =>
    \E l \in Logins : logins[l].phase = "validating" /\ logins'[l].phase = "ended" /\ stored' \in {l, Unreadable}
CorrectionOK ==
  /\ \A u \in Units2 : (source'[u] # source[u] /\ u \in units' /\ archive' = archive /\ refreshes' # refreshes) => Shows(u)'
  /\ MergeSaved => (\A u \in units' : Shows(u)')
LeavingOK ==
  (readerOpen /\ ~readerOpen') => \A i \in DownloadIds : downloads[i].by = "user" => downloads'[i] = downloads[i]

(* What it may do with a position, and with the version of the database.         *)
CurrentOK == \A t \in Tabs : written'[t] # written[t] /\ replaces = 0 => tabs[t].current
OrderOK == \A t \in Tabs : written'[t] # written[t] => written'[t] > written[t] /\ written'[t] > tabs[t].refused
JoinOK ==
  (JoinTwin \/ MergeKept) => /\ FarOf(row') >= FarOf(row)
                             /\ (row' # row => Revision(row') > Revision(row))
MigrationOK ==
  db'.version # db.version /\ program.from > 0 =>
    \E s \in snapshots : s.whole /\ s.db.version = program.from /\ s.db.content = db.content

(* And with what a listing belongs to.                                           *)
MappingOK == BlockedRespected /\ EvidenceYielded /\ DecisionsKept /\ NoneTwinned

(* Every step keeps the invariant, and does no more than it may.                 *)
LEMMA RecordsStep ==
  RecordsInv /\ [RecordsNext]_recordsVars =>
    /\ RecordsInv'
    /\ [ReviewOK]_pluginVars /\ [LoginOK]_sessionVars /\ [CorrectionOK]_correctionVars /\ [LeavingOK]_readAheadVars
    /\ [CurrentOK]_progressVars /\ [OrderOK]_progressVars /\ [JoinOK]_progressVars /\ [MigrationOK]_schemaVars
    /\ [MappingOK]_identityVars
<1> SUFFICES ASSUME RecordsInv, [RecordsNext]_recordsVars
             PROVE  /\ RecordsInv' /\ ReviewOK /\ LoginOK /\ CorrectionOK /\ LeavingOK
                    /\ CurrentOK /\ OrderOK /\ JoinOK /\ MigrationOK /\ MappingOK
  OBVIOUS
<1> USE DEF RecordsInv
<1>1. ReviewInv' /\ ReviewOK
  BY RecordsComponents, ReviewStep DEF ReviewOK
<1>2. SchemaInv' /\ MigrationOK
  BY RecordsComponents, SchemaStep DEF MigrationOK, SnapshotOf
<1>3. ProgressInv' /\ CurrentOK /\ OrderOK /\ JoinOK
  BY RecordsComponents, ProgressStep DEF CurrentOK, OrderOK, JoinOK
<1>4. SessionInv' /\ LoginOK
  BY RecordsComponents, SessionStep DEF LoginOK
<1>5. CorrectionsInv' /\ CorrectionOK
  BY RecordsComponents, FieldsShow, FieldsStep, CorrectionsStep DEF CorrectionOK
<1>6. AheadInv' /\ LeavingOK
  BY RecordsComponents, AheadStep DEF LeavingOK
<1>7. SearchInv' /\ UnitPagesInv'
  BY RecordsComponents, SearchStep, UnitPagesStep
<1>8. IdentityInv' /\ MappingOK
  BY RecordsComponents, IdentityStep DEF MappingOK
<1>9. PagedInv'
  BY RecordsComponents, PagedStep
<1> QED BY <1>1, <1>2, <1>3, <1>4, <1>5, <1>6, <1>7, <1>8, <1>9

(* So the invariant holds throughout.                                            *)
LEMMA RecordsKeep == RecordsSpec => []RecordsInv
BY RecordsStart, RecordsStep, PTL DEF RecordsSpec

(* The owner decides what runs: nothing that was not granted, nothing but the    *)
(* registered file, no source that was disabled or removed; and a start that is  *)
(* cut off does not skip the first run (plugins/manager.py, plugins/bundled.py). *)
THEOREM OwnerDecides == RecordsSpec => []OwnersChoicesStand
<1>1. RecordsInv => OwnersChoicesStand
  BY PluginInvShows DEF RecordsInv, ReviewInv, OwnersChoicesStand
<1> QED BY <1>1, RecordsKeep, PTL

(* What is committed is the whole schema of the version the database says it is, *)
(* wherever a migration fails or the program is killed (db/migrate.py).          *)
THEOREM SchemaStaysWhole == RecordsSpec => []SchemaIsItsVersion
<1>1. RecordsInv => SchemaIsItsVersion
  BY DEF RecordsInv, SchemaInv, CommittedIsWhole, SchemaIsItsVersion
<1> QED BY <1>1, RecordsKeep, PTL

(* A database that was there changes only after the snapshot of exactly what it  *)
(* held is whole (db/migrate.py).                                                *)
THEOREM SnapshotComesFirst == RecordsSpec => ChangedAfterSnapshot
<1>1. RecordsSpec => [][MigrationOK]_schemaVars
  BY RecordsKeep, RecordsStep, PTL DEF RecordsSpec
<1> QED BY <1>1 DEF ChangedAfterSnapshot, MigrationOK

(* What besides is true of every component, the one that runs and the others.    *)
Components == {"plugins", "health", "sessions", "list", "search", "ech", "diagnostics",
               "file", "pages", "schema", "ahead", "identity", "corrections", "classes", "progress"}
RecordsTypes ==
  /\ part \in Components
  /\ NoteAndOwner /\ OnePrevious /\ CopiesAre /\ ProgressBounds
  /\ SessionsInv /\ WithinList /\ FewDownloads /\ AnyFile
  /\ EchInv /\ DiagnosticsInv /\ HealthTypeOK

(* Every component starts with it.                                             *)
LEMMA TypesStart == RecordsInit => RecordsTypes
BY RestInitially, CopiesInitially, BoundsInitially, SessionsInitially, WithinListInitially, FewDownloadsInitially,
   AnyFileInitially, EchInitially, DiagnosticsInitially, HealthInitially
   DEF RecordsInit, RecordsTypes, Components

(* A step keeps it, and a source that looks worse has failed.                    *)
LEMMA TypesStep ==
  RecordsInv /\ RecordsTypes /\ [RecordsNext]_recordsVars => RecordsTypes' /\ [WorseOK]_healthVars
<1> SUFFICES ASSUME RecordsInv, RecordsTypes, [RecordsNext]_recordsVars PROVE RecordsTypes' /\ WorseOK
  OBVIOUS
<1> USE DEF RecordsInv, RecordsTypes
<1>1. NoteAndOwner' /\ OnePrevious' BY RecordsComponents, RestStep DEF ReviewInv
<1>2. CopiesAre' BY RecordsComponents, CopiesStay DEF SchemaInv
<1>3. ProgressBounds' BY RecordsComponents, BoundsStep
<1>4. SessionsInv'
  BY RecordsComponents, SessionStep, StoreStep, LoginsStayFew DEF SessionsInv, FewOf
<1>5. WithinList' BY RecordsComponents, WithinListStep
<1>6. FewDownloads' BY RecordsComponents, FewDownloadsStep
<1>7. AnyFile' BY RecordsComponents, AnyFileStep
<1>8. EchInv' /\ DiagnosticsInv' BY RecordsComponents, EchStep, DiagnosticsStep
<1>9. HealthTypeOK' /\ WorseOK BY RecordsComponents, HealthStep, WorseStep
<1>10. part' \in Components BY RecordsComponents DEF Components
<1> QED BY <1>1, <1>2, <1>3, <1>4, <1>5, <1>6, <1>7, <1>8, <1>9, <1>10

(* So it holds throughout.                                                     *)
LEMMA TypesKeep == RecordsSpec => []RecordsTypes
BY TypesStart, TypesStep, RecordsKeep, PTL DEF RecordsSpec

(* So every component has the types of its variables.                            *)
LEMMA TypesShow == RecordsInv /\ RecordsTypes => RecordsTypeOK
<1> SUFFICES ASSUME RecordsInv, RecordsTypes PROVE RecordsTypeOK OBVIOUS
<1> USE DEF RecordsInv, RecordsTypes
<1>1. PluginTypeOK BY PluginTypes DEF ReviewInv
<1>2. SchemaTypeOK BY SchemaTypes DEF SchemaInv
<1>3. ProgressTypeOK /\ SessionTypeOK BY ProgressTypes, SessionsShow
<1>4. PageRetrievalTypeOK /\ ReadAheadTypeOK /\ FileTypeOK BY PageTypes, AheadTypes, AnyFileTypes
<1>5. EchTypeOK /\ DiagnosticsTypeOK BY EchInvShows, DiagnosticsShow
<1>6. SearchTypeOK /\ IdentityTypeOK /\ CorrectionsTypeOK /\ PagedTypeOK
  BY SearchInvShows, IdentityShows, FieldsShow DEF PagedInv
<1>7. CASE part = "plugins" BY <1>7, <1>1 DEF RecordsTypeOK
<1>8. CASE part = "health" BY <1>8 DEF RecordsTypeOK
<1>9. CASE part = "sessions" BY <1>9, <1>3 DEF RecordsTypeOK
<1>10. CASE part = "list" BY <1>10, <1>6 DEF RecordsTypeOK
<1>11. CASE part = "search" BY <1>11, <1>6 DEF RecordsTypeOK
<1>12. CASE part = "ech" BY <1>12, <1>5 DEF RecordsTypeOK
<1>13. CASE part = "diagnostics" BY <1>13, <1>5 DEF RecordsTypeOK
<1>14. CASE part = "file" BY <1>14, <1>4 DEF RecordsTypeOK
<1>15. CASE part = "pages" BY <1>15, <1>4 DEF RecordsTypeOK
<1>16. CASE part = "schema" BY <1>16, <1>2 DEF RecordsTypeOK
<1>17. CASE part = "ahead" BY <1>17, <1>4 DEF RecordsTypeOK
<1>18. CASE part = "identity" BY <1>18, <1>6 DEF RecordsTypeOK
<1>19. CASE part = "corrections" BY <1>19, <1>6 DEF RecordsTypeOK
<1>20. CASE part = "classes" BY <1>20, <1>6 DEF RecordsTypeOK
<1>21. CASE part = "progress" BY <1>21, <1>3 DEF RecordsTypeOK
<1> QED BY <1>7, <1>8, <1>9, <1>10, <1>11, <1>12, <1>13, <1>14, <1>15, <1>16, <1>17, <1>18, <1>19, <1>20, <1>21 DEF Components

(* What is recorded of operations is true: every record is one, a validation     *)
(* that is shown is under way, one request looks a configuration up for all, and *)
(* the newest records of the diagnostics are the ones that are kept, within      *)
(* their size and age on a day that writes much (api/sources.py, net/ech.py,     *)
(* diagnostics/store.py).                                                        *)
THEOREM OperationsRecorded == RecordsSpec => []OperationsAreRecorded
<1>1. RecordsInv /\ RecordsTypes => OperationsAreRecorded
  BY TypesShow, SessionsShow, EchInvShows, DiagnosticsShow DEF RecordsTypes, OperationsAreRecorded
<1> QED BY <1>1, RecordsKeep, TypesKeep, PTL

(* The state of a source gets worse only after failures in a row, and an         *)
(* existing database changes only after its snapshot (health/service.py,         *)
(* db/migrate.py).                                                               *)
THEOREM ChangesJustified == RecordsSpec => ChangesAreJustified
<1>1. RecordsSpec => [][WorseOK]_healthVars
  BY RecordsKeep, TypesKeep, TypesStep, PTL DEF RecordsSpec
<1>2. RecordsSpec => WorseOnlyByFailures BY <1>1 DEF WorseOnlyByFailures, WorseOK
<1> QED BY <1>2, SnapshotComesFirst DEF ChangesAreJustified

(* Only a tab that knows the row as it is moves it, a tab's positions are        *)
(* written in their order and none of before a refusal, and what is joined or    *)
(* merged back only advances it (reader/service.py, useProgress.ts,              *)
(* library/reclassify.py).                                                       *)
THEOREM NobodyRewinds == RecordsSpec => ProgressIsMonotonic
<1>1. RecordsSpec => [][CurrentOK]_progressVars /\ [][JoinOK]_progressVars /\ [][OrderOK]_progressVars
  BY RecordsKeep, RecordsStep, PTL DEF RecordsSpec
<1> QED BY <1>1 DEF ProgressIsMonotonic, StaleTabsCannotRewind, JoiningOnlyAdvances, NothingIsReplayed, CurrentOK, JoinOK, OrderOK

(* What is installed of a review is what was shown, only a validated login gives *)
(* a source its session, a refresh or a merge shows what the user corrected, and *)
(* leaving a Work cancels nothing the user asked for (plugins/manager.py,        *)
(* sessions/manager.py, library/overrides.py, reader/service.py).                *)
THEOREM UserIsHeard == RecordsSpec => UsersWordIsKept
<1>1. RecordsSpec => /\ [][ReviewOK]_pluginVars /\ [][LoginOK]_sessionVars
                     /\ [][CorrectionOK]_correctionVars /\ [][LeavingOK]_readAheadVars
  BY RecordsKeep, RecordsStep, PTL DEF RecordsSpec
<1> QED BY <1>1 DEF UsersWordIsKept, ReviewedIsInstalled, OnlyALoginStores, WritersKeepCorrections, OwnDownloadsStay,
                    ReviewOK, LoginOK, CorrectionOK, LeavingOK

(* The library's records agree: a live track is on the Work its listing belongs  *)
(* to, a listing has one track of a language and a Work one Follow in it, a      *)
(* field that is not corrected says what the source says, and a Work is what its *)
(* user said (search/mapping.py, library/overrides.py).                          *)
THEOREM LibraryAgrees == RecordsSpec => []LibraryIsConsistent
<1>1. RecordsInv => LibraryIsConsistent
  BY IdentityShows, FieldsShow DEF RecordsInv, LibraryIsConsistent
<1> QED BY <1>1, RecordsKeep, PTL

(* No refresh, repair or restore binds a listing against what the user decided,  *)
(* or makes two tracks of one (search/grouping.py, restore/service.py).          *)
THEOREM MappingsStand == RecordsSpec => UsersMappingsStand
<1>1. RecordsSpec => [][MappingOK]_identityVars
  BY RecordsKeep, RecordsStep, PTL DEF RecordsSpec
<1>2. MappingOK => BlockedRespected /\ EvidenceYielded /\ DecisionsKept /\ NoneTwinned
  BY DEF MappingOK
<1>3. RecordsSpec => /\ [][BlockedRespected]_identityVars /\ [][EvidenceYielded]_identityVars
                     /\ [][DecisionsKept]_identityVars /\ [][NoneTwinned]_identityVars
  BY <1>1, <1>2, PTL
<1> QED BY <1>3 DEF UsersMappingsStand, BlockedIsNotBound, EvidenceYields, RestoreKeepsDecisions, NeverTwinned,
                    BlockedRespected, EvidenceYielded, DecisionsKept, NoneTwinned

(* A list that is called complete has every usable entry the site listed when    *)
(* the reading began, in the order of the site and none unusable where every one *)
(* is needed; and what searches find and keep is settled and whole               *)
(* (plugins/runtime.py, search/service.py).                                      *)
THEOREM CompleteIsComplete == RecordsSpec => []CompleteAnswersAreWhole
<1>1. RecordsInv => CompleteAnswersAreWhole
  BY SearchInvShows DEF RecordsInv, PagedInv, CompleteAnswersAreWhole
<1> QED BY <1>1, RecordsKeep, PTL

(* So does the invariant of a file, from sites that answer as RangesAreNamed     *)
(* says.                                                                         *)
LEMMA FileKeeps == ASSUME RangesAreNamed PROVE RecordsSpec => []FileInv
<1>1. RecordsInit => FileInv
  BY FileInitially DEF RecordsInit
<1>2. FileInv /\ [RecordsNext]_recordsVars => FileInv'
  BY RecordsComponents, FileStep
<1> QED BY <1>1, <1>2, PTL DEF RecordsSpec

(* A file that is fetched in parts is of one version, if sites answer a request  *)
(* for the rest of a version with nothing else or say what their range is of; a  *)
(* unit is packaged as it was listed, and not refused for the pages it lacks; a  *)
(* unit is downloaded once, whoever asks and however often; and once a Work is   *)
(* left nothing of what was read ahead waits, but for the unit that was read     *)
(* (net/http.py, downloads/engine.py, reader/service.py).                        *)
THEOREM DownloadsStayWhole == ASSUME RangesAreNamed PROVE RecordsSpec => []DownloadsAreWhole
<1>1. RecordsInv /\ FileInv => DownloadsAreWhole
  BY AheadInvShows, UnitPagesInvShows, FileInvShows DEF RecordsInv, DownloadsAreWhole
<1> QED BY <1>1, RecordsKeep, FileKeeps, PTL

(* A request that is answered never ends the attempt that made it: a file that   *)
(* got shorter, or a range answered wrongly, is fetched anew (net/http.py).      *)
THEOREM RangesDoNotFail == ASSUME RangesAreNamed PROVE RecordsSpec => RangesNeverFail
<1>1. FileInv /\ [RecordsNext]_recordsVars => [attempt.pc = "ask" /\ attempt' = NoAttempt => fileFaults' > fileFaults]_fileVars
  BY RecordsComponents, FileStep
<1> QED BY <1>1, FileKeeps, PTL DEF RecordsSpec, RangesNeverFail
=============================================================================
