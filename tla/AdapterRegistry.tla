---------------------------- MODULE AdapterRegistry ----------------------------
(* The Source Registry, from the adapters of a repository to an installed        *)
(* source: adapters are checked against what is published, built into a          *)
(* directory file by file, verified and published (plugins/adapter_repo.py, and  *)
(* registry_tool.py, which knows neither tiers nor a baseline); OneShelf         *)
(* remembers the index for a while (registry.py) and fetches a package when it   *)
(* is reviewed or installed (manager.py).  A build may be killed between any two *)
(* of its files, and an answer may be under way while the Registry changes.      *)
EXTENDS Naturals, FiniteSets

CONSTANTS
  Forms,         \* records [id, tier, version, files, good]: what the repository may hold of an adapter
  Askers,        \* requests of OneShelf that read the Registry
  NoListing,
  FirstParty,    \* BOOLEAN: OneShelf names this Registry as its first-party one
  IndexTtl, FailureTtl,                 \* ttl and failure_ttl of CachedRegistry, in ticks
  MaxRepoChanges, MaxRegistryFaults     \* bounds

ASSUME FormsAssumption == \A f \in Forms : f.version \in Nat
ASSUME RegistryTtls == FailureTtl \in Nat /\ IndexTtl \in Nat /\ FailureTtl <= IndexTtl

VARIABLES
  tool,        \* what builds this Registry: "adapter_repo" or "registry_tool"
  adapters,    \* the adapters of the repository
  work,        \* the directory a build writes: its index and its packages
  build,       \* [at, built, left]: the build under way
  published,   \* the Registry that is served
  cache,       \* CachedRegistry: [holds, index, age]
  ask,         \* by asker: [at, index, age, entry]
  installed,   \* history: what was last installed from the Registry, with the trust it was given
  listings,    \* history: every entry ever published
  repoChanges, registryFaults

repoVars == <<tool, adapters>>
buildVars == <<work, build>>
clientVars == <<cache, ask, installed>>
registryBoundVars == <<repoChanges, registryFaults>>
adapterVars == <<repoVars, buildVars, published, clientVars, listings, registryBoundVars>>

Entry(a) == [id |-> a.id, tier |-> IF tool = "adapter_repo" THEN a.tier ELSE "official",
             version |-> a.version, files |-> a.files]
Package(e) == [id |-> e.id, version |-> e.version, files |-> e.files]
SameFile(p, q) == p.id = q.id /\ p.version = q.version       \* packages/<id>-<version>.osp

OnePerId(s) == \A p, q \in s : p.id = q.id => p = q

RegistryEntries == [id : {a.id : a \in Forms}, tier : {a.tier : a \in Forms} \cup {"official", "community"},
            version : {a.version : a \in Forms}, files : {a.files : a \in Forms}]
Directories == [index : SUBSET RegistryEntries, packages : SUBSET {Package(e) : e \in RegistryEntries}]
EmptyDirectory == [index |-> {}, packages |-> {}]
NoBuild == [at |-> "idle", built |-> {}, left |-> {}]
NoCache == [holds |-> "nothing", index |-> {}, age |-> 0]
NoAsk == [at |-> "idle", index |-> {}, age |-> 0, entry |-> NoListing]

AdapterRegistryTypeOK ==
  /\ tool \in {"adapter_repo", "registry_tool"} /\ adapters \subseteq Forms
  /\ work.index \subseteq RegistryEntries /\ work.packages \subseteq {Package(e) : e \in RegistryEntries}
  /\ build.at \in {"idle", "writing"} /\ build.left \subseteq build.built /\ build.built \subseteq Forms
  /\ published.index \subseteq RegistryEntries /\ published.packages \subseteq {Package(e) : e \in RegistryEntries}
  /\ cache.holds \in {"nothing", "index", "failure"} /\ cache.index \subseteq RegistryEntries /\ cache.age \in 0..IndexTtl
  /\ \A k \in Askers : /\ ask[k].at \in {"idle", "asking", "answered", "listed", "fetching"}
                       /\ ask[k].index \subseteq RegistryEntries /\ ask[k].age \in 0..IndexTtl
  /\ (installed = NoListing \/ installed \in RegistryEntries) /\ listings \subseteq RegistryEntries

AdaptersInit ==
  /\ tool \in {"adapter_repo", "registry_tool"}
  /\ adapters \in {s \in SUBSET Forms : OnePerId(s)}
  /\ work = EmptyDirectory /\ build = NoBuild /\ published = EmptyDirectory
  /\ cache = NoCache /\ ask = [k \in Askers |-> NoAsk]
  /\ installed = NoListing /\ listings = {} /\ repoChanges = 0 /\ registryFaults = 0

-----------------------------------------------------------------------------
(* The repository: a commit leaves it with any set of adapters.  registry_tool   *)
(* keeps one directory per adapter, so there an id cannot be there twice.        *)

Commit ==
  /\ repoChanges < MaxRepoChanges /\ repoChanges' = repoChanges + 1
  /\ adapters' \in SUBSET Forms \ {adapters}
  /\ tool = "registry_tool" => OnePerId(adapters')
  /\ UNCHANGED <<tool, buildVars, published, clientVars, listings, registryFaults>>

-----------------------------------------------------------------------------
(* A build.                                                                      *)

BaselineByVersion(a) ==          \* mutant: the files of a published version are not compared
  \A e \in published.index : e.id = a.id => a.version >= e.version
BaselineAllows(a) ==             \* baseline_problems() finds none
  \A e \in published.index : e.id = a.id =>
    /\ a.version >= e.version
    /\ a.version = e.version => a.files = e.files

(* check(): one adapter per id, each builds, loads and passes its packaged tests *)
(* and keeps to the baseline.                                                    *)
Builds(a) == a.good
Check == OnePerId(adapters) /\ \A a \in adapters : Builds(a) /\ BaselineAllows(a)

(* _build_sources() of registry_tool.                                            *)
CheckOfficial == adapters # {} /\ \A a \in adapters : Builds(a)

StartBuild ==
  /\ build.at = "idle"
  /\ IF tool = "adapter_repo" THEN Check ELSE CheckOfficial
  /\ build' = [at |-> "writing", built |-> adapters, left |-> adapters]
  /\ UNCHANGED <<repoVars, work, published, clientVars, listings, registryBoundVars>>

(* One package, replaced whole.                                                  *)
WritePackage ==
  /\ build.at = "writing"
  /\ \E a \in build.left :
       /\ work' = [work EXCEPT !.packages = {p \in @ : ~SameFile(p, a)} \cup {Package(a)}]
       /\ build' = [build EXCEPT !.left = @ \ {a}]
  /\ UNCHANGED <<repoVars, published, clientVars, listings, registryBoundVars>>

Stale(p) == \A a \in build.built : ~SameFile(p, a)

RemoveStale ==
  /\ build.at = "writing" /\ build.left = {}
  /\ \E p \in work.packages : Stale(p) /\ work' = [work EXCEPT !.packages = @ \ {p}]
  /\ UNCHANGED <<repoVars, build, published, clientVars, listings, registryBoundVars>>

WriteIndex ==
  /\ build.at = "writing" /\ build.left = {} /\ \A p \in work.packages : ~Stale(p)
  /\ work' = [work EXCEPT !.index = {Entry(a) : a \in build.built}]
  /\ build' = NoBuild
  /\ UNCHANGED <<repoVars, published, clientVars, listings, registryBoundVars>>

KillBuild ==
  /\ build.at = "writing" /\ registryFaults < MaxRegistryFaults
  /\ build' = NoBuild /\ registryFaults' = registryFaults + 1
  /\ UNCHANGED <<repoVars, work, published, clientVars, listings, repoChanges>>

-----------------------------------------------------------------------------
(* verify_registry(), given the repository too, then the push that serves it.    *)

PackagesUnread(d) == \A e \in d.index : \E p \in d.packages : SameFile(p, e) \* mutant: names, not hashes
PackagesAreThere(d) == \A e \in d.index : Package(e) \in d.packages
NothingElse(d) == \A p \in d.packages : \E e \in d.index : SameFile(p, e)
ListsTheSources(d) == d.index = {Entry(a) : a \in adapters}     \* _source_problems()

Verifies(d) == /\ OnePerId(d.index) /\ PackagesAreThere(d) /\ NothingElse(d)
               /\ OnePerId(adapters) /\ (\A a \in adapters : Builds(a)) /\ ListsTheSources(d)
VerifiesOfficial(d) == /\ OnePerId(d.index) /\ PackagesAreThere(d) /\ NothingElse(d)
                       /\ CheckOfficial /\ ListsTheSources(d)

PublishRegistry ==
  /\ build.at = "idle" /\ work # published
  /\ IF tool = "adapter_repo" THEN Verifies(work) ELSE VerifiesOfficial(work)
  /\ published' = work /\ listings' = listings \cup work.index
  /\ UNCHANGED <<repoVars, buildVars, clientVars, registryBoundVars>>

-----------------------------------------------------------------------------
(* OneShelf: CachedRegistry.entries(), which reads the clock before it asks.     *)

KeepsFailureForGood == cache.holds = "failure"                   \* mutant: a failure does not age
KeepsFailure == cache.holds = "failure" /\ cache.age < FailureTtl
KeepsIndex == cache.holds = "index" /\ cache.age < IndexTtl

At(k, s) == ask[k].at = s
AsksNow == [NoAsk EXCEPT !.at = "asking"]

ReadsCache(k) ==
  /\ At(k, "idle") /\ KeepsIndex
  /\ ask' = [ask EXCEPT ![k] = [NoAsk EXCEPT !.at = "listed", !.index = cache.index]]
  /\ UNCHANGED <<repoVars, buildVars, published, cache, installed, listings, registryBoundVars>>

AskRegistry(k) ==
  /\ At(k, "idle") /\ ~KeepsIndex /\ ~KeepsFailure
  /\ ask' = [ask EXCEPT ![k] = AsksNow]
  /\ UNCHANGED <<repoVars, buildVars, published, cache, installed, listings, registryBoundVars>>

(* registry_listing?refresh forgets what is remembered, then asks.               *)
RefreshRegistry(k) ==
  /\ At(k, "idle") /\ cache' = NoCache
  /\ ask' = [ask EXCEPT ![k] = AsksNow]
  /\ UNCHANGED <<repoVars, buildVars, published, installed, listings, registryBoundVars>>

ServeIndex(k) ==
  /\ At(k, "asking")
  /\ ask' = [ask EXCEPT ![k].at = "answered", ![k].index = published.index]
  /\ UNCHANGED <<repoVars, buildVars, published, cache, installed, listings, registryBoundVars>>

ReceiveIndex(k) ==
  /\ At(k, "answered")
  /\ cache' = [holds |-> "index", index |-> ask[k].index, age |-> ask[k].age]
  /\ ask' = [ask EXCEPT ![k].at = "listed", ![k].age = 0]
  /\ UNCHANGED <<repoVars, buildVars, published, installed, listings, registryBoundVars>>

RegistryFails(k) ==
  /\ At(k, "asking") /\ registryFaults < MaxRegistryFaults /\ registryFaults' = registryFaults + 1
  /\ cache' = [holds |-> "failure", index |-> {}, age |-> ask[k].age]
  /\ ask' = [ask EXCEPT ![k] = NoAsk]
  /\ UNCHANGED <<repoVars, buildVars, published, installed, listings, repoChanges>>

(* registry_listing() shows what it was told.                                    *)
ShowListing(k) ==
  /\ At(k, "listed") /\ ask' = [ask EXCEPT ![k] = NoAsk]
  /\ UNCHANGED <<repoVars, buildVars, published, cache, installed, listings, registryBoundVars>>

(* pick(): the newest version the index names of the adapter asked for.          *)
PickEntry(k) ==
  /\ At(k, "listed")
  /\ \E e \in ask[k].index :
       /\ \A o \in ask[k].index : o.id = e.id => o.version <= e.version
       /\ ask' = [ask EXCEPT ![k] = [NoAsk EXCEPT !.at = "fetching", !.entry = e]]
  /\ UNCHANGED <<repoVars, buildVars, published, cache, installed, listings, registryBoundVars>>

(* _fetch_entry() and install_from_registry(): the package the Registry serves   *)
(* now must be the one the index described; the label is believed of the         *)
(* first-party Registry only.                                                    *)
IsNamedSo(p, e) == SameFile(p, e)                               \* mutant: the hash is not compared
IsAsListed(p, e) == p.files = e.files
Trust(e) == IF FirstParty THEN e.tier ELSE "community"

FetchPackage(k) ==
  /\ At(k, "fetching")
  /\ LET e == ask[k].entry
         served == {p \in published.packages : SameFile(p, e) /\ IsAsListed(p, e)}
     IN installed' \in IF served = {} THEN {installed}
                      ELSE {[id |-> p.id, tier |-> Trust(e), version |-> p.version, files |-> p.files] : p \in served}
  /\ ask' = [ask EXCEPT ![k] = NoAsk]
  /\ UNCHANGED <<repoVars, buildVars, published, cache, listings, registryBoundVars>>

OneTickOlder(n) == IF n < IndexTtl THEN n + 1 ELSE n

TimePassesByIndex ==
  /\ cache' = [cache EXCEPT !.age = IF cache.holds = "nothing" THEN 0 ELSE OneTickOlder(@)]
  /\ ask' = [k \in Askers |-> IF ask[k].at \in {"asking", "answered"} THEN [ask[k] EXCEPT !.age = OneTickOlder(@)] ELSE ask[k]]
  /\ <<cache, ask>>' # <<cache, ask>>
  /\ UNCHANGED <<repoVars, buildVars, published, installed, listings, registryBoundVars>>

AskerNext(k) == ReadsCache(k) \/ AskRegistry(k) \/ ServeIndex(k) \/ ReceiveIndex(k) \/ ShowListing(k)

AdaptersNext ==
  \/ Commit \/ StartBuild \/ WritePackage \/ RemoveStale \/ WriteIndex \/ KillBuild \/ PublishRegistry
  \/ TimePassesByIndex
  \/ \E k \in Askers : \/ AskerNext(k) \/ RefreshRegistry(k) \/ RegistryFails(k)
                       \/ PickEntry(k) \/ FetchPackage(k)

(* Requests end, time passes, and somebody opens the Registry again and again.   *)
AdaptersFairness ==
  /\ WF_adapterVars(TimePassesByIndex)
  /\ \A k \in Askers : WF_adapterVars(AskerNext(k)) /\ WF_adapterVars(FetchPackage(k))

AdaptersSpec == AdaptersInit /\ [][AdaptersNext]_adapterVars /\ AdaptersFairness

-----------------------------------------------------------------------------
(* What is served can be installed, and is nothing but what the index names,     *)
(* though a build may have been killed and taken up again: what a kill leaves in *)
(* the directory never reaches the Registry (adapter_repo.verify_registry).      *)
ServedIsWhole ==
  published.packages = {Package(e) : e \in published.index} /\ OnePerId(published.index)

(* While an adapter stays listed its version only goes forward, and a version's  *)
(* files never change (adapter_repo.baseline_problems).                          *)
VersionsAreImmutable ==
  [][tool = "adapter_repo" =>
       \A e \in published.index, n \in published'.index :
         n.id = e.id => n.version > e.version \/ (n.version = e.version /\ n.files = e.files)]_adapterVars

(* What is installed was published as that version with those files and that     *)
(* trust, though the index is remembered and the Registry may have changed since *)
(* it was read (manager._fetch_entry).                                           *)
InstalledAsPublished ==
  installed = NoListing \/ \E e \in listings : Package(e) = Package(installed) /\ Trust(e) = installed.tier

(* Once the repository rests, what is published shows again and again, though an *)
(* index is remembered, a failure too, and an answer may be older than what is   *)
(* published when it arrives (CachedRegistry.entries).                           *)
NewsReachesListing == []<>(cache.holds = "index" /\ cache.index = published.index)
=============================================================================
