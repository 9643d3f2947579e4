------------------------------- MODULE MCRecords -------------------------------
(* Instances for TLC of the components that keep records of the sources and of   *)
(* the library: plugins, the health of sources, sessions with them, their keys,  *)
(* diagnostics, what lists and searches found, whose Work a listing is,          *)
(* corrections, how far a unit is read, what reading has downloaded, what a      *)
(* download fetched into its staging area, and the schema all that is kept in.   *)
(* They share no state that the models keep, so a behaviour is one of a single   *)
(* component, chosen at its start; the others stay as they begin. What the user  *)
(* corrects of units and of a Work share no more than the backup: two parts.     *)
EXTENDS PluginStore, SourceHealth, Sessions, PagedList, SearchFlow, EchTransport, DiagnosticsStore,
        WorkIdentity, Corrections, ReadingProgress, FileRetrieval, PageRetrieval, SchemaMigrations,
        ReadAhead, TLC

CONSTANTS i1, i2, i3, i4, v1, v2, v3

Package(number, permissions, usable) == [version |-> number, perms |-> permissions, works |-> usable]

(* An update that asks for a permission more, and a broken one.                  *)
MCPackages == {Package(1, {"net"}, TRUE), Package(2, {"net", "browser"}, TRUE), Package(3, {"net"}, FALSE)}

(* Lists that end at a page, within one and past the limit, with entries twice   *)
(* and entries that cannot be used.                                              *)
MCSiteLists == {<<>>, <<i1>>, <<i1, i2, i3>>, <<i1, i2, i1>>, <<i1, i2, i1, i3>>, <<i1, Unusable, i2>>,
                <<Unusable, Unusable, i1>>, <<i1, i2, i3, i4>>}

(* A file that gets shorter, unsound for a while, and then longer than allowed;  *)
(* sites that know ranges or not, and lists that shrink and are reordered.       *)
MCFileLength == <<3, 2, 4>>
FileSite(tags, sizes, how) == [tagged |-> tags, sized |-> sizes, ranges |-> how]
MCFileSites == {FileSite(FALSE, TRUE, "none")}
               \cup {FileSite(TRUE, s, r) : s \in BOOLEAN, r \in {"none", "honest", "terse", "careless", "shifted"}}
MCPageLists == {<<v1, v2, v3>>, <<v2, v3>>, <<v3, v1, v2>>}

VARIABLE part

sourceVars == <<pluginVars, healthVars, sessionVars, pagedVars, searchVars>>
networkVars == <<echVars, diagnosticsVars>>
retrievalVars == <<fileVars, pageVars, schemaVars, readAheadVars>>
libraryVars == <<identityVars, correctionVars, progressVars>>
recordsVars == <<part, sourceVars, networkVars, retrievalVars, libraryVars>>

RecordsInit ==
  /\ part \in {"plugins", "health", "sessions", "list", "search", "ech", "diagnostics",
              "file", "pages", "schema", "ahead", "identity", "corrections", "classes", "progress"}
  /\ PluginsInit /\ HealthInit /\ SessionsInit /\ SearchInit /\ IdentityInit /\ CorrectionsInit /\ ProgressInit
  /\ EchInit /\ DiagnosticsInit /\ FileInit /\ PagesOfUnitInit /\ SchemaInit /\ ReadAheadInit
  /\ part # "file" => ~fileSite.tagged
  /\ copies \subseteq IF part = "ahead" THEN {1} ELSE {}
  /\ part # "pages" => pageListed = <<v2, v3>>
  /\ part # "plugins" => plugin.state = "none" /\ bundled = CHOOSE p \in Packages : TRUE
  /\ part # "classes" => work.by # "user"
  /\ part # "progress" => twin = NoRecord
  /\ PagedInit
  /\ part # "list" => recipe = [mode |-> "none", stop |-> "no_next", strict |-> FALSE, from |-> 0]
                      /\ site = CHOOSE x \in Sites : TRUE

SourcesNext ==
  \/ part = "plugins" /\ PluginsNext /\ UNCHANGED <<healthVars, sessionVars, pagedVars, searchVars>>
  \/ part = "health" /\ HealthNext /\ UNCHANGED <<pluginVars, sessionVars, pagedVars, searchVars>>
  \/ part = "sessions" /\ SessionsNext /\ UNCHANGED <<pluginVars, healthVars, pagedVars, searchVars>>
  \/ part = "list" /\ PagedNext /\ UNCHANGED <<pluginVars, healthVars, sessionVars, searchVars>>
  \/ part = "search" /\ SearchNext /\ UNCHANGED <<pluginVars, healthVars, sessionVars, pagedVars>>

NetworkNext ==
  \/ part = "ech" /\ EchNext /\ UNCHANGED diagnosticsVars
  \/ part = "diagnostics" /\ DiagnosticsNext /\ UNCHANGED echVars

RetrievalNext ==
  \/ part = "file" /\ FileNext /\ UNCHANGED <<pageVars, schemaVars, readAheadVars>>
  \/ part = "pages" /\ PagesOfUnitNext /\ UNCHANGED <<fileVars, schemaVars, readAheadVars>>
  \/ part = "schema" /\ SchemaNext /\ UNCHANGED <<fileVars, pageVars, readAheadVars>>
  \/ part = "ahead" /\ ReadAheadNext /\ UNCHANGED <<fileVars, pageVars, schemaVars>>

LibraryNext ==
  \/ part = "identity" /\ IdentityNext /\ UNCHANGED <<correctionVars, progressVars>>
  \/ part = "corrections" /\ CorrectionsNext /\ UNCHANGED <<work, identityVars, progressVars>>
  \/ part = "classes" /\ CorrectionsNext /\ UNCHANGED <<units, source, shown, overrides, identityVars, progressVars>>
  \/ part = "progress" /\ ProgressNext /\ UNCHANGED <<identityVars, correctionVars>>

RecordsNext ==
  \/ SourcesNext /\ UNCHANGED <<part, networkVars, retrievalVars, libraryVars>>
  \/ RetrievalNext /\ UNCHANGED <<part, sourceVars, networkVars, libraryVars>>
  \/ NetworkNext /\ UNCHANGED <<part, sourceVars, retrievalVars, libraryVars>>
  \/ LibraryNext /\ UNCHANGED <<part, sourceVars, networkVars, retrievalVars>>

(* PluginsFairness and EchFairness, of what runs.                                *)
RecordsFairness ==
  /\ WF_pluginVars(part = "plugins" /\ StartStep)
  /\ \A r \in EchRequests : WF_echVars(part = "ech" /\ RequestStep(r))

RecordsSpec == RecordsInit /\ [][RecordsNext]_recordsVars /\ RecordsFairness

(* Every variable of the component that runs has its type.                       *)
RecordsTypeOK ==
  CASE part = "plugins" -> PluginTypeOK
    [] part = "health" -> HealthTypeOK
    [] part = "sessions" -> SessionTypeOK
    [] part = "list" -> PagedTypeOK
    [] part = "search" -> SearchTypeOK
    [] part = "ech" -> EchTypeOK
    [] part = "diagnostics" -> DiagnosticsTypeOK
    [] part = "file" -> FileTypeOK
    [] part = "pages" -> PageRetrievalTypeOK
    [] part = "schema" -> SchemaTypeOK
    [] part = "ahead" -> ReadAheadTypeOK
    [] part = "identity" -> IdentityTypeOK
    [] part \in {"corrections", "classes"} -> CorrectionsTypeOK
    [] part = "progress" -> ProgressTypeOK

(* LibraryStarts, of the behaviours in which the application starts.             *)
LibraryStartsWhenRun == part = "plugins" => LibraryStarts

(* EverybodyIsAnswered, of the behaviours in which there are requests.           *)
RequestsAreAnswered == part = "ech" => EverybodyIsAnswered

-----------------------------------------------------------------------------
(* What the component that runs must keep, by what it protects.                  *)

(* The owner decides what runs: no permission that was not granted, no source    *)
(* that was disabled or removed, nothing but the registered file, and the first  *)
(* run is finished (plugins/manager.py, plugins/bundled.py).                     *)
OwnersChoicesStand == NothingUngranted /\ StoreIsWhatWasRegistered /\ ChoicesStand /\ FirstRunFinishes

(* What is recorded of operations is true: a validation that is shown is under   *)
(* way, one request looks a configuration up for all, and the newest records     *)
(* are the ones that are kept (api/sources.py, net/ech.py, diagnostics/store.py).*)
OperationsAreRecorded ==
  RecordsTypeOK /\ CheckingIsUnderWay /\ OneLookup /\ NewestSurvive /\ BusyDaysAreBounded

(* What is called complete is: a list read page by page, a search of all         *)
(* sources, an answer in the cache (plugins/runtime.py, search/service.py).      *)
CompleteAnswersAreWhole == CompleteIsWhole /\ InListOrder /\ CompleteIsSettled /\ CacheIsWhole

(* What a job fetched in parts is one thing, and what reading starts is fetched  *)
(* once and for somebody (net/http.py, downloads/engine.py, reader/service.py).  *)
DownloadsAreWhole ==
  NeverSpliced /\ PackagedAsListed /\ CoverageMatches /\ NeverTwice /\ NothingForNobody

(* The library's records agree with each other: tracks with the Work of their    *)
(* listing, fields with the source or the user's correction of them              *)
(* (search/grouping.py, library/overrides.py, library/reclassify.py).            *)
LibraryIsConsistent ==
  LiveTracksFollowTheirListing /\ OneOfEach /\ UncorrectedIsAsSource /\ WorkCorrectionStands

(* No refresh, repair or restore binds a listing against what the user decided,  *)
(* or makes two tracks of one (search/mapping.py, restore/service.py).           *)
UsersMappingsStand == BlockedIsNotBound /\ EvidenceYields /\ RestoreKeepsDecisions /\ NeverTwinned

(* Progress is never taken back by whoever does not know it (reader/service.py,  *)
(* useProgress.ts, library/reclassify.py).                                       *)
ProgressIsMonotonic == StaleTabsCannotRewind /\ JoiningOnlyAdvances /\ NothingIsReplayed

(* What the user reviewed, ended, corrected or asked for is what happens, though *)
(* something else was under way (plugins/manager.py, sessions/manager.py,        *)
(* library/overrides.py, reader/service.py).                                     *)
UsersWordIsKept == ReviewedIsInstalled /\ OnlyALoginStores /\ WritersKeepCorrections /\ OwnDownloadsStay

(* The state of a source gets worse, and an existing database changes, only      *)
(* after what justifies it was recorded (health/service.py, db/migrate.py).      *)
ChangesAreJustified == WorseOnlyByFailures /\ ChangedAfterSnapshot

(* A start ends in a library that serves, requests of the native source are      *)
(* answered, and a file that changed under a download does not fail it.          *)
RecordsAreReached == LibraryStartsWhenRun /\ RequestsAreAnswered /\ RangesNeverFail
=============================================================================
