\* Plugins through two offers and a crash, two logins, lists of up to three pages, a search and a
\* retry; two requests for a site whose key changes, four days of diagnostics;
\* two Works and a listing, a unit with a twin, a tab, and backups that are restored; a file and a unit
\* of pages that are fetched, programs of three schemas, and
\* a track of three units that is read.
SPECIFICATION RecordsSpec
CONSTANTS
  Packages <- MCPackages  NoPackage = NoPackage  MaxPluginCrashes = 1  MaxOffers = 2
  DegradedAfter = 2  UnavailableAfter = 3  RecoverySuccesses = 2  Window = 4  MaxSignals = 4
  Logins = {l1, l2}  Checks = {c1, c2}  Uses = {u1}  MaxActive = 1  MaxSessionCrashes = 1
  None = None  Anonymous = Anonymous  Unreadable = Unreadable
  i1 = i1  i2 = i2  i3 = i3  i4 = i4
  SiteLists <- MCSiteLists  Unusable = Unusable  NewEntry = NewEntry  NoReason = NoReason  NoPage = NoPage
  PageSizes = {1, 2, 3}  PageCap = 2  TotalCap = 3  MaxPages = 4
  SearchSources = {s1, s2}  Searches = {q1}  Retry = Retry  NoState = NoState
  MaxWorks = 2  Listings = {l1}  Null = Null  MaxId = 2  MaxMappings = 1  MaxRestores = 1
  Unit = u  Twin = w  NotCorrected = NotCorrected  Types = {"book", "manga"}  Default = "book"  Chosen = "novel"  MaxRefreshes = 2
  Tabs = {tab1}  NoRecord = NoRecord  Far = 2  MaxPositions = 2  MaxRevision = 3  MaxReplaces = 1
  EchRequests = {e1, e2}  EchSlots = 2  NoConfig = NoConfig  NobodyAsks = NobodyAsks
  MaxKeys = 2  MaxEchFaults = 1  MaxHops = 1
  SegmentSize = 2  MaxSize = 3  MaxAge = 1  LastDay = 4  LastRecord = 7
  LastVersion = 3  FileLength <- MCFileLength  UnsoundVersions = {2}  MaxChunks = 3
  FileSites <- MCFileSites  NoPart = NoPart  MaxFileAttempts = 3  MaxFileFaults = 2
  v1 = v1  v2 = v2  v3 = v3  PageUrls = {v1, v2, v3}  PageLists <- MCPageLists  NoImage = NoImage  MaxPageFaults = 2
  LastSchema = 3  Rebuilding = {2}  MaxStarts = 4  MaxMigrateFaults = 2  MaxEntries = 1
  LastUnit = 3  UnitsAhead = 1  NotReading = NotReading  MaxDownloads = 2
CHECK_DEADLOCK FALSE
INVARIANTS
  OwnersChoicesStand OperationsAreRecorded CompleteAnswersAreWhole  SchemaIsItsVersion LibraryIsConsistent
PROPERTIES
   ProgressIsMonotonic UsersWordIsKept ChangesAreJustified RecordsAreReached
