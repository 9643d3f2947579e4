\* A migration, backups, two imports, an export, a removal, a Registry and its reader, and a
\* generated adapter, each with crashes and faults.
SPECIFICATION StorageSpec
CONSTANTS
  p1 = p1  p2 = p2  q1 = q1  None = None
  Planned = {p1, p2}  Fresh = {q1}
  Original = Original  Newer = Newer  Foreign = Foreign  Empty = Empty
  MaxMigrationCrashes = 1  MaxMigrationFaults = 1  MaxCommits = 1
  Assets = {a1}  Edits = {e1}  Keep = 1  MaxRecords = 2
  NoFile = NoFile  Older = Older  Later = Later
  MaxBackupFaults = 1  MaxBackupCrashes = 1  MaxWeeks = 1
  Imports = {m1, m2}  MaxImportCrashes = 2
  Items = {i1, i2}  ExportRuns = {r1, r2}
  MaxMeddling = 1  MaxExportCrashes = 1  NoCopy = NoCopy  OtherFile = OtherFile
  ShelfAssets = {x1, x2}  NoRow = NoRow
  MaxReplacements = 1  MaxRemovalCrashes = 1
  g1 = g1  y1 = y1  y2 = y2  Forms <- MCForms
  Askers = {k1}  NoListing = NoListing  FirstParty = TRUE  IndexTtl = 1  FailureTtl = 1
  MaxRepoChanges = 2  MaxRegistryFaults = 1
  Layouts = {l1, l2}  Gone = Gone  MaxSiteChanges = 1  MaxVersion = 2  MaxDrafts = 1  MaxRestarts = 1
CHECK_DEADLOCK FALSE
INVARIANTS
  NoFileIsLost ImportsAgree AdaptersAreWhole
PROPERTIES
  StrangersFilesStay NothingIsTakenAway InterruptedIsFinished
