\* Two jobs, one after the other, replace the copy of a slot: crashes, I/O errors, strangers.
SPECIFICATION Spec
CONSTANTS
  c1 = c1  c2 = c2  a1 = a1  a2 = a2  s1 = s1  p1 = p1  p2 = p2  x1 = x1  x2 = x2
  Commits = {c1, c2}
  Areas = {a1, a2}
  Slots = {s1}
  Paths = {p1, p2}
  Artifacts = {x1, x2}
  Original = Original  Junk = Junk  None = None
  SlotOf <- MCSlotOf
  Places <- MCPlaces
  OneAtATime = TRUE
  OverlappingScans = FALSE
  HardLinks = TRUE
  Cancellable = {}
  MaxCrashes = 2  MaxFaults = 1  MaxFlaps = 0  MaxTampers = 1
SYMMETRY Symmetry
CHECK_DEADLOCK FALSE
INVARIANTS TypeOK OldCopyKept RegisteredFileIsThere NoOrphanArtifact
 
