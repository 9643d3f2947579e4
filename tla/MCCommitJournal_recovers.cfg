\* Overlapping attempts of one job and a scan, a crash, an I/O error, a location that may go away.
SPECIFICATION FairSpec
CONSTANTS
  c1 = c1  c2 = c2  a1 = a1  a2 = a2  s1 = s1  p1 = p1  p2 = p2  x1 = x1  x2 = x2
  Commits = {c1, c2}
  Areas = {a1}
  Slots = {s1}
  Paths = {p1, p2}
  Artifacts = {x1}
  Original = Original  Junk = Junk  None = None
  SlotOf <- MCSlotOf
  Places <- MCPlaces
  OneAtATime = FALSE
  OverlappingScans = TRUE
  HardLinks = TRUE
  Cancellable = {}
  MaxCrashes = 1  MaxFaults = 1  MaxFlaps = 1  MaxTampers = 0
CHECK_DEADLOCK FALSE
PROPERTIES  RecoveryCompletes
