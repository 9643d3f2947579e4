\* A location without hard links that may be unmounted, and jobs that may be canceled.
SPECIFICATION Spec
CONSTANTS
  c1 = c1  c2 = c2  a1 = a1  a2 = a2  s1 = s1  p1 = p1  p2 = p2  x1 = x1  x2 = x2
  Commits = {c1, c2}
  Areas = {a1, a2}
  Slots = {s1}
  Paths = {p1, p2}
  Artifacts = {x1, x2}
  Original = Original  Junk = Junk  None = None
  SlotOf <- MCSlotOf
  Places <- MCPlaces
  OneAtATime = TRUE
  OverlappingScans = FALSE
  HardLinks = FALSE
  Cancellable = {a1, a2}
  MaxCrashes = 1  MaxFaults = 1  MaxFlaps = 1  MaxTampers = 0
SYMMETRY Symmetry
CHECK_DEADLOCK FALSE
INVARIANT RegisteredFileIsThere
