\* A download registers its file between the two reads of a removal.
SPECIFICATION RemovalSpec
CONSTANTS
  NoRow = NoRow
  ShelfAssets = {a1, a2}
  MaxReplacements = 1
  MaxRemovalCrashes = 1
CHECK_DEADLOCK FALSE
INVARIANTS NothingForgotten
