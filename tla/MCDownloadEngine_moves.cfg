\* The queue moves on and cancellations come through, while batches are paused, resumed and reordered.
SPECIFICATION FairSpec
CONSTANTS
  j1 = j1  j2 = j2  u1 = u1  u2 = u2  b1 = b1  b2 = b2  k1 = k1  k2 = k2  k3 = k3
  m1 = m1  m2 = m2  None = None
  Jobs = {j1, j2}
  Units = {u1, u2}
  Batches = {b1, b2}
  Calls = {k1, k2}
  Methods = {m1}
  UnitOf <- OwnUnit
  BatchOf <- OwnBatch
  OutputOf <- PagesFile
  ModeOf <- Strict
  FirstMethod = m1
  FallbackOrder <- NoFallback
  NeedsSession = {}
  Cancellable = {j1}
  RetryFrom = {"FAILED"}
  Handled = {b1, b2}
  Concurrency = 1
  RetryBudget = 2
  MaxCrashes = 0  MaxFails = 0  MaxRetries = 0  MaxLosses = 0  MaxLateErrors = 1

CHECK_DEADLOCK FALSE
PROPERTIES  CancelEnds
