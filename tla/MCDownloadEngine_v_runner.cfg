\* A cancellation that a commit overtakes.
SPECIFICATION Spec
CONSTANTS
  j1 = j1  j2 = j2  u1 = u1  u2 = u2  b1 = b1  b2 = b2  k1 = k1  k2 = k2  k3 = k3
  m1 = m1  m2 = m2  None = None
  Jobs = {j1, j2}
  Units = {u1, u2}
  Batches = {b1}
  Calls = {k1, k2}
  Methods = {m1}
  UnitOf <- OwnUnit
  BatchOf <- OneBatch
  OutputOf <- Text
  ModeOf <- Strict
  FirstMethod = m1
  FallbackOrder <- NoFallback
  NeedsSession = {}
  Cancellable = {j1}
  RetryFrom = {}
  Handled = {}
  Concurrency = 2
  RetryBudget = 1
  MaxCrashes = 0  MaxFails = 0  MaxRetries = 0  MaxLosses = 0  MaxLateErrors = 0
SYMMETRY CallSymmetry
CHECK_DEADLOCK FALSE
INVARIANT RunnerLives
