\* Two jobs of a unit: failures of every kind, a second method, lost sessions, cancellation, retries and a crash.
SPECIFICATION Spec
CONSTANTS
  j1 = j1  j2 = j2  u1 = u1  u2 = u2  b1 = b1  b2 = b2  k1 = k1  k2 = k2  k3 = k3
  m1 = m1  m2 = m2  None = None
  Jobs = {j1, j2}
  Units = {u1}
  Batches = {b1, b2}
  Calls = {k1, k2}
  Methods = {m1, m2}
  UnitOf <- OneUnit
  BatchOf <- OneBatch
  OutputOf <- Text
  ModeOf <- Automatic
  FirstMethod = m1
  FallbackOrder <- Fallbacks
  NeedsSession = {j1}
  Cancellable = {j1}
  RetryFrom = {"FAILED","CANCELED"}
  Handled = {}
  Concurrency = 1
  RetryBudget = 2
  MaxCrashes = 1  MaxFails = 1  MaxRetries = 1  MaxLosses = 1  MaxLateErrors = 0
SYMMETRY CallSymmetry
CHECK_DEADLOCK FALSE
INVARIANTS WorkIsBounded NeverStranded
PROPERTY CanceledStays
