\* Three tasks, two sources, a browser for one and two http slots, one reserved.
SPECIFICATION FairSpec
CONSTANTS
  t1 = t1  t2 = t2  t3 = t3  s1 = s1  s2 = s2  None = None
  Tasks = {t1, t2, t3}
  Sources = {s1, s2}
  Requests <- MCRequests
  HttpCapacity = 2  BrowserCapacity = 1  ReservedForForeground = 1
  Limits <- MCLimits
  RetryDelays = {2}  Promotions = {1}
  MaxRequests = 3  MaxCalls = 1
CHECK_DEADLOCK FALSE
INVARIANTS LeasesAccounted NoLostWakeup UrgentPreempts
PROPERTIES NoOvertaking GetsItsTurn
