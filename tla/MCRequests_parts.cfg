\* A reader and a prefetch of one page; a tab and a slow stream; two callers of a follow;
\* two visits to Home, two requests for a page of Discover.
SPECIFICATION RequestsSpec
CONSTANTS
  Readers = {r1}  Prefetches = {p1}  NoOne = NoOne  MaxFetches = 2  MaxLists = 3  MaxLinks = 2
  Subs = {b1, b2}  Threads = {w1}  Clients = {tab1}  NoStream = NoStream
  QueueSize = 3  MaxSubscribers = 1  WireSize = 1
  MaxChanges = 4  MaxDrops = 1  MaxReads = 1
  t1 = t1  t2 = t2  a = a  b = b  c = c  None = None
  Tracks = {t1, t2}  Units = {a, b, c}
  SuspiciousUnitsLost = 2  MaxCandidates = 2
  Answers <- MCAnswers
  Preemptible = {"manual"}
  FeedKeys = {f1}  Visits = {v1, v2}  Tasks = {k1, k2, k3}  NoTask = NoTask  Browsers = {d1, d2}
  RestTime = 1  FreshTime = 1  MaxFeedFailures = 1  MaxForgotten = 1  MaxListChanges = 1
CHECK_DEADLOCK FALSE
INVARIANTS
  OneRequestForAll NothingIsMissed CatalogsAgree
PROPERTIES
  ReportsAreTrue 
